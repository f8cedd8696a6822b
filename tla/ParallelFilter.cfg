CONSTANTS
  MaxInput = 4
  BATCH_SIZE = 3
  Parallelism = {2, 3}
SPECIFICATION Spec
INVARIANTS SameAsSerial NoWorkerLeft
PROPERTY Terminates
CHECK_DEADLOCK FALSE
