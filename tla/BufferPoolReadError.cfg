SPECIFICATION Spec
CONSTANTS
  a = a
  b = b
  c = c
  r1 = r1
  r2 = r2
  r3 = r3
  z = z
  x = x
  None = None
  NumFrames = 2
  PageId <- ThreePages
  Ref <- TwoRefs
  Data <- TwoData
  Zero = z
  Faults <- Failing
PROPERTIES FlushWritesLatest
