SPECIFICATION Spec
CONSTANTS
  f1 = f1
  f2 = f2
  f3 = f3
  f4 = f4
  None = None
  Frame <- FourFrames
  ReplacerSize = 3
  K = 2
  MaxTime = 7
  MaxU64 = 1000
SYMMETRY Symmetry
INVARIANTS SizeExact EvictTotal
PROPERTIES EvictsLruK
