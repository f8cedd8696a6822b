SPECIFICATION Spec
CONSTANTS
  a = a
  b = b
  c = c
  r1 = r1
  r2 = r2
  r3 = r3
  z = z
  x = x
  None = None
  NumFrames = 2
  PageId <- ThreePages
  Ref <- ThreeRefs
  Data <- TwoData
  Zero = z
  Faults <- Either
SYMMETRY Symmetry
INVARIANTS FramesAccounted PinsExact HandlesStable
PROPERTIES ImplementsPageStore
