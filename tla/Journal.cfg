SPECIFICATION Spec
CONSTANTS
  p1 = p1
  p2 = p2
  short = short
  long = long
  NoProc = NoProc
  None = None
  Proc <- TwoProcs
  Image <- TwoImages
  Size <- Lengths
  MaxVersion = 2
SYMMETRY ProcSymmetry
INVARIANTS NeverCorrupt AckedSurvive HandleIsCurrent
PROPERTIES ImplementsRecordLog
