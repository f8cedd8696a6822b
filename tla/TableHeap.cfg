CONSTANTS
  short = short
  long = long
  huge = huge
  Garbage = Garbage
  Tuple <- Tuples3
  Size <- Sizes
  PageSize = 11
  HeaderSize = 2
  InfoSize = 1
  MaxPages = 2
  MaxDeleted = 1
SPECIFICATION Spec
INVARIANTS ScanExact RangeExact
