SPECIFICATION Spec
CONSTANTS
  MaxPages = 10
  MaxSize = 2
INVARIANTS NoDoubleUse HandedOutZeroed NothingLost
