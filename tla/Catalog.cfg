SPECIFICATION Spec
CONSTANTS
  Null = Null
  Err = Err
  NoDatabase = NoDatabase
  NoRelation = NoRelation
  NoRoot = NoRoot
  Undefined = Undefined
  TableRef <- MCTableRef
  ColumnName = {"b"}
  IndexName = {"i"}
  ColumnDefs <- MCColumnDefs
  KeyLists <- MCKeyLists
  ColumnLists <- MCColumnLists
  Literals <- MCLiterals
  Values <- MCValues
  Selections <- MCSelections
  Pieces <- MCPieces
  Selected <- MCSelected
  MaxTables = 2
  MaxBatch = 2
  MaxRows = 2
  MaxMoves = 1
INVARIANTS IndexExact CopyFaithful
PROPERTY ImplementsRelationStore
CONSTRAINT Explored
