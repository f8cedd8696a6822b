SPECIFICATION Spec
CONSTANTS
  Null = Null
  Err = Err
  None = None
  Eof = Eof
  BATCH_SIZE = 2
  PAGE_BATCH = 2
  Contexts <- MCContexts
  Queries <- MCQueries
  Plans <- MCPlans
  Workers = {1, 2, 3}
  MaxRuns = 2
  MaxCalls = 1
INVARIANTS OptimizerSound ResultExact QueuesBounded
