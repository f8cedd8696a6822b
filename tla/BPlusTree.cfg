CONSTANT Workloads <- AllWorkloads
SPECIFICATION Spec
INVARIANTS TypeOK Balanced GetExactOnDistinct ScanComplete RangeExact
PROPERTY DeleteKeepsOthers
CHECK_DEADLOCK FALSE
