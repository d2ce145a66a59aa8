SPECIFICATION FairSpec
CONSTANTS
  Capacity = 2
  MaxSends = 3
INVARIANTS
  NobodyStranded
  ClosedMeansDrained
PROPERTIES
  EveryBatchReturns
CHECK_DEADLOCK FALSE
