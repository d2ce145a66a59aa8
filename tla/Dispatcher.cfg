SPECIFICATION FairSpec
CONSTANTS
  NTasks = 2
  MaxCapacity = 2
  MaxPriority = 1
INVARIANTS
  RosterWithinCapacity
  CancelledOnce
  NothingBehindShutdown
  VisitedByPriority
PROPERTIES
  DroppedHandleLeaves
CHECK_DEADLOCK FALSE
