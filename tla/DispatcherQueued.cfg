SPECIFICATION ShutdownSpec
CONSTANTS
  NTasks = 1
  MaxCapacity = 1
  MaxPriority = 0
INVARIANTS
  QueuedIsCancelled
CHECK_DEADLOCK FALSE
