SPECIFICATION FairSpec
CONSTANTS
  MaxNodes = 3
  Threads = {t1, t2}
  Groups = {g1}
INVARIANTS
  ChildNotMissed
  CallbackOnce
PROPERTIES
  ReachesChildren
  GroupIsTold
CHECK_DEADLOCK FALSE
