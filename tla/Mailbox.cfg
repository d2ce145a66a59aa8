SPECIFICATION FairSpec
CONSTANTS
  p1 = p1
  p2 = p2
  e1 = e1
  e2 = e2
  Posters <- MCPosters
  Executors <- MCExecutors
  MaxPosts = 3
INVARIANTS
  RunsInPostOrder
  NoLostWake
PROPERTIES
  AnswersEachOnce
  AnswersEach
CHECK_DEADLOCK FALSE
