SPECIFICATION FairSpec
CONSTANTS
  Waiters = {w1}
  MaxLen = 2
  MaxGen = 2
INVARIANTS
  UntornRead
  PublishedIsDone
  NoLostWake
PROPERTY WaitersReleased
