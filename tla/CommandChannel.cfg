\* Two batches over two targets and two credits, in two blocks, and a third
\* offered while both credits are spent.
SPECIFICATION LimitSpec
CONSTANTS
  Targets = {t1, t2}
  Capacity = 2
  BlockFrames = 1
  MaxSeq = 3
  MaxFrame = 1
INVARIANTS
  ExactlyOnce
  CreditsBalance
  AppliedChain
  SoleConsumer
PROPERTIES
  LedgerForward
  AnsweredAfterClose
