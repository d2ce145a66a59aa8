SPECIFICATION PlannedSpec
CONSTANTS
  Targets = {t1, t2}
  Capacity = 3
  BlockFrames = 1
  MaxSeq = 4
  MaxFrame = 1
  Moments <- NextOnly
  Groups <- OneTarget
SYMMETRY Symmetry
INVARIANTS
  PlannedBatchesApply
PROPERTY BasisNeverRollsBack
