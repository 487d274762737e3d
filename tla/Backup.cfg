CONSTANTS
  Faults = {"kill", "power", "snapshot", "fsync", "bucket"}
  SegmentMax = 1
  RetainN = 1
  Budgets <- MCBudgets
SPECIFICATION FairSpec
INVARIANTS PointIsComplete  TailIsHistory
PROPERTIES  CatchesUp
CHECK_DEADLOCK FALSE
