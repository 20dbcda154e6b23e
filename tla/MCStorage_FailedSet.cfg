SPECIFICATION Spec
CONSTANTS
  Task = {t1, t2, t3}
  Key = {k1}
  Value = {v1}
  NoKey = NoKey
  NoValue = NoValue
  NoTask = NoTask
  MaxTxn = 2
  MaxPort = 2
  Faults <- StoreFails
  StrayFlags = {}
  OneShot = TRUE
SYMMETRY Symmetry
PROPERTY FailedCommitLeavesNothing
CHECK_DEADLOCK FALSE
