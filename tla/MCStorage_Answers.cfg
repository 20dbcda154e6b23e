SPECIFICATION FairSpec
CONSTANTS
  Task = {t1, t2}
  Key = {k1}
  Value = {v1}
  NoKey = NoKey
  NoValue = NoValue
  NoTask = NoTask
  MaxTxn = 2
  MaxPort = 2
  Faults <- AllFaults
  StrayFlags = {}
  OneShot = FALSE
PROPERTY
  DirectlyAnswered
CHECK_DEADLOCK FALSE
