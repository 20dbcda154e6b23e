SPECIFICATION HSpec
CONSTANTS
  Task = {t1, t2, t3}
  Key = {k1}
  Value = {v1, v2}
  NoKey = NoKey
  NoValue = NoValue
  NoTask = NoTask
  MaxTxn = 2
  MaxPort = 2
  Faults <- AllButStart
  StrayFlags = {"O_TRUNC"}
  OneShot = TRUE
SYMMETRY Symmetry
INVARIANTS
  CommitAnswersItsSets
  IdleMeansNoTxn
  UnansweredAreHeld
  FailedCommitRolledBack
PROPERTIES
  
  AbortHasCause
  Implements
CHECK_DEADLOCK FALSE
