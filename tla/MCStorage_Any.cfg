SPECIFICATION Spec
CONSTANTS
  Task = {t1, t2, t3}
  Key = {k1}
  Value = {v1}
  NoKey = NoKey
  NoValue = NoValue
  NoTask = NoTask
  MaxTxn = 2
  MaxPort = 2
  Faults <- AllFaults
  StrayFlags = {"O_TRUNC"}
  OneShot = FALSE
SYMMETRY Symmetry
INVARIANTS
  TypeOK
  TasksAccounted
  ClosedIsClean
  TdbTransactionOwned
  DeferredBelong
PROPERTIES
  OnlyKnownLosses
  
CHECK_DEADLOCK FALSE
