SPECIFICATION FairSpec
CONSTANTS
  Call = {c1, c2}
  NoCall = NoCall
  Spurious = {c2}
  Refuses = {c2}
  Reentrant = FALSE
INVARIANTS
  TypeOK
  UndisturbedTasksAllocated
  UnwokenAnswerIsVerdict
  SuccessIsReal
  SomebodyReady
PROPERTY
  EveryCallReturns
CHECK_DEADLOCK FALSE
