SPECIFICATION Spec
CONSTANTS
  Call = {c1, c2}
  NoCall = NoCall
  Spurious = {}
  Refuses = {c1, c2}
  Reentrant = FALSE
INVARIANT
  TasksInUseAllocated
CHECK_DEADLOCK FALSE
