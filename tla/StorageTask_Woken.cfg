SPECIFICATION Spec
CONSTANTS
  Call = {c1, c2}
  NoCall = NoCall
  Spurious = {c1, c2}
  Refuses = {}
  Reentrant = FALSE
INVARIANT
  AnswerIsVerdict
CHECK_DEADLOCK FALSE
