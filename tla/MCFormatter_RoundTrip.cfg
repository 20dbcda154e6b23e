SPECIFICATION FairSpec
CONSTANTS
  Classes <- MCClasses
  Given <- MCGiven
  Garbage <- MCGarbage
  MaxLength = 2147483647
INVARIANTS
  TypeOK
  RoundTrip
  NeverWrong
  FailuresExplained
  Settled
PROPERTIES
  ReadsOn
  TripEnds
CHECK_DEADLOCK FALSE
