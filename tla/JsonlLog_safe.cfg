\* Callers that run load-run after an interruption.
CONSTANTS
  decision = decision
  repeated = repeated
  other = other
  Record <- MCRecord
  IdOf <- MCIdOf
  NoRecord = NoRecord
  RecoverFirst = TRUE
  Tears = TRUE
  MaxCrash = 3
SPECIFICATION FairSpec
INVARIANT LoadAccepts
PROPERTY IntentsAreLogged
PROPERTY ImplementsLog
CHECK_DEADLOCK FALSE
