\* A Run is closed while its continuation is being created.
CONSTANTS
  r1 = r1
  r2 = r2
  r3 = r3
  Run = {r1, r2, r3}
  Caller = {c1, c2}
  Declared <- MCDeclared
  None = None
SPECIFICATION Spec
INVARIANT ContinuedStaysOpen
CHECK_DEADLOCK FALSE
