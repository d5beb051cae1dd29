SPECIFICATION FairSpec
CONSTANTS
  c1 = c1
  c2 = c2
  c3 = c3
  p1 = p1
  p2 = p2
  NoOwner = NoOwner
  Caller = {c1, c2, c3}
  Process = {p1, p2}
  ProcessOf <- MCProcessOf
  MaxCrash = 2
INVARIANTS
  ExclusiveUnlessDisplaced
PROPERTIES
  CallEnds
  StaleLockGoes
