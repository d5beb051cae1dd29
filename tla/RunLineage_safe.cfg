\* A Run id may also be taken again for another source or another kind of Run.
CONSTANTS
  r1 = r1
  r2 = r2
  r3 = r3
  Run = {r1, r2, r3}
  Caller = {c1, c2}
  Declared <- MCDeclared
  None = None
SPECIFICATION FairSpec
INVARIANT PublicIsIndexed
INVARIANT CommittedIsPublic
INVARIANT OneReplacement
INVARIANT ReplacementOpens
PROPERTY SuccessionIsFinal
PROPERTY RestartCompletes
CHECK_DEADLOCK FALSE
