\* Callers that finish what was interrupted before anything else.
CONSTANTS
  Revising = {r1, r2}
  InPlace = {}
  Closing = {t}
  Document = {x}
  Synthesis = {x}
  MaxPlan = 3
  MaxTime = 3
  MaxCrash = 2
  ResumeFirst = TRUE
  None = None
SPECIFICATION FairSpec
INVARIANTS
  Resumable
  EventsBacked
PROPERTIES
  NothingLost
  ImplementsLine
  IntentsFinish
