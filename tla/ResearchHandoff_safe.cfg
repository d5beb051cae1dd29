\* Callers that run load-run after a call that was cut short.
CONSTANTS
  idea = idea
  study = study
  e1 = e1
  e2 = e2
  concept = concept
  thesis = thesis
  Handoff = {idea, study}
  Item = {e1, e2}
  ItemsOf <- MCItemsOf
  Target = {concept, thesis}
  TargetOf <- MCTargetOf
  Concept = concept
  MaxRevision = 2
  MaxPlan = 2
  MaxCrash = 2
  RecoverFirst = TRUE
  None = None
SPECIFICATION FairSpec
INVARIANT TypeOK
INVARIANT WholeOnceOpen
INVARIANT LoadAccepts
INVARIANT ReportSeesWhole
PROPERTY StaleNeverStarts
PROPERTY ImplementsExchange
PROPERTY BegunIsFinished
