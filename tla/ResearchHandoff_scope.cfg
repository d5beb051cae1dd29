\* No interruption; a Scope corrected before the first Plan.
CONSTANTS
  idea = idea
  study = study
  e1 = e1
  e2 = e2
  concept = concept
  thesis = thesis
  Handoff = {idea, study}
  Item = {e1, e2}
  ItemsOf <- MCItemsOf
  Target = {concept, thesis}
  TargetOf <- MCTargetOf
  Concept = concept
  MaxRevision = 2
  MaxPlan = 2
  MaxCrash = 0
  RecoverFirst = TRUE
  None = None
SPECIFICATION Spec
INVARIANT BindsCurrentScope
