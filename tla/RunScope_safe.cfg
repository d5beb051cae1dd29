\* Callers that checkpoint before a Scope revision and reopen after a crash.
CONSTANTS
  Text = {one}
  MaxRevision = 2
  MaxCrash = 2
  RecoverFirst = TRUE
  CheckpointFirst = TRUE
  None = None
SPECIFICATION FairSpec
INVARIANT TypeOK
INVARIANT LoadAccepts
INVARIANT NoUnreconciledResearch
INVARIANT LoadRestores
PROPERTY ScopeNeverReverts
PROPERTY UnconfirmedBlocks
PROPERTY ImplementsGate
PROPERTY InterruptedRunReopens
CHECK_DEADLOCK FALSE
