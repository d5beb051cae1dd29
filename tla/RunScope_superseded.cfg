\* Three Scope revisions, no interruption, a checkpoint before each.
CONSTANTS
  Text = {one}
  MaxRevision = 3
  MaxCrash = 0
  RecoverFirst = TRUE
  CheckpointFirst = TRUE
  None = None
SPECIFICATION Spec
INVARIANT SupersededStaysOut
CHECK_DEADLOCK FALSE
