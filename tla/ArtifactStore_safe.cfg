SPECIFICATION Spec
CONSTANTS
  a1 = a1
  a2 = a2
  b = b
  b2 = b2
  c = c
  pathA = pathA
  pathB = pathB
  pathC = pathC
  wave = wave
  NoOp = NoOp
  NoBundle = NoBundle
  Op = {a1, a2, b, b2, c}
  Path = {pathA, pathB, pathC}
  PathOf <- MCPathOf
  CheckpointPath = {pathA}
  Solo = {a1, a2, b, b2}
  Bundle = {wave}
  Members <- MCMembers
  Launch = {wave}
  Authorized = {wave}
  RecoverFirst = FALSE
  Tears = TRUE
  MaxCrash = 2
  MaxLoss = 0
INVARIANTS
  LedgerBacked
  RecoveryCompletesBundles
PROPERTY PublishesInOrder
CHECK_DEADLOCK FALSE
