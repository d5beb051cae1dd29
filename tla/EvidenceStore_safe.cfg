\* Two operations that share their bytes, each call with one of two times.
CONSTANTS
  goal1 = goal1
  goal2 = goal2
  bytes = bytes
  t1 = t1
  t2 = t2
  Op = {goal1, goal2}
  Time = {t1, t2}
  RawOf <- MCRawOf
  NoOp = NoOp
  NoTime = NoTime
  MaxCrash = 3
  MaxLoss = 1
SPECIFICATION FairSpec
INVARIANT LoadAccepts
PROPERTY ImplementsLedger
PROPERTY IntentsAreRecorded
CHECK_DEADLOCK FALSE
