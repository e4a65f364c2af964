SPECIFICATION Spec
CONSTANTS
  t1 = t1
  t2 = t2
  NoTask = NoTask
  Ids <- TwoIds
  Week = 2
  Month = 3
  MaxClock = 7
  MaxCalls = 5
INVARIANTS OneStaleRun StartFindsNoThread NeverEarly
PROPERTIES StopReturns
CHECK_DEADLOCK FALSE
