SPECIFICATION Spec
CONSTANTS
  PayloadSizes <- ShortAndLong
  GarbageSizes <- InsideAndBeyond
  MaxFrames = 4
  MaxCrashes = 2
  MaxOpens = 2
INVARIANTS ShownIsWhole
PROPERTIES WholeIsIndexed ReplayInOrder OnlyLastFails
CHECK_DEADLOCK FALSE
