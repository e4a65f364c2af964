SPECIFICATION FairSpec
CONSTANTS
  f1 = f1  f2 = f2
  Frames <- TwoFrames
  MaxQueueSize = 2
  MaxSubmits = 5
INVARIANTS InOnePlace NewestResult
PROPERTIES QueueSpec Evaluated
