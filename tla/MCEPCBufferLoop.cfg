SPECIFICATION FairSpec
CONSTANTS
  e1 = e1  e2 = e2  k1 = k1  k2 = k2
  EPCs <- TwoEPCs
  Tasks <- TwoTasks
  MaxBufferSize = 2
  MaxReads = 4
  PushTimes = {0, 3}
  MaxThrows = 1
INVARIANTS InOnePlace Bounded AcceptedPerCleanup
PROPERTIES Drains
