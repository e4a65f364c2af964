SPECIFICATION Spec
CONSTANTS
  t1 = t1  t2 = t2  k1 = k1
  e1 = e1  e2 = e2  bad = bad
  Threads <- TwoThreads
  Tasks <- OneTask
  EPCs <- AllEPCs
  InvalidEPCs <- Invalid
  AssetEPCs <- Assets
  ScrappedEPCs <- Scrapped
  MaxScans = 3
  MaxFaults = 1
  MaxRestarts = 1
  MaxForgets = 1
INVARIANTS NoLostScan FoundIsRecorded CountedOncePerThread
