SPECIFICATION Spec
CONSTANTS
  t1 = t1  t2 = t2
  a1 = a1  a2 = a2
  noTag = noTag  tag1 = tag1
  Threads <- TwoThreads
  Assets <- TwoAssets
  Targets <- OwnTargets
  GivenCodes = {99}
  Tags <- TwoTags
  NoTag = noTag
  MaxConnections = 4
  MaxChanges = 3
  MaxFaults = 1
  MaxRestarts = 1
INVARIANTS LogTruthful LogGapsExplained ConnectionsConserved GeneratedFresh
PROPERTIES LifecycleSpec
SYMMETRY OwnSymmetry
CHECK_DEADLOCK FALSE
