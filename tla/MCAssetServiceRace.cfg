SPECIFICATION Spec
CONSTANTS
  t1 = t1  t2 = t2
  a1 = a1  a2 = a2
  noTag = noTag  tag1 = tag1
  Threads <- TwoThreads
  Assets <- TwoAssets
  Targets <- SharedTargets
  GivenCodes = {}
  Tags <- TwoTags
  NoTag = noTag
  MaxConnections = 4
  MaxChanges = 5
  MaxFaults = 0
  MaxRestarts = 0
PROPERTIES LifecycleSpec
CHECK_DEADLOCK FALSE
