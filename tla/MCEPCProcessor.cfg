SPECIFICATION FilterSpec
CONSTANTS
  e1 = e1
  e2 = e2
  e3 = e3
  NeverKept = NeverKept
  Tags <- ThreeTags
  Times <- Clock
  Windows <- TwoWindows
  Sizes <- TwoSizes
  MaxBatch = 2
  MaxFilterCalls = 3
SYMMETRY Symmetry
PROPERTIES KeptOncePerWindow
CHECK_DEADLOCK FALSE
