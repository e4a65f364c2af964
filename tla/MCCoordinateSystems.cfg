SPECIFICATION Spec
CONSTANTS
  global = global  a = a  b = b  c = c  d = d  empty = empty
  Ids <- FiveIds
  Global <- global
  Empty <- empty
  MaxDepth = 3
  MaxVersion = 5
SYMMETRY Interchangeable
INVARIANTS NoShortCycle VersionsIncrease
CHECK_DEADLOCK FALSE
