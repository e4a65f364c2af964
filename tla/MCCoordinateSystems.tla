------------------------- MODULE MCCoordinateSystems -------------------------
EXTENDS CoordinateSystems, FiniteSets, TLC

CONSTANTS global, a, b, c, d, empty
FiveIds == {global, a, b, c, d}
Interchangeable == Permutations({a, b, c, d})
=============================================================================
