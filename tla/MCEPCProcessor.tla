--------------------------- MODULE MCEPCProcessor ---------------------------
EXTENDS EPCProcessor, TLC

CONSTANTS e1, e2, e3

ThreeTags == {e1, e2, e3}
Clock == 0..4
TwoWindows == {1, 2}
TwoSizes == {1, 2}
Symmetry == Permutations(ThreeTags)
=============================================================================
