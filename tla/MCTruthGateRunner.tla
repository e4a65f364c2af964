-------------------------- MODULE MCTruthGateRunner --------------------------
EXTENDS TruthGateRunner

CONSTANTS f1, f2
TwoFrames == {f1, f2}
=============================================================================
