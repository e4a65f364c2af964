----------------------------- MODULE MCEPCBuffer -----------------------------
EXTENDS EPCBuffer

CONSTANTS e1, e2, k1, k2

TwoEPCs == {e1, e2}
TwoTasks == {k1, k2}
=============================================================================
