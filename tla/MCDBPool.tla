------------------------------ MODULE MCDBPool ------------------------------
(* Two threads that hold up to two connections each, from a pool of two;    *)
(* the other identities are for replacements.                               *)
EXTENDS DBPool

CONSTANTS t1, t2, c1, c2, c3, c4, c5

TwoThreads == {t1, t2}
FiveConns  == {c1, c2, c3, c4, c5}
=============================================================================
