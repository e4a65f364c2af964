------------------------- MODULE MCInventoryService -------------------------
(* Two threads scan one task: a tag of an asset in use, one of a scrapped   *)
(* asset, and one that is no valid EPC.                                     *)
EXTENDS InventoryService

CONSTANTS t1, t2, k1, e1, e2, bad

TwoThreads == {t1, t2}
OneTask    == {k1}
AllEPCs    == {e1, e2, bad}
Invalid    == {bad}
Assets     == {e1, e2}
Scrapped   == {e2}
=============================================================================
