------------------------------ MODULE MCReader ------------------------------
(* The constants of Reader are numbers and flags; each cfg gives its own.  *)
EXTENDS Reader
=============================================================================
