--------------------------- MODULE ConnectionLease ---------------------------
(***************************************************************************)
(* What the connection pool promises its callers, whatever it does inside: *)
(* acquire grants a connection nobody has, and a caller gives up only what *)
(* it has.                                                                 *)
(***************************************************************************)
CONSTANTS Threads, Conns

VARIABLE leases   \* per thread, the connections granted to it

Init == leases = [t \in Threads |-> {}]

Grant(t, c) ==
  /\ \A u \in Threads : c \notin leases[u]
  /\ leases' = [leases EXCEPT ![t] = @ \cup {c}]

GiveUp(t, c) ==
  /\ c \in leases[t]
  /\ leases' = [leases EXCEPT ![t] = @ \ {c}]

Next == \E t \in Threads, c \in Conns : Grant(t, c) \/ GiveUp(t, c)

Spec == Init /\ [][Next]_leases
=============================================================================
