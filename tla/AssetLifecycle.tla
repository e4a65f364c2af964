--------------------------- MODULE AssetLifecycle ---------------------------
(***************************************************************************)
(* What the asset table promises: an asset enters in stock and then moves  *)
(* only along the transitions of AssetStatusMachine::canTransition, so a   *)
(* scrapped asset stays scrapped.                                          *)
(***************************************************************************)
CONSTANT Assets

VARIABLE status

Unknown == "UNKNOWN"   \* no row yet
Statuses == {"IN_STOCK", "IN_USE", "REPAIR", "SCRAPPED"}

Allowed ==
  {<<"IN_STOCK", "IN_USE">>, <<"IN_STOCK", "REPAIR">>,
   <<"IN_USE", "IN_STOCK">>, <<"IN_USE", "REPAIR">>, <<"IN_USE", "SCRAPPED">>,
   <<"REPAIR", "IN_STOCK">>, <<"REPAIR", "SCRAPPED">>}

Init == status = [a \in Assets |-> Unknown]

Enter(a) ==
  /\ status[a] = Unknown
  /\ status' = [status EXCEPT ![a] = "IN_STOCK"]

Move(a) ==
  \E s \in Statuses :
    /\ <<status[a], s>> \in Allowed
    /\ status' = [status EXCEPT ![a] = s]

Next == \E a \in Assets : Enter(a) \/ Move(a)

Spec == Init /\ [][Next]_status
=============================================================================
