----------------------------- MODULE PlaceOnce -----------------------------
(***************************************************************************)
(* What the order path promises for one symbol and one side                *)
(* (backend/trading/engine/desk_orders.py:550): while an order is in doubt *)
(* (its acceptance is unknown, or the broker has it and no journal entry   *)
(* says so) no order with another key reaches the broker.                  *)
(***************************************************************************)
CONSTANT Keys

VARIABLES
    landed,   \* the keys the broker has an order for
    doubt     \* the keys whose order is in doubt

vars == <<landed, doubt>>

Init == landed = {} /\ doubt = {}

\* The broker takes an order: nothing else is in doubt, and this one now is.
Land(k) ==
    /\ doubt \subseteq {k}
    /\ landed' = landed \cup {k}
    /\ doubt' = {k}

\* The broker's answer is lost, whether or not it took the order.
Doubt(k) ==
    /\ doubt \subseteq {k}
    /\ doubt' = {k}
    /\ UNCHANGED landed

\* Only an order the broker is known to have can leave doubt.
Settle(k) ==
    /\ k \in landed
    /\ doubt' = doubt \ {k}
    /\ UNCHANGED landed

Next == \E k \in Keys : Land(k) \/ Doubt(k) \/ Settle(k)

Spec == Init /\ [][Next]_vars
=============================================================================
