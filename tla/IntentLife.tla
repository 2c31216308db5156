---------------------------- MODULE IntentLife ----------------------------
(***************************************************************************)
(* What the intent ledger promises (backend/trading/intents/store.py): an  *)
(* intent is written, replaced while it is active, and ends once, as       *)
(* consumed, cancelled or expired.  Only a consumed one is handed on to    *)
(* the order path, and only once.                                          *)
(***************************************************************************)
CONSTANT Ids

VARIABLES
    status,   \* the status of each intent
    handed    \* the intents handed on to the order path

vars == <<status, handed>>

Active == {i \in Ids : status[i] = "active"}

Init == status = [i \in Ids |-> "none"] /\ handed = {}

\* An intent is written or rewritten, and replaces some that were active.
Write(i, replaced) ==
    /\ status[i] \in {"none", "active"}
    /\ replaced \subseteq Active \ {i}
    /\ status' = [j \in Ids |-> IF j = i THEN "active"
                                ELSE IF j \in replaced THEN "cancelled" ELSE status[j]]
    /\ UNCHANGED handed

\* An active intent ends.
End(i, how) ==
    /\ i \in Active
    /\ status' = [status EXCEPT ![i] = how]
    /\ UNCHANGED handed

HandOn(i) ==
    /\ status[i] = "consumed" /\ i \notin handed
    /\ handed' = handed \cup {i}
    /\ UNCHANGED status

Next ==
    \E i \in Ids :
       \/ \E replaced \in SUBSET Ids : Write(i, replaced)
       \/ \E how \in {"consumed", "cancelled", "expired"} : End(i, how)
       \/ HandOn(i)

Spec == Init /\ [][Next]_vars
=============================================================================
