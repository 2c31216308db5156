------------------------- MODULE MCOrderSubmission -------------------------
(***************************************************************************)
(* TLC instances of OrderSubmission.  Keys and Desk threads are alike.     *)
(***************************************************************************)
EXTENDS OrderSubmission, TLC

Symmetry == Permutations(Keys) \cup Permutations(Desk)

\* What the later steps of an overlap depend on: no guard reads the journal, and
\* an idle handler's key and held order are forgotten before they are used.
OverlapView ==
    <<ledger, broker, pc, resubmit, replay, result,
      [h \in Handlers |-> IF pc[h] \in {"idle", "sync"} THEN {} ELSE {key[h]}],
      [h \in Handlers |-> IF pc[h] = "idle" THEN {} ELSE {of[h]}]>>
=============================================================================
