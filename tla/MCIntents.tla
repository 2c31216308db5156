----------------------------- MODULE MCIntents -----------------------------
(***************************************************************************)
(* TLC instances of Intents.                                               *)
(***************************************************************************)
EXTENDS Intents

\* The tick time of an idle consumer is set again before it is read.
IntentsView ==
    <<store, now, slots, pc, todo, item, handed, orders,
      [c \in Consumers |-> IF pc[c] = "idle" THEN 0 ELSE when[c]]>>
=============================================================================
