----------------------------- MODULE MCWorkerCycle -----------------------------
(***************************************************************************)
(* TLC instances of WorkerCycle.                                           *)
(***************************************************************************)
EXTENDS WorkerCycle

CONSTANT First   \* a symbol

\* The symbols are interchangeable, so nothing is lost when the first buy is of
\* a certain one.  Unlike a symmetry set this may be used with liveness.
FirstBuy == sym[1] \in {Nothing, First}
=============================================================================
