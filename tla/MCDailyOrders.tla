--------------------------- MODULE MCDailyOrders ---------------------------
(***************************************************************************)
(* TLC instance of DailyOrders.  Requests of one kind are alike.           *)
(***************************************************************************)
EXTENDS DailyOrders, TLC

RequestSymmetry == Permutations(Desk) \cup Permutations(Worker) \cup Permutations(Retries)

=============================================================================
