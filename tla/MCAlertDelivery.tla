--------------------------- MODULE MCAlertDelivery ---------------------------
(***************************************************************************)
(* TLC instances of AlertDelivery.  Workers are alike.                     *)
(***************************************************************************)
EXTENDS AlertDelivery, TLC

Symmetry == Permutations(Workers)
=============================================================================
