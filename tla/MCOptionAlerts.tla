--------------------------- MODULE MCOptionAlerts ---------------------------
(***************************************************************************)
(* TLC instances of OptionAlerts.  Workers and tabs are alike.             *)
(***************************************************************************)
EXTENDS OptionAlerts, TLC

Symmetry == Permutations(Workers) \cup Permutations(Tabs)
=============================================================================
