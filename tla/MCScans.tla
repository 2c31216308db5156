------------------------------ MODULE MCScans ------------------------------
(***************************************************************************)
(* TLC instances of Scans.                                                 *)
(***************************************************************************)
EXTENDS Scans
=============================================================================
