---------------------------- MODULE MCWorkerControl ----------------------------
(***************************************************************************)
(* TLC instances of WorkerControl.                                         *)
(***************************************************************************)
EXTENDS WorkerControl
=============================================================================
