------------------------------ MODULE MCChatInbox ------------------------------
(***************************************************************************)
(* TLC instances of ChatInbox.                                             *)
(***************************************************************************)
EXTENDS ChatInbox
=============================================================================
