---------------------------- MODULE MCChatInbox ----------------------------
(* A small instance of ChatInbox for TLC. *)
EXTENDS ChatInbox
=============================================================================
