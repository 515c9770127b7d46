----------------------------- MODULE MCChatFeed -----------------------------
(* Small instances of ChatFeed for TLC. *)
EXTENDS ChatFeed, TLC
=============================================================================
