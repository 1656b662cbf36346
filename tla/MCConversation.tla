--------------------------- MODULE MCConversation ---------------------------
(* TLC instance of Conversation: two held rows. *)
EXTENDS Conversation
=============================================================================
