--------------------------- MODULE MCReplSession ---------------------------
(* TLC instance of ReplSession: two parked calls. *)
EXTENDS ReplSession
=============================================================================
