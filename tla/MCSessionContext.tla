-------------------------- MODULE MCSessionContext --------------------------
(* Small instances of SessionContext. *)
EXTENDS SessionContext
=============================================================================
