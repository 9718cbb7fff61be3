-------------------------- MODULE MCSessionManager --------------------------
(***************************************************************************)
(* Model checking of SessionManager.                                       *)
(***************************************************************************)
EXTENDS SessionManager
=============================================================================
