----------------------------- MODULE MCFaServer -----------------------------
(* Model-checking instance of FaServer.                                     *)
EXTENDS FaServer

=============================================================================
