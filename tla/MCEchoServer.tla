---------------------------- MODULE MCEchoServer ----------------------------
(* Model-checking instance of EchoServer: one call of fa_server_run.        *)
EXTENDS EchoServer

=============================================================================
