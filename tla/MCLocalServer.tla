---------------------------- MODULE MCLocalServer ----------------------------
(* LocalServer for the model checker: two overlapping calls.                 *)
EXTENDS LocalServer
=============================================================================
