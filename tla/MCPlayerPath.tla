---------------------------- MODULE MCPlayerPath ----------------------------
(* PlayerPath for the model checker: the pieces are numbers, given in the cfg. *)
EXTENDS PlayerPath
=============================================================================
