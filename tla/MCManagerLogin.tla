--------------------------- MODULE MCManagerLogin ---------------------------
(* ManagerLogin for the model checker; the bounds are in the cfg.            *)
EXTENDS ManagerLogin
=============================================================================
