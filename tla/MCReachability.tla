--------------------------- MODULE MCReachability ---------------------------
(* Reachability for the model checker, with the addresses given in the cfg.  *)
EXTENDS Reachability
=============================================================================
