---------------------------- MODULE MCFrontRelay ----------------------------
(* FrontRelay for the model checker: Chunks are numbers, given in the cfg.   *)
EXTENDS FrontRelay
=============================================================================
