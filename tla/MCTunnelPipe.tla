---------------------------- MODULE MCTunnelPipe ----------------------------
(* TunnelPipe for the model checker: Chunks are numbers, given in the cfg.   *)
EXTENDS TunnelPipe
=============================================================================
