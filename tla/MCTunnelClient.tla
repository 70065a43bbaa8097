--------------------------- MODULE MCTunnelClient ---------------------------
(* TunnelClient for the model checker: two control sockets and two streams. *)
EXTENDS TunnelClient
=============================================================================
