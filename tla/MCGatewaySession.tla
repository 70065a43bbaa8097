--------------------------- MODULE MCGatewaySession ---------------------------
(* GatewaySession for the model checker.                                      *)
EXTENDS GatewaySession
=============================================================================
