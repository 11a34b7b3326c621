------------------------------ MODULE MCPeering ------------------------------
(* Two hubs and three connections.                                         *)
EXTENDS Peering
=============================================================================
