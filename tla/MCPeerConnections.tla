------------------------ MODULE MCPeerConnections ------------------------
(* PeerConnections for TLC: its constant is a set of model values. *)
EXTENDS PeerConnections
=============================================================================
