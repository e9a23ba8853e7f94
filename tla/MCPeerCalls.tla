---------------------------- MODULE MCPeerCalls ----------------------------
(* Three calls: an Invoke and a Call to another node, whose request may fail*)
(* and whose callback makes a call, and an Invoke to this node.             *)
EXTENDS PeerCalls

CONSTANTS s1, a1, l1

=============================================================================
