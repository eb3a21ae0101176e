--------------------------- MODULE MCQuorumWaiter ---------------------------
(* The maker and three peers. *)
EXTENDS QuorumWaiter

CONSTANTS peer1, peer2, peer3

MCPeers == {peer1, peer2, peer3}
==============================================================================
