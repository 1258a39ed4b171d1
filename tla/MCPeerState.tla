---------------------------- MODULE MCPeerState -----------------------------
(* Instances of PeerState for TLC.                                         *)
EXTENDS PeerState

ClockSkews == {-1, 0, 1}
=============================================================================
