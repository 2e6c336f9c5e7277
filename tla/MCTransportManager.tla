------------------------- MODULE MCTransportManager -------------------------
(* Instances of TransportManager for TLC. *)
EXTENDS TransportManager, TLC

PeerSymmetry == Permutations(Peer)
=============================================================================
