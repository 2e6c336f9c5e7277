------------------------- MODULE MCRequestResponse -------------------------
(* Instances of RequestResponse for TLC. *)
EXTENDS RequestResponse, TLC

PeerSymmetry == Permutations(Peer)
=============================================================================
