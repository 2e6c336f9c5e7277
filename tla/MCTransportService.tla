------------------------- MODULE MCTransportService -------------------------
(* Instances of TransportService for TLC. *)
EXTENDS TransportService
=============================================================================
