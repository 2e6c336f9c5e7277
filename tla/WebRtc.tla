------------------------------- MODULE WebRtc -------------------------------
(***************************************************************************)
(* A connection of the WebRTC transport and the transport itself, side by  *)
(* side, as the model checker and the proofs use them.                     *)
(***************************************************************************)
EXTENDS Naturals

CONSTANTS
  ChannelId, MaxPendingPerChannel,     \* WebRtcConnection
  Addrs, MaxConnections                \* WebRtcTransport

ASSUME PendingBound == MaxPendingPerChannel \in Nat

VARIABLES
  rtc, pending_outbound, channels, handles, handles_pending, pending_messages,
  opening_deadlines, opening_timed_out, recv_buffers, closed, requested, answers,
  opening, connections, open, closed_connections, timeouts, pending_events, phase, expired,
  next_id, reported, live

Connection == INSTANCE WebRtcConnection

Transport == INSTANCE WebRtcTransport

(* WebRtcConnection: the maps agree about each channel, and about what the *)
(* protocol has been answered.                                             *)
WebRtcConnectionInv == Connection!Inv

(* WebRtcTransport: an address leads to its connection. *)
WebRtcTransportInv == Transport!Inv
=============================================================================
