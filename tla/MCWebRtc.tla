------------------------------ MODULE MCWebRtc ------------------------------
(***************************************************************************)
(* The WebRTC transport for TLC.  One run checks several instances: part   *)
(* says which one a behaviour is of, and the variables of the others keep  *)
(* their initial values.                                                   *)
(*                                                                         *)
(*   substream     both ends of a substream, one of which writes;          *)
(*   connection    the channels of a connection, two of them;              *)
(*   transport     connections from two addresses, up to three;            *)
(*   negotiation   a dialer with up to two fallback names;                 *)
(*   listener      two sockets.                                            *)
(***************************************************************************)
EXTENDS WebRtcSubstream, WebRtc

CONSTANTS Parts, OtherWakes

VARIABLES
  part,
  supported, wanted, splits, dialer, protocol, fallback_names, listener, header_received,
  accepted, up, down,
  next_listener, socket, registered, error_delay, woken, last

(* One side writes a message, the other none. *)
OneWriter == [a |-> 1, b |-> 0]

Negotiation == INSTANCE WebRtcNegotiation WITH
  Proposals <- {<<"p">>, <<"p", "q">>, <<"q", "p">>, <<"p", "q", "r">>},
  Supports <- {{}, {"p"}, {"q"}, {"r"}, {"r", "q"}, {"p", "q"}}, Splits <- TRUE

Listener == INSTANCE WebRtcListener WITH NumSockets <- 2

connection == <<rtc, pending_outbound, channels, handles, handles_pending, pending_messages,
  opening_deadlines, opening_timed_out, recv_buffers, closed, requested, answers>>
transport == <<opening, connections, open, closed_connections, timeouts, pending_events,
  phase, expired, next_id, reported, live>>
negotiation == <<supported, wanted, splits, dialer, protocol, fallback_names, listener,
  header_received, accepted, up, down>>
sockets == <<next_listener, socket, registered, error_delay, woken, last>>
MCvars == <<part, vars, connection, transport, negotiation, sockets>>

MCInit ==
  /\ part \in Parts
  /\ Init
  /\ Connection!Init
  /\ Transport!Init
  /\ Listener!Init
  /\ Negotiation!Init
  /\ part # "negotiation" => supported = {} /\ wanted = <<"p">> /\ splits = {}

SubstreamNext ==
  /\ part = "substream" /\ Next
  /\ UNCHANGED <<part, connection, transport, negotiation, sockets>>

ConnectionNext ==
  /\ part = "connection" /\ Connection!Next
  /\ UNCHANGED <<part, vars, transport, negotiation, sockets>>

TransportNext ==
  /\ part = "transport" /\ Transport!Next
  /\ UNCHANGED <<part, vars, connection, negotiation, sockets>>

NegotiationNext ==
  /\ part = "negotiation" /\ Negotiation!Next
  /\ UNCHANGED <<part, vars, connection, transport, sockets>>

ListenerNext ==
  /\ part = "listener" /\ Listener!Next
  /\ UNCHANGED <<part, vars, connection, transport, negotiation>>

MCNext == SubstreamNext \/ ConnectionNext \/ TransportNext \/ NegotiationNext \/ ListenerNext

(* Nothing that is fair is enabled in the initial states of the first two; *)
(* the fairness of the others is stated for their behaviours.              *)
MCFairness ==
  /\ Fairness
  /\ Connection!Fairness
  /\ WF_MCvars(NegotiationNext)
  /\ WF_sockets(part = "listener" /\ Listener!Poll)
  /\ WF_sockets(part = "listener" /\ Listener!DelayFires)
  /\ WF_sockets(part = "listener" /\ Listener!OtherWake)

MCSpec == MCInit /\ [][MCNext]_MCvars /\ MCFairness

-----------------------------------------------------------------------------

(* WebRtcConnection: every substream is answered, once. *)
Answered == Connection!Answered

(* WebRtcNegotiation: the negotiation ends, and the ends agree. *)
FallbackEnds == <>[](part = "negotiation" => Negotiation!Settled)

(* WebRtcListener: every datagram is read. *)
DatagramRead == Listener!DatagramRead
=============================================================================
