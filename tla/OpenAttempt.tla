----------------------------- MODULE OpenAttempt -----------------------------
(***************************************************************************)
(* open() of a transport: the addresses of a peer are dialed in parallel,  *)
(* each attempt goes through the upgrades of its transport with a listener *)
(* on the other side, the first connection that is negotiated wins and the *)
(* others are dropped.  TCP: transport/tcp/mod.rs and connection.rs with   *)
(* crypto/noise/mod.rs; WebSocket: transport/websocket/mod.rs and          *)
(* connection.rs; QUIC: transport/quic/mod.rs.                             *)
(*                                                                         *)
(* Multistream-select, WebSocket and TLS handshakes, sockets and name      *)
(* resolution are steps that succeed, fail or take until the timeout.      *)
(***************************************************************************)
EXTENDS Naturals, FiniteSets

CONSTANTS
  Kinds,        \* of "tcp", "websocket" and "quic"
  Address,
  Owner,        \* address -> the peer that listens there
  Peer,         \* the peer in the /p2p part of the addresses
  MaxParallel   \* max_parallel_dials

VARIABLES
  kind,
  dialer,    \* address -> stage of the attempt
  listener,  \* address -> stage of the connection on the other side
  errors,    \* addresses in the errors of the result
  result,    \* "pending", "Connected", "Failed" or "Canceled"
  aborted    \* cancel() was called

vars == <<kind, dialer, listener, errors, result, aborted>>

(* "secured" is after the noise handshake. *)
InFlight == {a \in Address : dialer[a] \in {"connecting", "hello", "secured"}}

Init ==
  /\ kind \in Kinds
  /\ dialer = [a \in Address |-> "queued"]
  /\ listener = [a \in Address |-> "none"]
  /\ errors = {} /\ result = "pending" /\ aborted = FALSE

-----------------------------------------------------------------------------
(* The dialer *)

Polled == result = "pending" /\ ~aborted

Advances(a, stage) ==
  /\ dialer' = [dialer EXCEPT ![a] = stage]
  /\ UNCHANGED <<kind, errors, result, aborted>>

(* buffer_unordered; QUIC dials all addresses at once. *)
MayStart == kind = "quic" \/ Cardinality(InFlight) < MaxParallel

StartAddress(a) ==
  /\ Polled /\ dialer[a] = "queued" /\ MayStart
  /\ Advances(a, "connecting")
  /\ UNCHANGED listener

(* dial_peer: the socket is connected; for a WebSocket also upgraded.  The *)
(* first handshake message goes out.                                       *)
DialPeer(a) ==
  /\ Polled /\ dialer[a] = "connecting"
  /\ Advances(a, "hello")
  /\ listener' = [listener EXCEPT ![a] = "pending"]

(* The dialed peer is the one of the handshake (for QUIC the certificate   *)
(* verifier of the client compares them).                                  *)
PeerIdMatches(a) == Owner[a] = Peer

(* The handshake of the listener has arrived and is that of the peer: the  *)
(* last message of the handshake goes out, and the proposal of yamux.      *)
NoiseHandshake(a) ==
  /\ Polled /\ kind # "quic" /\ dialer[a] = "hello" /\ listener[a] = "answered"
  /\ PeerIdMatches(a)
  /\ Advances(a, "secured")
  /\ UNCHANGED listener

(* Mutant: an attempt that is about to be negotiated too is kept. *)
Wins_kept(a) ==
  /\ dialer' = [b \in Address |-> IF b = a THEN "negotiated"
                                  ELSE IF b \in InFlight /\ dialer[b] # "secured"
                                    THEN "dropped" ELSE dialer[b]]
  /\ result' = "Connected"
  /\ UNCHANGED <<kind, listener, errors, aborted>>

(* The attempt is negotiated: Connected, and all other attempts are        *)
(* dropped.                                                                *)
Wins(a) ==
  /\ dialer' = [b \in Address |-> IF b = a THEN "negotiated"
                                  ELSE IF b \in InFlight THEN "dropped" ELSE dialer[b]]
  /\ result' = "Connected"
  /\ UNCHANGED <<kind, listener, errors, aborted>>

(* The listener has confirmed yamux. *)
YamuxNegotiated(a) ==
  /\ Polled /\ kind # "quic" /\ dialer[a] = "secured" /\ listener[a] = "established"
  /\ Wins(a)

(* The TLS handshake of a client ends before that of the server. *)
QuicConnected(a) ==
  /\ Polled /\ kind = "quic" /\ dialer[a] = "hello" /\ listener[a] = "answered"
  /\ PeerIdMatches(a)
  /\ Wins(a)

(* Any step fails, or takes until its timeout. *)
AttemptFails(a) ==
  /\ Polled /\ a \in InFlight
  /\ dialer' = [dialer EXCEPT ![a] = "failed"]
  /\ errors' = errors \cup {a}
  /\ UNCHANGED <<kind, listener, result, aborted>>

Ends(r) ==
  /\ result' = r
  /\ dialer' = [a \in Address |-> IF a \in InFlight THEN "dropped" ELSE dialer[a]]
  /\ UNCHANGED <<kind, listener, errors, aborted>>

(* futures.next() is None. *)
Exhausted == \A a \in Address : dialer[a] = "failed"

AllFailed == Polled /\ Exhausted /\ Ends("Failed")

(* The deadline of all attempts together; QUIC has none. *)
DeadlineExpires == Polled /\ kind # "quic" /\ InFlight # {} /\ Ends("Failed")

(* cancel(): the next poll ends the future, without an event. *)
Cancel ==
  /\ result = "pending"
  /\ aborted' = TRUE
  /\ UNCHANGED <<kind, dialer, listener, errors, result>>

PollCanceled == result = "pending" /\ aborted /\ Ends("Canceled")

-----------------------------------------------------------------------------
(* The listener *)

ListenerAdvances(a, stage) ==
  /\ listener' = [listener EXCEPT ![a] = stage]
  /\ UNCHANGED <<kind, dialer, errors, result, aborted>>

(* on_inbound_connection: the first message is answered. *)
AnswerHello(a) ==
  /\ listener[a] = "pending" /\ dialer[a] # "connecting"
  /\ ListenerAdvances(a, "answered")

(* The last handshake message has arrived, and for noise the proposal of   *)
(* yamux, which is confirmed.                                              *)
AcceptConnection(a) ==
  /\ listener[a] = "answered"
  /\ \/ kind # "quic" /\ dialer[a] = "secured"
     \/ kind = "quic" /\ dialer[a] = "negotiated"
  /\ ListenerAdvances(a, "established")

(* The handshake fails or times out, or an established connection is lost  *)
(* because the dialer has dropped its side.                                *)
ListenerFails(a) ==
  /\ \/ listener[a] \in {"pending", "answered"}
     \/ listener[a] = "established" /\ dialer[a] \in {"dropped", "failed"}
  /\ ListenerAdvances(a, "closed")

-----------------------------------------------------------------------------
Dialer ==
  \/ \E a \in Address : StartAddress(a) \/ DialPeer(a) \/ NoiseHandshake(a) \/ YamuxNegotiated(a)
                          \/ QuicConnected(a) \/ AttemptFails(a)
  \/ AllFailed \/ DeadlineExpires \/ PollCanceled

Next ==
  \/ Dialer
  \/ Cancel
  \/ \E a \in Address : AnswerHello(a) \/ AcceptConnection(a) \/ ListenerFails(a)

(* The transport is polled, and every step has a timeout on both sides. *)
Fairness ==
  /\ WF_vars(Dialer)
  /\ \A a \in Address : WF_vars(ListenerFails(a) \/ AcceptConnection(a))

Spec == Init /\ [][Next]_vars /\ Fairness

-----------------------------------------------------------------------------
(* Properties *)

(* A connection that the winner has left behind does not stay established  *)
(* on the side of the listener.                                            *)
LosersClosed ==
  \A a \in Address :
    []<>(listener[a] = "established" /\ result # "pending" => dialer[a] = "negotiated")
=============================================================================
