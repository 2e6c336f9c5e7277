---------------------------- MODULE MCProtocols ----------------------------
(***************************************************************************)
(* The protocols for TLC.  One run checks several instances: part says     *)
(* which one a behaviour is of, and the variables of the others keep their *)
(* initial values.                                                         *)
(*                                                                         *)
(*   notification  Notification (constants in the cfg): one peer, three    *)
(*                 outbound and two inbound substreams;                    *)
(*   stream        two streams of a peer, one after the other;             *)
(*   requests      RequestResponse with at most one request that dials;    *)
(*   bitswap, ping, identify, mdns                                         *)
(***************************************************************************)
EXTENDS Notification

CONSTANT Parts

VARIABLES
  part,
  given,   \* history: requests that were given to RequestResponse
  stage, channel, next_notification, wire, s_sent, permits, read, notifs, s_events,
  s_commands, sink, clogged, delivered,
  r_sessions, r_requested, r_answers, r_peers, active, active_inbound, r_pending_outbound,
  r_pending_inbound, pending_outbound_cancels, signalled, r_pending_dials,
  pending_inbound_requests, pending_outbound_responses, next_request_id, r_commands,
  r_received, pending_responses, target, answered, canceled, stale,
  b_sessions, b_requested, b_answers, b_pending_outbound, pending_substreams,
  b_pending_dials, b_inbound, outbound, b_commands, b_sent, written, b_events,
  p_sessions, p_requested, p_answers, pingers, retries, responders, p_events, p_blocked,
  eager,
  i_sessions, i_requested, i_answers, endpoint, i_peers, i_pending_inbound,
  i_pending_outbound, i_events, i_blocked, identified,
  socket, inbox, failures, discovered, reported

Stream == INSTANCE NotificationStream WITH
  MaxStreams <- 2, MaxNotifications <- 2, sync_channel_size <- 1, async_channel_size <- 1,
  NotifCapacity <- 2, CommandCapacity <- 1, sent <- s_sent, events <- s_events,
  commands <- s_commands

Requests == INSTANCE RequestResponse WITH
  Peer <- {"p"}, MayDial <- {0}, max_concurrent_inbound_requests <- None,
  CommandCapacity <- 1, MaxRequests <- 2, MaxSubstreams <- 2, sessions <- r_sessions,
  requested <- r_requested, answers <- r_answers, peers <- r_peers,
  pending_outbound <- r_pending_outbound, pending_inbound <- r_pending_inbound,
  pending_dials <- r_pending_dials, commands <- r_commands, received <- r_received

Bitswap == INSTANCE Bitswap WITH
  Peer <- {"p"}, BlockLists <- {<<1, 4, 2, 1>>, <<3>>, <<2, 2>>, <<4>>, <<1, 1, 1>>},
  MAX_BATCH_SIZE <- 3, MAX_MESSAGE_SIZE <- 6, Overhead <- 1, MaxCommands <- 3,
  MaxSubstreams <- 2, sessions <- b_sessions, requested <- b_requested,
  answers <- b_answers, pending_outbound <- b_pending_outbound,
  pending_dials <- b_pending_dials, inbound <- b_inbound, commands <- b_commands,
  sent <- b_sent, events <- b_events

Ping == INSTANCE Ping WITH
  Peer <- {"p", "q"}, EventCapacity <- 1, MaxSubstreams <- 3, sessions <- p_sessions,
  requested <- p_requested, answers <- p_answers, events <- p_events, blocked <- p_blocked

Identify == INSTANCE Identify WITH
  Peer <- {"p"}, Endpoint <- {"e1", "e2"}, EventCapacity <- 1, MaxSubstreams <- 2,
  sessions <- i_sessions, requested <- i_requested, answers <- i_answers, peers <- i_peers,
  pending_inbound <- i_pending_inbound, pending_outbound <- i_pending_outbound,
  events <- i_events, blocked <- i_blocked

Mdns == INSTANCE Mdns WITH
  Node <- {"m", "n"}, Addresses <- [m |-> {1}, n |-> {2, 3}], MaxFailures <- 2,
  MaxReports <- 2

notification == vars
stream == <<stage, channel, next_notification, wire, s_sent, permits, read, notifs,
  s_events, s_commands, sink, clogged, delivered>>
requests == <<r_sessions, r_requested, r_answers, r_peers, active, active_inbound,
  r_pending_outbound, r_pending_inbound, pending_outbound_cancels, signalled,
  r_pending_dials, pending_inbound_requests, pending_outbound_responses, next_request_id,
  r_commands, r_received, pending_responses, target, answered, canceled, stale>>
bitswap == <<b_sessions, b_requested, b_answers, b_pending_outbound, pending_substreams,
  b_pending_dials, b_inbound, outbound, b_commands, b_sent, written, b_events>>
ping == <<p_sessions, p_requested, p_answers, pingers, retries, responders, p_events,
  p_blocked, eager>>
identify == <<i_sessions, i_requested, i_answers, endpoint, i_peers, i_pending_inbound,
  i_pending_outbound, i_events, i_blocked, identified>>
mdns == <<socket, inbox, failures, discovered, reported>>
parts == <<notification, stream, requests, bitswap, ping, identify, mdns>>

mcVars == <<part, given, parts>>

MCInit ==
  /\ part \in Parts
  /\ Init
  /\ part # "notification" => config = [auto_accept |-> TRUE, should_dial |-> TRUE]
  /\ Stream!Init
  /\ Requests!Init /\ given = {}
  /\ Bitswap!Init
  /\ Ping!Init
  /\ Identify!Init
  /\ Mdns!Init

OnlyNotification(A) ==
  /\ part = "notification" /\ A
  /\ UNCHANGED <<part, given, stream, requests, bitswap, ping, identify, mdns>>

OnlyStream(A) ==
  /\ part = "stream" /\ A
  /\ UNCHANGED <<part, given, notification, requests, bitswap, ping, identify, mdns>>

OnlyRequests(A) ==
  /\ part = "requests" /\ A
  /\ given' = given \cup {r \in 0 .. 1 : \E i \in DOMAIN r_commands' :
                            r_commands'[i] = [kind |-> "send", request |-> r]}
  /\ UNCHANGED <<part, notification, stream, bitswap, ping, identify, mdns>>

OnlyBitswap(A) ==
  /\ part = "bitswap" /\ A
  /\ UNCHANGED <<part, given, notification, stream, requests, ping, identify, mdns>>

OnlyPing(A) ==
  /\ part = "ping" /\ A
  /\ UNCHANGED <<part, given, notification, stream, requests, bitswap, identify, mdns>>

OnlyIdentify(A) ==
  /\ part = "identify" /\ A
  /\ UNCHANGED <<part, given, notification, stream, requests, bitswap, ping, mdns>>

OnlyMdns(A) ==
  /\ part = "mdns" /\ A
  /\ UNCHANGED <<part, given, notification, stream, requests, bitswap, ping, identify>>

MCNext ==
  \/ OnlyNotification(Next)
  \/ OnlyStream(Stream!Next)
  \/ OnlyRequests(Requests!Next)
  \/ OnlyBitswap(Bitswap!Next)
  \/ OnlyPing(Ping!Next)
  \/ OnlyIdentify(Identify!Next)
  \/ OnlyMdns(Mdns!Next)

(* The fairness of each module, for the behaviours of its part.  Of a      *)
(* disjunction in WF, only the disjunct of the part is ever enabled.       *)
Nodes == [i \in 0 .. 1 |-> IF i = 0 THEN "m" ELSE "n"]

MCFairness ==
  /\ WF_mcVars(\/ OnlyNotification(PopEvent \/ PollHandshakes)
               \/ OnlyRequests(Requests!UserCommand))
  /\ WF_mcVars(\/ OnlyNotification(NoHandshake /\ Shutdown)
               \/ OnlyRequests(/\ r_pending_dials["p"] # None
                               /\ \/ Requests!ConnectionEstablished("p")
                                  \/ Requests!DialFailure("p")))
  /\ WF_mcVars(OnlyNotification(Quiet /\ TimerFires("p")))
  /\ \A i \in 0 .. 2 :
       WF_mcVars(OnlyNotification(Quiet /\ (OutboundSubstream(i) \/ SubstreamOpenFailure(i))))
  /\ \A i \in 0 .. 1 :
       /\ WF_mcVars(\/ OnlyRequests(Requests!SubstreamOpened(i) \/ Requests!SubstreamOpenFailure(i))
                    \/ OnlyMdns(Mdns!SetupSocket(Nodes[i])))
       /\ WF_mcVars(\/ OnlyRequests(Requests!SubstreamEvent(i))
                    \/ OnlyMdns(Mdns!Query(Nodes[i])))
       /\ WF_mcVars(OnlyMdns(Mdns!InboundRequest(Nodes[i])))
       /\ \A j \in 0 .. 1 : WF_mcVars(OnlyMdns(Mdns!InboundResponse(Nodes[i], Nodes[j])))

MCSpec == MCInit /\ [][MCNext]_mcVars /\ MCFairness

-----------------------------------------------------------------------------

(* NotificationStream: notifications arrive once and in order. *)
NotificationStreamInv == Stream!Inv

(* RequestResponse: every request is answered, once. *)
RequestAnswered ==
  \A r \in 0 .. 1 : []<>(r \in given => answered[r] = 1 \/ r \in canceled)

(* Bitswap: nothing is forgotten, overtaken or cut. *)
BitswapInv == Bitswap!Inv

(* Ping: pingers and retries neither pile up nor flood the peer. *)
PingInv == Ping!Inv

(* Identify: the observed address is of this session. *)
ObservedInSession == Identify!ObservedInSession

(* Mdns: every address is reported, once. *)
AllDiscovered == <>[](part = "mdns" => Mdns!Discovered)
=============================================================================
