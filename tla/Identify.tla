------------------------------ MODULE Identify ------------------------------
(***************************************************************************)
(* Identify (protocol/libp2p/identify.rs) on top of the promises of        *)
(* SubstreamService: on every new connection the protocol asks the peer to *)
(* identify itself, and it answers the peer with, among other things, the  *)
(* address it has seen it at.                                              *)
(***************************************************************************)
EXTENDS Naturals, FiniteSets

CONSTANTS
  Peer, None,
  Endpoint,          \* addresses connections may have
  EventCapacity,     \* capacity of the channel of events
  MaxSubstreams      \* bound: outbound substreams ever opened

SubstreamId == 0 .. MaxSubstreams - 1

VARIABLES
  sessions, requested, answers,   \* the service, as SubstreamService describes it
  endpoint,           \* history: peer -> endpoints its connections of this session had
  peers,              \* peer -> the endpoint that was kept, or None
  pending_inbound,    \* [peer, observed] of the answers being sent
  pending_outbound,   \* substream -> peer that is being read from, or None
  events,             \* results in the channel
  blocked,            \* the task waits in tx.send
  identified          \* history: substream ids whose answer was reported

service == <<sessions, requested, answers>>
vars == <<service, endpoint, peers, pending_inbound, pending_outbound, events, blocked, identified>>

Service == INSTANCE SubstreamService

Init ==
  /\ Service!Init
  /\ endpoint = [p \in Peer |-> {}]
  /\ peers = [p \in Peer |-> None]
  /\ pending_inbound = {}
  /\ pending_outbound = [s \in SubstreamId |-> None]
  /\ events = 0
  /\ blocked = FALSE
  /\ identified = {}

NextSubstream == Cardinality({s \in SubstreamId : requested[s] # None})

-----------------------------------------------------------------------------

(* on_connection_established: a peer whose substream is refused is not     *)
(* entered in peers.                                                       *)
ConnectionEstablished(p) ==
  /\ ~blocked
  /\ sessions[p] = 0
  /\ sessions' = [sessions EXCEPT ![p] = 1]
  /\ \E e \in Endpoint :
       /\ endpoint' = [endpoint EXCEPT ![p] = {e}]
       /\ \/ /\ NextSubstream < MaxSubstreams
             /\ requested' = [requested EXCEPT ![NextSubstream] = p]
             /\ peers' = [peers EXCEPT ![p] = e]
          \/ UNCHANGED <<requested, peers>>
  /\ UNCHANGED <<answers, pending_inbound, pending_outbound, events, blocked, identified>>

(* Mutant: the endpoint is kept. *)
Forgets_not(p) == UNCHANGED peers

Forgets(p) == peers' = [peers EXCEPT ![p] = None]

(* on_connection_closed *)
ConnectionClosed(p) ==
  /\ ~blocked
  /\ Service!ConnectionClosed(p)
  /\ Forgets(p)
  /\ endpoint' = [endpoint EXCEPT ![p] = {}]
  /\ UNCHANGED <<pending_inbound, pending_outbound, events, blocked, identified>>

(* External: a second connection to the peer takes the place of the first; *)
(* the service does not tell its protocols.                                *)
ConnectionReplaced(p) ==
  /\ sessions[p] = 1
  /\ \E e \in Endpoint : endpoint' = [endpoint EXCEPT ![p] = @ \cup {e}]
  /\ UNCHANGED <<service, peers, pending_inbound, pending_outbound, events, blocked, identified>>

(* on_inbound_substream: the answer is put together now, and sent by a     *)
(* future.                                                                 *)
InboundSubstream(p) ==
  /\ ~blocked
  /\ sessions[p] = 1
  /\ pending_inbound' = pending_inbound \cup {[peer |-> p, observed |-> peers[p]]}
  /\ UNCHANGED <<service, endpoint, peers, pending_outbound, events, blocked, identified>>

(* The answer is sent, or fails, or times out after ten seconds. *)
InboundDone(f) ==
  /\ ~blocked
  /\ f \in pending_inbound
  /\ pending_inbound' = pending_inbound \ {f}
  /\ UNCHANGED <<service, endpoint, peers, pending_outbound, events, blocked, identified>>

(* on_outbound_substream *)
OutboundSubstream(s) ==
  /\ ~blocked
  /\ Service!Answer(s)
  /\ pending_outbound' = [pending_outbound EXCEPT ![s] = requested[s]]
  /\ UNCHANGED <<endpoint, peers, pending_inbound, events, blocked, identified>>

SubstreamOpenFailure(s) ==
  /\ ~blocked
  /\ Service!Answer(s)
  /\ UNCHANGED <<endpoint, peers, pending_inbound, pending_outbound, events, blocked, identified>>

(* tx.send(..).await *)
Reports ==
  IF events < EventCapacity THEN events' = events + 1 /\ UNCHANGED blocked
                            ELSE blocked' = TRUE /\ UNCHANGED events

(* The peer has answered with a message that can be decoded. *)
Identified(s) ==
  /\ ~blocked
  /\ pending_outbound[s] # None
  /\ pending_outbound' = [pending_outbound EXCEPT ![s] = None]
  /\ identified' = identified \cup {s}
  /\ Reports
  /\ UNCHANGED <<service, endpoint, peers, pending_inbound>>

(* The read fails, or times out after ten seconds: this is only logged.    *)
ReadFails(s) ==
  /\ ~blocked
  /\ pending_outbound[s] # None
  /\ pending_outbound' = [pending_outbound EXCEPT ![s] = None]
  /\ UNCHANGED <<service, endpoint, peers, pending_inbound, events, blocked, identified>>

(* External: the user reads a result, which makes room for the one that    *)
(* waits.                                                                  *)
UserReads ==
  /\ events > 0
  /\ events' = IF blocked THEN events ELSE events - 1
  /\ blocked' = FALSE
  /\ UNCHANGED <<service, endpoint, peers, pending_inbound, pending_outbound, identified>>

Next ==
  \/ \E p \in Peer :
       \/ ConnectionEstablished(p)
       \/ ConnectionClosed(p)
       \/ ConnectionReplaced(p)
       \/ InboundSubstream(p)
  \/ \E f \in pending_inbound : InboundDone(f)
  \/ \E s \in SubstreamId :
       \/ OutboundSubstream(s)
       \/ SubstreamOpenFailure(s)
       \/ Identified(s)
       \/ ReadFails(s)
  \/ UserReads

Spec == Init /\ [][Next]_vars

-----------------------------------------------------------------------------

(* The address a peer is told it was observed at is one of this session,   *)
(* never of an earlier one, whichever substreams were refused in between.  *)
(* It need not be the one of the connection that is left.                  *)
ObservedInSession ==
  \A p \in Peer : peers[p] # None => sessions[p] = 1 /\ peers[p] \in endpoint[p]
=============================================================================
