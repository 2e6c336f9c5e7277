-------------------------- MODULE TransportService --------------------------
(***************************************************************************)
(* The transport service of one protocol (protocol/transport_service.rs)   *)
(* with the connection handles it keeps (protocol/connection.rs) and the   *)
(* tasks of the connections that report to it (protocol/protocol_set.rs,   *)
(* transport/tcp/connection.rs).                                           *)
(*                                                                         *)
(* A connection's task runs until the last strong sender of its command    *)
(* channel is dropped.  Strong senders are held by active handles, by the  *)
(* permits of substreams that are being opened and, for protocols that keep *)
(* connections alive, by open substreams.                                  *)
(***************************************************************************)
EXTENDS Integers, Sequences

CONSTANTS
  Peer,
  None,
  KeepAlive,        \* SubstreamKeepAlive of the protocol
  CommandCapacity,  \* capacity of a connection's command channel
  EventCapacity,    \* capacity of the service's event channel
  MaxConnections,   \* bound: connections ever accepted
  MaxSubstreams     \* bound: substream ids ever allocated

ConnectionId == 0 .. MaxConnections - 1
SubstreamId == 0 .. MaxSubstreams - 1

ASSUME ServiceBounds ==
  /\ KeepAlive \in BOOLEAN
  /\ CommandCapacity \in Nat /\ EventCapacity \in Nat
  /\ MaxConnections \in Nat /\ MaxSubstreams \in Nat

ASSUME NoneNeither == None \notin Peer \cup Int

VARIABLES
  \* the tasks of the connections
  task,               \* connection id -> stage of its task
  remote,             \* connection id -> peer, or None
  commands,           \* connection id -> channel of ProtocolCommand
  opening,            \* connection id -> pending_substreams
  others,             \* connection ids that other protocols hold a sender of
  on,                 \* substream id -> its connection, or None
  inbound,            \* substream ids the remote opened
  next_substream_id,
  rx,                 \* channel of InnerTransportEvent
  \* the service
  primary, secondary, \* ConnectionContext: peer -> connection id, or None
  active,             \* connection ids whose handle is ConnectionType::Active
  last_activity, pending_keep_alive_timeouts,  \* KeepAliveTracker
  pending_outbound,   \* substream id -> connection id, or None
  pending_events,
  \* what the protocol has seen
  open,               \* substreams the protocol holds
  sessions, requested, answers

tasks == <<task, remote, others>>
substreams == <<on, inbound, next_substream_id>>
contexts == <<primary, secondary, active>>
tracker == <<last_activity, pending_keep_alive_timeouts>>
outcome == <<sessions, requested, answers>>
vars == <<tasks, commands, opening, substreams, rx, contexts, tracker,
          pending_outbound, pending_events, open, outcome>>

Service == INSTANCE SubstreamService

Event == [kind : {"established", "closed"}, id : ConnectionId]
           \cup [kind : {"opened", "failure"}, id : SubstreamId]

(* A command is a substream to open, or this. *)
ForceClose == None

(* The state is well typed.  The counters of what the protocol has seen    *)
(* never leave {0, 1}: poll_next reports no peer as connected twice.       *)
TypeOK ==
  /\ task \in [ConnectionId -> {"none", "running", "closing", "reported", "closed"}]
  /\ remote \in [ConnectionId -> Peer \cup {None}]
  /\ commands \in [ConnectionId -> Seq(SubstreamId \cup {ForceClose})]
  /\ opening \in [ConnectionId -> SUBSET SubstreamId]
  /\ others \subseteq ConnectionId
  /\ on \in [SubstreamId -> ConnectionId \cup {None}]
  /\ inbound \subseteq SubstreamId
  /\ next_substream_id \in 0 .. MaxSubstreams
  /\ rx \in Seq(Event)
  /\ primary \in [Peer -> ConnectionId \cup {None}]
  /\ secondary \in [Peer -> ConnectionId \cup {None}]
  /\ active \subseteq ConnectionId
  /\ last_activity \subseteq ConnectionId
  /\ pending_keep_alive_timeouts \subseteq ConnectionId
  /\ pending_outbound \in [SubstreamId -> ConnectionId \cup {None}]
  /\ pending_events \in [failures : SUBSET SubstreamId, closed : Peer \cup {None}]
  /\ open \subseteq SubstreamId
  /\ sessions \in [Peer -> {0, 1}]
  /\ requested \in [SubstreamId -> Peer \cup {None}]
  /\ answers \in [SubstreamId -> {0, 1}]

Init ==
  /\ task = [c \in ConnectionId |-> "none"]
  /\ remote = [c \in ConnectionId |-> None]
  /\ commands = [c \in ConnectionId |-> <<>>]
  /\ opening = [c \in ConnectionId |-> {}]
  /\ others = {}
  /\ on = [s \in SubstreamId |-> None]
  /\ inbound = {}
  /\ next_substream_id = 0
  /\ rx = <<>>
  /\ primary = [p \in Peer |-> None]
  /\ secondary = [p \in Peer |-> None]
  /\ active = {}
  /\ last_activity = {}
  /\ pending_keep_alive_timeouts = {}
  /\ pending_outbound = [s \in SubstreamId |-> None]
  /\ pending_events = [failures |-> {}, closed |-> None]
  /\ open = {}
  /\ Service!Init

-----------------------------------------------------------------------------
(* Strong senders *)

Occurs(x, seq) == \E i \in 1 .. Len(seq) : seq[i] = x

InChannel(s) == Occurs(s, commands[on[s]])
InEvents(kind, id) == Occurs([kind |-> kind, id |-> id], rx)

(* The permit of the substream s is held somewhere. *)
Permit(s) ==
  \/ InChannel(s)
  \/ s \in opening[on[s]]
  \/ InEvents("opened", s)
  \/ s \in open /\ KeepAlive

(* WeakSender::upgrade succeeds: some strong sender is left. *)
Strong(c) ==
  \/ c \in active \cup others
  \/ InEvents("established", c)
  \/ \E s \in SubstreamId : on[s] = c /\ Permit(s)

-----------------------------------------------------------------------------
(* The task of a connection *)

Send(event) ==
  /\ Len(rx) < EventCapacity
  /\ rx' = Append(rx, event)

(* Mutant: the manager is told before the protocols are. *)
ManagerCounts_told_first(p) == {c \in ConnectionId : remote[c] = p /\ task[c] = "running"}

(* The manager allows a peer two connections, and counts one until its     *)
(* task has reported that it is closed.                                    *)
ManagerCounts(p) == {c \in ConnectionId :
                       remote[c] = p /\ task[c] \in {"running", "closing", "reported"}}

(* report_connection_established hands every protocol an active handle and *)
(* the task is started.                                                    *)
Accept(c, p) ==
  /\ task[c] = "none"
  /\ \A d \in ConnectionId : d < c => task[d] # "none"
  /\ \E d \in ConnectionId : ManagerCounts(p) \subseteq {d}
  /\ task' = [task EXCEPT ![c] = "running"]
  /\ remote' = [remote EXCEPT ![c] = p]
  /\ others' \in {others, others \cup {c}}
  /\ Send([kind |-> "established", id |-> c])
  /\ UNCHANGED <<commands, opening, substreams, contexts, tracker,
                 pending_outbound, pending_events, open, outcome>>

(* Another protocol drops its last sender, or upgrades its weak one. *)
OthersRelease(c) ==
  /\ c \in others
  /\ others' = others \ {c}
  /\ UNCHANGED <<task, remote, commands, opening, substreams, rx, contexts, tracker,
                 pending_outbound, pending_events, open, outcome>>

OthersAcquire(c) ==
  /\ c \notin others /\ task[c] = "running" /\ Strong(c)
  /\ others' = others \cup {c}
  /\ UNCHANGED <<task, remote, commands, opening, substreams, rx, contexts, tracker,
                 pending_outbound, pending_events, open, outcome>>

(* The rest of a step of the task of c that ends its loop. *)
LeavesLoop(c) ==
  /\ task' = [task EXCEPT ![c] = "closing"]
  /\ UNCHANGED <<remote, others, opening, substreams, rx, contexts, tracker,
                 pending_outbound, pending_events, open, outcome>>

(* The remote closes the connection, or it fails. *)
ConnectionLost(c) ==
  /\ task[c] = "running"
  /\ LeavesLoop(c)
  /\ UNCHANGED commands

(* protocol_set.next() yields None, or a substream of the remote finds no  *)
(* permit: "protocols have disconnected, closing connection".              *)
ProtocolsDisconnected(c) ==
  /\ task[c] = "running"
  /\ commands[c] = <<>>
  /\ ~Strong(c)
  /\ LeavesLoop(c)
  /\ UNCHANGED commands

(* handle_protocol_command *)
HandleCommand(c) ==
  /\ task[c] = "running"
  /\ commands[c] # <<>>
  /\ commands' = [commands EXCEPT ![c] = Tail(@)]
  /\ LET command == Head(commands[c]) IN
       IF command = ForceClose
         THEN LeavesLoop(c)
         ELSE /\ opening' = [opening EXCEPT ![c] = @ \cup {command}]
              /\ UNCHANGED <<tasks, substreams, rx, contexts, tracker,
                             pending_outbound, pending_events, open, outcome>>

(* handle_yamux_substream: the remote opens a substream. *)
InboundSubstream(c) ==
  LET s == next_substream_id IN
  /\ task[c] = "running"
  /\ Strong(c)
  /\ s < MaxSubstreams
  /\ next_substream_id' = s + 1
  /\ on' = [on EXCEPT ![s] = c]
  /\ inbound' = inbound \cup {s}
  /\ opening' = [opening EXCEPT ![c] = @ \cup {s}]
  /\ UNCHANGED <<tasks, commands, rx, contexts, tracker, pending_outbound,
                 pending_events, open, outcome>>

(* Mutant: a substream whose negotiation fails is dropped. *)
NegotiatedSubstream_silent(c, s) ==
  /\ task[c] = "running"
  /\ s \in opening[c]
  /\ opening' = [opening EXCEPT ![c] = @ \ {s}]
  /\ Send([kind |-> "opened", id |-> s]) \/ UNCHANGED rx
  /\ UNCHANGED <<tasks, commands, substreams, contexts, tracker, pending_outbound,
                 pending_events, open, outcome>>

(* handle_negotiated_substream: the protocol is told of an opened substream, *)
(* and of a failure only if it asked for the substream.                    *)
NegotiatedSubstream(c, s) ==
  /\ task[c] = "running"
  /\ s \in opening[c]
  /\ opening' = [opening EXCEPT ![c] = @ \ {s}]
  /\ \/ Send([kind |-> "opened", id |-> s])
     \/ s \notin inbound /\ Send([kind |-> "failure", id |-> s])
     \/ s \in inbound /\ UNCHANGED rx
  /\ UNCHANGED <<tasks, commands, substreams, contexts, tracker, pending_outbound,
                 pending_events, open, outcome>>

(* report_connection_closed: first the protocols, *)
ReportToProtocols(c) ==
  /\ task[c] = "closing"
  /\ task' = [task EXCEPT ![c] = "reported"]
  /\ Send([kind |-> "closed", id |-> c])
  /\ UNCHANGED <<remote, commands, opening, others, substreams, contexts, tracker,
                 pending_outbound, pending_events, open, outcome>>

(* then the manager; and the task ends, with its channel and substreams.   *)
ReportToManager(c) ==
  /\ task[c] = "reported"
  /\ task' = [task EXCEPT ![c] = "closed"]
  /\ commands' = [commands EXCEPT ![c] = <<>>]
  /\ opening' = [opening EXCEPT ![c] = {}]
  /\ UNCHANGED <<remote, others, substreams, rx, contexts, tracker,
                 pending_outbound, pending_events, open, outcome>>

-----------------------------------------------------------------------------
(* The service *)

(* KeepAliveTracker::substream_activity starts a timeout unless one runs. *)
substream_activity(c) ==
  /\ last_activity' = last_activity \cup {c}
  /\ pending_keep_alive_timeouts' =
       IF c \in last_activity THEN pending_keep_alive_timeouts
                              ELSE pending_keep_alive_timeouts \cup {c}

(* poll_next returns the first of the queued events: the failures of one   *)
(* connection, in no particular order, and then ConnectionClosed.          *)
PopEvent(queue) ==
  \/ \E s \in queue.failures :
       /\ pending_events' = [queue EXCEPT !.failures = @ \ {s}]
       /\ answers' = [answers EXCEPT ![s] = @ + 1]
       /\ UNCHANGED <<sessions, requested>>
  \/ /\ queue.failures = {} /\ queue.closed # None
     /\ pending_events' = [queue EXCEPT !.closed = None]
     /\ sessions' = [sessions EXCEPT ![queue.closed] = @ - 1]
     /\ UNCHANGED <<requested, answers>>

QueueEmpty(queue) == queue.failures = {} /\ queue.closed = None

DeliverPending ==
  /\ PopEvent(pending_events)
  /\ UNCHANGED <<tasks, commands, opening, substreams, rx, contexts, tracker,
                 pending_outbound, open>>

Receive(kind) ==
  /\ QueueEmpty(pending_events)
  /\ rx # <<>> /\ Head(rx).kind = kind
  /\ rx' = Tail(rx)

(* Only the first connection of a peer is reported. *)
Reported(p) == primary[p] = None

(* on_connection_established; the handle of a third connection is dropped. *)
ReceiveEstablished ==
  LET c == Head(rx).id
      p == remote[c] IN
  /\ Receive("established")
  /\ IF primary[p] # None /\ secondary[p] # None
       THEN UNCHANGED <<contexts, tracker>>
       ELSE /\ substream_activity(c)
            /\ active' = active \cup {c}
            /\ IF primary[p] = None
                 THEN primary' = [primary EXCEPT ![p] = c] /\ UNCHANGED secondary
                 ELSE secondary' = [secondary EXCEPT ![p] = c] /\ UNCHANGED primary
  /\ sessions' = IF Reported(p) THEN [sessions EXCEPT ![p] = @ + 1] ELSE sessions
  /\ UNCHANGED <<tasks, commands, opening, substreams, pending_outbound,
                 pending_events, open, requested, answers>>

(* Mutant: the requests are left to the connection. *)
FailedRequests_none(c) == {}

(* The requests that were made on the connection c. *)
FailedRequests(c) == {s \in SubstreamId : pending_outbound[s] = c}

(* The primary connection once c is closed. *)
Promoted(p, c) == IF primary[p] = c THEN secondary[p] ELSE primary[p]

(* on_connection_closed: the requests on the connection fail, and the      *)
(* secondary connection takes the place of the primary.                    *)
ReceiveClosed ==
  LET c == Head(rx).id
      p == remote[c]
      kept == Promoted(p, c)
      queue == [failures |-> FailedRequests(c),
                closed |-> IF primary[p] = c /\ kept = None THEN p ELSE None] IN
  /\ Receive("closed")
  /\ last_activity' = last_activity \ {c}
  /\ pending_outbound' = [s \in SubstreamId |-> IF s \in FailedRequests(c) THEN None
                                                ELSE pending_outbound[s]]
  /\ primary' = [primary EXCEPT ![p] = kept]
  /\ secondary' = [secondary EXCEPT ![p] = None]
  /\ active' = active \ ({primary[p], secondary[p]} \ {kept})
  /\ IF QueueEmpty(queue) THEN UNCHANGED <<pending_events, outcome>> ELSE PopEvent(queue)
  /\ UNCHANGED <<tasks, commands, opening, substreams, pending_keep_alive_timeouts, open>>

(* SubstreamOpened: the connection is active again before the permit goes. *)
ReceiveOpened ==
  LET s == Head(rx).id
      c == on[s]
      p == remote[c] IN
  /\ Receive("opened")
  /\ pending_outbound' = [pending_outbound EXCEPT ![s] = None]
  /\ IF KeepAlive
       THEN /\ substream_activity(c)
            /\ active' = IF c \in {primary[p], secondary[p]} THEN active \cup {c} ELSE active
       ELSE UNCHANGED <<active, tracker>>
  /\ open' = open \cup {s}
  /\ answers' = IF s \in inbound THEN answers ELSE [answers EXCEPT ![s] = @ + 1]
  /\ UNCHANGED <<tasks, commands, opening, substreams, primary, secondary,
                 pending_events, sessions, requested>>

ReceiveOpenFailure ==
  LET s == Head(rx).id IN
  /\ Receive("failure")
  /\ pending_outbound' = [pending_outbound EXCEPT ![s] = None]
  /\ answers' = [answers EXCEPT ![s] = @ + 1]
  /\ UNCHANGED <<tasks, commands, opening, substreams, contexts, tracker,
                 pending_events, open, sessions, requested>>

untracked(c) == last_activity \ {c}

(* Mutant: only the primary connection is downgraded. *)
downgrade_primary(c) == IF c = primary[remote[c]] THEN active \ {c} ELSE active

(* ConnectionContext::downgrade *)
downgrade(c) == IF c \in {primary[remote[c]], secondary[remote[c]]} THEN active \ {c} ELSE active

(* KeepAliveTracker::poll_next, once the channel is empty: a timeout of a  *)
(* connection that is no longer tracked is ignored, one that comes too     *)
(* early is started again (a stuttering step), and the others downgrade    *)
(* the handle.                                                             *)
KeepAliveTimeout(c) ==
  /\ QueueEmpty(pending_events) /\ rx = <<>>
  /\ c \in pending_keep_alive_timeouts
  /\ pending_keep_alive_timeouts' = pending_keep_alive_timeouts \ {c}
  /\ last_activity' = untracked(c)
  /\ active' = IF c \in last_activity THEN downgrade(c) ELSE active
  /\ UNCHANGED <<tasks, commands, opening, substreams, rx, primary, secondary,
                 pending_outbound, pending_events, open, outcome>>

-----------------------------------------------------------------------------
(* The protocol *)

(* TrySendError: the receiver is gone, or the channel is full. *)
CanSend(c) == task[c] # "closed" /\ Len(commands[c]) < CommandCapacity

(* open_substream: without a sender to upgrade, the call fails at once.    *)
(* Otherwise the connection is activated even if the command is not sent.  *)
open_substream(p) ==
  LET c == primary[p]
      s == next_substream_id IN
  /\ c # None /\ Strong(c)
  /\ s < MaxSubstreams
  /\ next_substream_id' = s + 1
  /\ IF KeepAlive
       THEN substream_activity(c) /\ active' = active \cup {c}
       ELSE UNCHANGED <<active, tracker>>
  /\ IF CanSend(c)
       THEN /\ commands' = [commands EXCEPT ![c] = Append(@, s)]
            /\ on' = [on EXCEPT ![s] = c]
            /\ pending_outbound' = [pending_outbound EXCEPT ![s] = c]
            /\ requested' = [requested EXCEPT ![s] = p]
       ELSE UNCHANGED <<commands, on, pending_outbound, requested>>
  /\ UNCHANGED <<tasks, opening, inbound, rx, primary, secondary, pending_events,
                 open, sessions, answers>>

(* force_close: the command goes to both connections that can take it. *)
force_close(p) ==
  LET closing == {c \in {primary[p], secondary[p]} \ {None} : Strong(c) /\ CanSend(c)} IN
  /\ primary[p] # None
  /\ commands' = [c \in ConnectionId |-> IF c \in closing THEN Append(commands[c], ForceClose)
                                                         ELSE commands[c]]
  /\ UNCHANGED <<tasks, opening, substreams, rx, contexts, tracker, pending_outbound,
                 pending_events, open, outcome>>

DropSubstream(s) ==
  /\ s \in open
  /\ open' = open \ {s}
  /\ UNCHANGED <<tasks, commands, opening, substreams, rx, contexts, tracker,
                 pending_outbound, pending_events, outcome>>

-----------------------------------------------------------------------------
ConnectionStep(c) ==
  \/ \E p \in Peer : Accept(c, p)
  \/ ConnectionLost(c)
  \/ ProtocolsDisconnected(c)
  \/ HandleCommand(c)
  \/ InboundSubstream(c)
  \/ \E s \in SubstreamId : NegotiatedSubstream(c, s)
  \/ ReportToProtocols(c)
  \/ ReportToManager(c)
  \/ OthersRelease(c)
  \/ OthersAcquire(c)

(* TransportService::poll_next *)
ServicePoll ==
  \/ DeliverPending
  \/ ReceiveEstablished
  \/ ReceiveClosed
  \/ ReceiveOpened
  \/ ReceiveOpenFailure

ProtocolStep ==
  \/ \E p \in Peer : open_substream(p) \/ force_close(p)
  \/ \E s \in SubstreamId : DropSubstream(s)

Next ==
  \/ \E c \in ConnectionId : ConnectionStep(c) \/ KeepAliveTimeout(c)
  \/ ServicePoll
  \/ ProtocolStep

Spec == Init /\ [][Next]_vars

(* The protocol polls its service, a connection's select! starves none of  *)
(* its branches, negotiation and keep-alive end by timeouts, and a task    *)
(* that has left its loop reports.                                         *)
Fairness ==
  /\ WF_vars(ServicePoll)
  /\ \A c \in ConnectionId :
       /\ WF_vars(HandleCommand(c))
       /\ \A s \in SubstreamId : WF_vars(NegotiatedSubstream(c, s))
       /\ WF_vars(ProtocolsDisconnected(c))
       /\ WF_vars(ReportToProtocols(c))
       /\ WF_vars(ReportToManager(c))
       /\ WF_vars(KeepAliveTimeout(c))

FairSpec == Spec /\ Fairness

-----------------------------------------------------------------------------
(* Properties *)

(* The service keeps the promises of SubstreamService: across connections  *)
(* that close with commands still queued, substreams still negotiating and *)
(* a secondary connection taking over, no request is answered twice and    *)
(* none is left when the peer is reported as closed.                       *)
Promises == Service!Spec

(* ... and every request is answered in the end. *)
PromisesFair == Service!FairSpec

(* A protocol never sees a third connection: a task tells the protocols    *)
(* that it is closed before it tells the manager, which only then admits   *)
(* another one.  (A third connection would be ignored, and closing it      *)
(* would make on_connection_closed forget the secondary one.)              *)
NoThirdConnection ==
  rx # <<>> /\ Head(rx).kind = "established" =>
    LET p == remote[Head(rx).id] IN primary[p] = None \/ secondary[p] = None

(* A connection is closed for a peer the service knows: the debug_assert   *)
(* of on_connection_closed holds.                                          *)
ClosedIsKnown ==
  rx # <<>> /\ Head(rx).kind = "closed" =>
    LET c == Head(rx).id IN c \in {primary[remote[c]], secondary[remote[c]]}

(* An active handle has a keep-alive timeout running, so that it is given  *)
(* up in the end; and only handles the service still has are active.       *)
ActiveIsTimed ==
  /\ active \subseteq last_activity \cap pending_keep_alive_timeouts
  /\ \A c \in active : c \in {primary[remote[c]], secondary[remote[c]]}

(* A substream that was requested is on its way: in the command channel,   *)
(* negotiating, in the event channel, or the connection's closing will     *)
(* answer it.                                                              *)
RequestLocated ==
  \A s \in SubstreamId :
    pending_outbound[s] # None =>
      LET c == pending_outbound[s] IN
      \/ InChannel(s) \/ s \in opening[c]
      \/ InEvents("opened", s) \/ InEvents("failure", s)
      \/ task[c] \in {"closing", "reported"} \/ InEvents("closed", c)

(* The events in the channel, the handles of the service and the tasks of  *)
(* the connections agree: whatever closes, takes over or times out, an     *)
(* event finds the state its handler asserts, and neither a request nor an *)
(* active handle is forgotten.                                             *)
Inv == TypeOK /\ NoThirdConnection /\ ClosedIsKnown /\ ActiveIsTimed /\ RequestLocated

-----------------------------------------------------------------------------
(* The inductive invariant *)

Precedes(x, y, seq) == \E i, j \in 1 .. Len(seq) : i < j /\ seq[i] = x /\ seq[j] = y

(* In the event channel, one event is ahead of another. *)
Before(kind, id, kind2, id2) ==
  Precedes([kind |-> kind, id |-> id], [kind |-> kind2, id |-> id2], rx)

(* The service has a handle of the connection c; *)
Known(c) == remote[c] # None /\ c \in {primary[remote[c]], secondary[remote[c]]}

(* or is about to receive one. *)
Tracked(c) == Known(c) \/ InEvents("established", c)

(* The substream s waits in the command channel or is being negotiated. *)
Waiting(s) == InChannel(s) \/ s \in opening[on[s]]

(* The task has told of the substream s what became of it. *)
Told(s) == InEvents("opened", s) \/ InEvents("failure", s)

(* A handle belongs to the peer of its connection, and a peer that has a   *)
(* secondary connection has another, primary one.                          *)
ContextsAgree ==
  /\ \A c \in ConnectionId : task[c] = "none" <=> remote[c] = None
  /\ \A p \in Peer :
       /\ primary[p] # None => remote[primary[p]] = p
       /\ secondary[p] # None => /\ remote[secondary[p]] = p
                                 /\ primary[p] \notin {None, secondary[p]}

(* The service tracks the connections whose tasks have not reported yet,   *)
(* and of the others those whose closing it has not received.              *)
Lifecycle ==
  \A c \in ConnectionId :
    /\ ~(Known(c) /\ InEvents("established", c))
    /\ task[c] \in {"running", "closing"} => Tracked(c) /\ ~InEvents("closed", c)
    /\ task[c] \in {"reported", "closed"} => (Tracked(c) <=> InEvents("closed", c))
    /\ task[c] = "none" => ~Tracked(c) /\ ~InEvents("closed", c)

(* A connection is announced once and then closed once, and nothing is     *)
(* told of it afterwards.                                                  *)
EventsOrdered ==
  /\ \A c \in ConnectionId :
       /\ ~Before("established", c, "established", c)
       /\ ~Before("closed", c, "established", c)
       /\ ~Before("closed", c, "closed", c)
  /\ \A s \in SubstreamId : \A kind, kind2 \in {"opened", "failure"} :
       /\ ~Before(kind, s, kind2, s)
       /\ ~Before("closed", on[s], kind, s)

(* When the announcement of c is received, the service will have d as a    *)
(* connection of the same peer.                                            *)
Ahead(d, c) ==
  /\ remote[d] = remote[c]
  /\ Known(d) \/ Before("established", d, "established", c)
  /\ ~Before("closed", d, "established", c)

OneAhead ==
  \A c \in ConnectionId : InEvents("established", c) =>
    \A d, e \in ConnectionId : Ahead(d, c) /\ Ahead(e, c) => d = e

(* A substream id is used once, for a connection that was accepted. *)
SubstreamsAllocated ==
  \A s \in SubstreamId :
    /\ s >= next_substream_id => on[s] = None /\ s \notin inbound
    /\ on[s] # None => task[on[s]] # "none"

(* A substream is in one place: in the command channel of its connection,  *)
(* negotiating there, or in the event channel.                             *)
OnePlace(s) ==
  /\ \A c \in ConnectionId :
       /\ Occurs(s, commands[c]) => /\ on[s] = c /\ s \notin inbound /\ s \notin opening[c]
                                    /\ ~Told(s) /\ ~Precedes(s, s, commands[c])
       /\ s \in opening[c] => on[s] = c /\ ~Told(s)
  /\ Told(s) => on[s] # None
  /\ InEvents("failure", s) => s \notin inbound

InOnePlace == \A s \in SubstreamId : OnePlace(s)

(* A request is pending on a connection the service has, and on its way as *)
(* long as the task runs.  What the task tells of a substream, or can      *)
(* still tell, is the answer to a request that is pending.                 *)
PendingRequest(s) ==
  /\ pending_outbound[s] # None =>
       /\ pending_outbound[s] = on[s] /\ Known(on[s]) /\ s \notin inbound
       /\ task[on[s]] = "running" => Waiting(s) \/ Told(s)
  /\ on[s] # None /\ s \notin inbound =>
       /\ Told(s) => pending_outbound[s] = on[s]
       /\ task[on[s]] = "running" /\ Waiting(s) => pending_outbound[s] = on[s]

PendingAgree == \A s \in SubstreamId : PendingRequest(s)

(* The requests without an answer are those that are pending and those     *)
(* whose failure is queued.                                                *)
RequestAnswer(s) ==
  /\ requested[s] = IF on[s] # None /\ s \notin inbound THEN remote[on[s]] ELSE None
  /\ requested[s] = None => answers[s] = 0
  /\ requested[s] # None /\ answers[s] = 0
       <=> pending_outbound[s] # None \/ s \in pending_events.failures
  /\ s \in pending_events.failures => pending_outbound[s] = None

RequestsAgree == \A s \in SubstreamId : RequestAnswer(s)

(* The protocol believes a peer connected as long as the service has a     *)
(* handle, and until it has received the queued ConnectionClosed.          *)
SessionsAgree ==
  \A p \in Peer :
    /\ sessions[p] = IF primary[p] # None \/ pending_events.closed = p THEN 1 ELSE 0
    /\ pending_events.closed = p => primary[p] = None

(* A tracked connection has a timeout running. *)
TimersAgree ==
  /\ active \subseteq last_activity
  /\ last_activity \subseteq pending_keep_alive_timeouts
  /\ \A c \in active : Known(c)

(* The inductive invariant: Inv follows from it. *)
IInv ==
  /\ TypeOK
  /\ ContextsAgree /\ Lifecycle /\ EventsOrdered /\ OneAhead
  /\ SubstreamsAllocated /\ InOnePlace /\ PendingAgree
  /\ RequestsAgree /\ SessionsAgree /\ TimersAgree

(* Nothing but this service and the tasks of connections it has keeps a    *)
(* connection: with no other protocol and no substream, it closes.         *)
Idle(c) ==
  c \notin others /\ \A s \in SubstreamId : on[s] = c => ~Permit(s)

(* KeepAliveTracker: "If no substreams are opened over the connection      *)
(* within the timeout, the connection is downgraded", and with that closed. *)
IdleConnectionCloses ==
  \A c \in ConnectionId :
    <>[](task[c] = "running" => Idle(c)) => <>[](task[c] # "running")
=============================================================================
