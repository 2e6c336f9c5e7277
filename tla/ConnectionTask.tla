--------------------------- MODULE ConnectionTask ---------------------------
(***************************************************************************)
(* The task of one connection with all the protocols it serves: the event  *)
(* loops of transport/tcp/connection.rs, transport/websocket/connection.rs *)
(* and transport/quic/connection.rs over protocol/protocol_set.rs.  (The   *)
(* module TransportService has one protocol and many connections.)         *)
(*                                                                         *)
(* The three loops differ in what the result of an outbound substream says *)
(* that was not opened in time.                                            *)
(***************************************************************************)
EXTENDS Naturals, FiniteSets, Sequences, SequencesExt

CONSTANTS
  Transports,       \* of "tcp", "websocket" and "quic"
  Protocol,
  None,
  FallbackOf,       \* fallback name -> its main protocol
  Accepts,          \* protocols with InboundProtocol::Accept
  EventCapacity,    \* of the channel of a protocol
  CommandCapacity,  \* of the channel of ProtocolCommand
  MaxSubstreams     \* bounds the substreams that protocols and the remote open

VARIABLES
  transport,
  members,    \* ProtocolSet.protocols
  offered,    \* the names in ProtocolSet.keep_alives
  task,       \* "establishing", "running", "closing" or "closed"
  sending,    \* events whose send the task awaits
  commands,   \* rx of the ProtocolSet: ids of substreams, or ForceClose
  pending_substreams,
  senders,    \* a protocol or a substream of it holds a strong sender
  inbound,    \* substreams of the remote so far
  gone,       \* protocols that have exited
  unread,     \* protocol -> events that wait in its channel
  \* history
  asker,      \* id -> the protocol that opened it, in order
  log,        \* protocol -> the events that were sent to it
  noticed,    \* protocols a send to which has failed
  manager     \* TransportManagerEvent::ConnectionClosed was sent

setVars == <<transport, members, offered, noticed>>
queueVars == <<gone, unread, log>>
vars == <<setVars, task, sending, commands, pending_substreams, senders, inbound, queueVars,
          asker, manager>>

Id == 1 .. MaxSubstreams
ForceClose == 0

Names == Protocol \cup DOMAIN FallbackOf

(* fallback_names, then the name itself. *)
Main(name) == IF name \in Protocol THEN name ELSE FallbackOf[name]

NamesOf(p) == {name \in Names : Main(name) = p}

Event(kind, id) == [kind |-> kind, id |-> id]

ToAll(kind) == {[to |-> p, event |-> Event(kind, 0)] : p \in members}

(* ProtocolSet::new, and accept(): the protocols hear of the connection    *)
(* before its loop is started.                                             *)
Init ==
  /\ transport \in Transports
  /\ gone \in SUBSET Protocol
  /\ members = Protocol \ gone
  /\ offered = UNION {NamesOf(p) : p \in members \cap Accepts}
  /\ task = "establishing" /\ sending = ToAll("established")
  /\ commands = <<>> /\ pending_substreams = {} /\ senders = TRUE /\ inbound = 0
  /\ unread = [p \in Protocol |-> 0]
  /\ asker = <<>> /\ log = [p \in Protocol |-> <<>>] /\ noticed = {} /\ manager = FALSE

-----------------------------------------------------------------------------
(* ProtocolSet *)

on_protocol_closed(p) == offered \ NamesOf(p)

Delivers(s) ==
  /\ s.to \notin gone /\ unread[s.to] < EventCapacity
  /\ unread' = [unread EXCEPT ![s.to] = @ + 1]
  /\ log' = [log EXCEPT ![s.to] = Append(@, s.event)]
  /\ UNCHANGED <<offered, noticed>>

FindsClosed(s) ==
  /\ s.to \in gone
  /\ offered' = on_protocol_closed(s.to)
  /\ noticed' = noticed \cup {s.to}
  /\ UNCHANGED <<unread, log>>

(* One of the awaited sends ends.  The task does nothing else until all of *)
(* them have.                                                              *)
Send(p) ==
  /\ \E s \in sending :
       /\ s.to = p
       /\ Delivers(s) \/ FindsClosed(s)
       /\ sending' = sending \ {s}
  /\ UNCHANGED <<transport, members, task, commands, pending_substreams, senders, inbound, gone,
                 asker, manager>>

-----------------------------------------------------------------------------
(* The loop *)

Idle == task = "running" /\ sending = {}

Start ==
  /\ task = "establishing" /\ sending = {}
  /\ task' = "running"
  /\ UNCHANGED <<setVars, sending, commands, pending_substreams, senders, inbound, queueVars,
                 asker, manager>>

(* break, and report_connection_closed to the protocols. *)
LeavesLoop == sending' = ToAll("closed") /\ task' = "closing"

(* A strong sender of the command channel is left: a handle, or a permit   *)
(* in a command, in a future or in an event that was not read.             *)
Strong ==
  \/ senders
  \/ commands # <<>> \/ pending_substreams # {}
  \/ \E p \in Protocol : \E i \in 1 .. Len(log[p]) :
       i > Len(log[p]) - unread[p] /\ log[p][i].kind = "opened"

(* A substream of the remote, which negotiates one of the names that are   *)
(* offered now.  Without a permit for it the connection is closed.         *)
InboundSubstream ==
  /\ Idle /\ Len(asker) + inbound < MaxSubstreams
  /\ inbound' = inbound + 1
  /\ \/ /\ Strong
        /\ pending_substreams' =
             pending_substreams \cup {[id |-> MaxSubstreams + inbound + 1, protocol |-> None,
                                       names |-> offered]}
        /\ UNCHANGED <<task, sending>>
     \/ /\ ~Strong
        /\ LeavesLoop
        /\ UNCHANGED pending_substreams
  /\ UNCHANGED <<setVars, commands, senders, queueVars, asker, manager>>

ConnectionLost ==
  /\ Idle
  /\ LeavesLoop
  /\ UNCHANGED <<setVars, commands, pending_substreams, senders, inbound, queueVars, asker, manager>>

HandleCommand ==
  /\ Idle /\ commands # <<>>
  /\ commands' = Tail(commands)
  /\ LET id == Head(commands) IN
     \/ /\ id = ForceClose
        /\ LeavesLoop
        /\ UNCHANGED pending_substreams
     \/ /\ id # ForceClose
        /\ pending_substreams' =
             pending_substreams \cup {[id |-> id, protocol |-> asker[id],
                                       names |-> NamesOf(asker[id])]}
        /\ UNCHANGED <<task, sending>>
  /\ UNCHANGED <<setVars, senders, inbound, queueVars, asker, manager>>

ProtocolsDisconnected ==
  /\ Idle /\ ~Strong
  /\ LeavesLoop
  /\ UNCHANGED <<setVars, commands, pending_substreams, senders, inbound, queueVars, asker, manager>>

(* A future of pending_substreams is ready. *)
Takes(s) ==
  /\ Idle
  /\ pending_substreams' = pending_substreams \ {s}
  /\ UNCHANGED <<setVars, commands, senders, inbound, queueVars, asker, manager>>

Reports(to, kind, id) == sending' = {[to |-> p, event |-> Event(kind, id)] : p \in to}

(* report_substream_open: the main protocol of the name gets it. *)
SubstreamOpened(s) ==
  /\ Takes(s)
  /\ \E name \in s.names :
       IF Main(name) \in members
         THEN /\ Reports({Main(name)}, "opened", IF s.protocol = None THEN 0 ELSE s.id)
              /\ UNCHANGED task
         ELSE LeavesLoop

(* report_substream_open_failure, for outbound substreams. *)
FailureTo(s) == IF s.protocol = None THEN {} ELSE {s.protocol}

(* ConnectionError::FailedToNegotiate; it has the protocol and the id of an *)
(* outbound substream.                                                     *)
FailedToNegotiate(s) ==
  /\ Takes(s)
  /\ Reports(FailureTo(s), "failure", s.id)
  /\ UNCHANGED task

(* Mutant: ConnectionError::Timeout never has them. *)
TimeoutTo_none(s) == {}

(* ConnectionError::Timeout; it has them too for TCP and WebSocket. *)
TimeoutTo(s) == IF transport = "quic" THEN {} ELSE FailureTo(s)

Timeout(s) ==
  /\ Takes(s)
  /\ Reports(TimeoutTo(s), "failure", s.id)
  /\ UNCHANGED task

(* The timeout makes every future ready. *)
Negotiated(id) ==
  \E s \in pending_substreams :
    s.id = id /\ (SubstreamOpened(s) \/ FailedToNegotiate(s) \/ Timeout(s))

(* Mutant: the manager does not wait for the protocols. *)
ProtocolsTold_any == TRUE

ProtocolsTold == sending = {}

(* The end of report_connection_closed, and of the task. *)
ReportToManager ==
  /\ task = "closing" /\ ProtocolsTold
  /\ manager' = TRUE
  /\ task' = "closed"
  /\ commands' = <<>> /\ pending_substreams' = {} /\ senders' = FALSE
  /\ UNCHANGED <<setVars, sending, inbound, queueVars, asker>>

-----------------------------------------------------------------------------
(* The protocols *)

(* The protocol holds a handle: it has read ConnectionEstablished. *)
Knows(p) == p \notin gone /\ Len(log[p]) > unread[p]

(* ConnectionHandle::open_substream and force_close. *)
OpenSubstream(p) ==
  /\ Knows(p) /\ Strong /\ task # "closed"
  /\ Len(asker) + inbound < MaxSubstreams /\ Len(commands) < CommandCapacity
  /\ asker' = Append(asker, p)
  /\ commands' = Append(commands, Len(asker) + 1)
  /\ UNCHANGED <<setVars, task, sending, pending_substreams, senders, inbound, queueVars, manager>>

ForceCloses(p) ==
  /\ Knows(p) /\ Strong /\ task # "closed" /\ Len(commands) < CommandCapacity
  /\ commands' = Append(commands, ForceClose)
  /\ UNCHANGED <<setVars, task, sending, pending_substreams, senders, inbound, queueVars, asker,
                 manager>>

(* Handles are downgraded and upgraded, substreams are dropped. *)
SendersChange ==
  /\ task = "running"
  /\ ~senders => Strong
  /\ senders' = ~senders
  /\ UNCHANGED <<setVars, task, sending, commands, pending_substreams, inbound, queueVars, asker,
                 manager>>

Read(p) ==
  /\ p \notin gone /\ unread[p] > 0
  /\ unread' = [unread EXCEPT ![p] = @ - 1]
  /\ UNCHANGED <<setVars, task, sending, commands, pending_substreams, senders, inbound, gone, log,
                 asker, manager>>

Exit(p) ==
  /\ p \notin gone
  /\ gone' = gone \cup {p}
  /\ unread' = [unread EXCEPT ![p] = 0]
  /\ UNCHANGED <<setVars, task, sending, commands, pending_substreams, senders, inbound, log, asker,
                 manager>>

-----------------------------------------------------------------------------
Next ==
  \/ \E p \in Protocol : Send(p)
  \/ Start
  \/ InboundSubstream
  \/ ConnectionLost
  \/ HandleCommand
  \/ ProtocolsDisconnected
  \/ \E id \in 1 .. 2 * MaxSubstreams : Negotiated(id)
  \/ ReportToManager
  \/ \E p \in Protocol : OpenSubstream(p) \/ ForceCloses(p) \/ Read(p) \/ Exit(p)
  \/ SendersChange

(* The task runs, its futures have timeouts, and the protocols poll. *)
Fairness ==
  /\ \A p \in Protocol : WF_vars(Send(p)) /\ WF_vars(Read(p))
  /\ WF_vars(Start) /\ WF_vars(HandleCommand) /\ WF_vars(ReportToManager)
  /\ \A id \in 1 .. 2 * MaxSubstreams : WF_vars(Negotiated(id))

Spec == Init /\ [][Next]_vars /\ Fairness

-----------------------------------------------------------------------------
(* Properties *)

Answers(p, id) == {i \in 1 .. Len(log[p]) : log[p][i].id = id}

(* A protocol sees ConnectionEstablished first and ConnectionClosed last,  *)
(* and the manager hears that the connection is closed when every protocol *)
(* that is left has heard it: it may then admit another one of the peer.   *)
SessionsInOrder ==
  /\ \A p \in Protocol : \A i \in 1 .. Len(log[p]) :
       /\ log[p][i].kind = "established" <=> i = 1
       /\ log[p][i].kind = "closed" => i = Len(log[p])
  /\ manager => \A p \in members \ gone : log[p] # <<>> /\ Last(log[p]).kind = "closed"

(* No name of a protocol that was found closed is negotiated any more. *)
ClosedNotOffered == \A name \in offered : Main(name) \notin noticed

(* ProtocolSet keeps protocols and manager informed in order, also when a  *)
(* protocol exits while the connection lives or is being closed.           *)
Inv == SessionsInOrder /\ ClosedNotOffered

(* An outbound substream is answered, once and to the protocol that opened *)
(* it, whatever the name that was negotiated, unless that protocol exits   *)
(* or the connection is closed.                                            *)
OpenAnswered ==
  \A p \in Protocol, id \in Id :
    []<>(id <= Len(asker) /\ asker[id] = p =>
           \/ Cardinality(Answers(p, id)) = 1 /\ \A q \in Protocol \ {p} : Answers(q, id) = {}
           \/ p \in gone \/ task = "closed")
=============================================================================
