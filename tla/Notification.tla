---------------------------- MODULE Notification ----------------------------
(***************************************************************************)
(* The notification protocol (protocol/notification/mod.rs) with its       *)
(* handshakes (negotiation.rs), the tasks of its open streams and its      *)
(* handle, on top of the promises of SubstreamService.                     *)
(*                                                                         *)
(* The protocol is one task: a branch of next_event takes an event and     *)
(* handles it to the end, so each is one action.  A stream is open when    *)
(* both sides have opened a substream, read the other's handshake and sent *)
(* their own; it then has a task of its own (connection.rs), named by the  *)
(* id of its outbound substream.  An inbound substream is named by a       *)
(* number, and so is the validation the user is asked for.  Protocol names, *)
(* the contents of handshakes and error kinds are left out.                *)
(***************************************************************************)
EXTENDS Naturals, Sequences, FiniteSets

CONSTANTS
  Peer, None,
  LateShutdown,               \* the task of a stream may be slow to say that it has ended
  MaxSubstreams,              \* bound: outbound substreams ever requested
  MaxInbound,                 \* bound: inbound substreams ever received
  CommandCapacity             \* capacity of the command channel

SubstreamId == 0 .. MaxSubstreams - 1
InboundId == 0 .. MaxInbound - 1

VARIABLES
  \* the service, as SubstreamService describes it
  sessions, requested, answers,
  \* the protocol
  config,            \* auto_accept and should_dial of its Config
  peers,             \* peer -> its PeerState, "absent" if not in the map
  pending_outbound,  \* substream id -> peer, or None
  negotiating,       \* HandshakeService.substreams: <<peer, direction>> -> id, or None
  ready,             \* HandshakeService.ready: <<peer, direction, id whose handshake it is>>
  inbound,           \* peer -> inbound substream of its context, or None
  timers,            \* peers with a timer
  validations,       \* inbound id -> stage of its entry in pending_validations
  received,          \* inbound substreams received so far
  asked,             \* inbound id -> peer it is of, or None
  tasks,             \* outbound id -> stage of its Connection task
  shutdowns,         \* channel shutdown_rx
  \* the handle
  commands, events,
  handle_peers,      \* NotificationHandle.peers
  to_validate,       \* NotificationHandle.pending_validations: peer -> id, or None
  \* history
  owed               \* peers the user asked for or accepted, until told how it ended

service == <<sessions, requested, answers>>
handshakes == <<negotiating, ready, inbound>>
user == <<commands, events, handle_peers, to_validate>>
arrivals == <<received, asked, config>>
vars == <<service, peers, pending_outbound, handshakes, timers, validations, arrivals,
          tasks, shutdowns, user, owed>>

Service == INSTANCE SubstreamService

-----------------------------------------------------------------------------
(* PeerState.  inbound and outbound are InboundState and OutboundState of a *)
(* Validating peer; substream is the id that OutboundInitiated, Closed     *)
(* {pending_open} and the task of Open refer to; connected is the          *)
(* ConnectionState of ValidationPending.                                   *)

State(kind) ==
  [kind |-> kind, inbound |-> "closed", outbound |-> "closed", substream |-> None,
   connected |-> FALSE]

Absent == State("absent")
Poisoned == State("poisoned")
Dialing == State("dialing")
Closed(s) == [State("closed") EXCEPT !.substream = s]

OutboundInitiated(s) == [State("initiated") EXCEPT !.substream = s]
ValidationPending(c) == [State("pending") EXCEPT !.connected = c]
Open(s) == [State("open") EXCEPT !.substream = s]

(* s is the initiated substream, or the one being negotiated or open. *)
Validating(in, out, s) ==
  [State("validating") EXCEPT !.inbound = in, !.outbound = out, !.substream = s]

(* Mutant: the substream that is still being opened is forgotten. *)
pending_open_none(c) == None

(* OutboundState::pending_open *)
pending_open(c) == IF c.outbound = "initiated" THEN c.substream ELSE None

(* ValidationResult of a future that has ended; "dropped" is a rejection   *)
(* that the user has not made.                                             *)
Result == {"accept", "reject", "dropped"}

Inbound == "inbound"
Outbound == "outbound"

Init ==
  /\ Service!Init
  /\ config \in [auto_accept : BOOLEAN, should_dial : BOOLEAN]
  /\ peers = [p \in Peer |-> Absent]
  /\ pending_outbound = [s \in SubstreamId |-> None]
  /\ negotiating = [k \in Peer \X {Inbound, Outbound} |-> None]
  /\ ready = <<>>
  /\ inbound = [p \in Peer |-> None]
  /\ timers = {}
  /\ validations = [i \in InboundId |-> "none"]
  /\ received = 0
  /\ asked = [i \in InboundId |-> None]
  /\ tasks = [s \in SubstreamId |-> "none"]
  /\ shutdowns = <<>>
  /\ commands = <<>>
  /\ events = <<>>
  /\ handle_peers = {}
  /\ to_validate = [p \in Peer |-> None]
  /\ owed = {}

-----------------------------------------------------------------------------
(* Calls of the service, of the HandshakeService and of the event handle   *)

Become(p, state) == peers' = [peers EXCEPT ![p] = state]

Report(kind, p, id) == events' = Append(events, [kind |-> kind, peer |-> p, id |-> id])

(* report_notification_stream_open_failure; the handle passes it on. *)
Fails(p) == owed' = owed \ {p}

Unused(s) ==
  /\ requested[s] = None
  /\ \A u \in SubstreamId : u < s => requested[u] # None

(* open_substream returns a new id, which pending_outbound remembers. *)
OpenSubstream(p, s) ==
  /\ Unused(s)
  /\ requested' = [requested EXCEPT ![s] = p]
  /\ pending_outbound' = [pending_outbound EXCEPT ![s] = p]

(* negotiate_outbound, read_handshake and send_handshake *)
Negotiate(p, direction, id) == [negotiating EXCEPT ![<<p, direction>>] = id]

(* remove_outbound and remove_inbound *)
RemoveBoth(p) == [negotiating EXCEPT ![<<p, Inbound>>] = None, ![<<p, Outbound>>] = None]

NoInbound(p) == [inbound EXCEPT ![p] = None]

Live(entry) == negotiating[entry[1], entry[2]] # None

(* The first branch of next_event has nothing queued, nor has the second.  *)
NoHandshake == ~ \E k \in 1 .. Len(ready) : Live(ready[k])
Quiet == NoHandshake /\ shutdowns = <<>>
NoResult == \A i \in InboundId : validations[i] \notin Result

(* The task of the peer's stream has said that the stream has ended. *)
Prompt(p) == LateShutdown \/ \A s \in SubstreamId : requested[s] = p => tasks[s] # "closing"

-----------------------------------------------------------------------------
(* Connections and dials *)

(* on_connection_established *)
ConnectionEstablished(p) ==
  LET c == peers[p] IN
  /\ Service!ConnectionEstablished(p)  \* leaves requested and answers alone
  /\ c.kind # "dialing"
  /\ Become(p, CASE c.kind = "absent" -> Closed(None)
                 [] c.kind = "pending" -> ValidationPending(TRUE)
                 [] OTHER -> Poisoned)
  /\ UNCHANGED <<pending_outbound, handshakes, timers, validations, arrivals, tasks,
                 shutdowns, user, owed>>

(* The same of a peer the user has dialed: on_open_substream follows.      *)
DialedConnectionEstablished(p) ==
  /\ sessions[p] = 0
  /\ peers[p].kind = "dialing"
  /\ sessions' = [sessions EXCEPT ![p] = 1]
  /\ \/ \E s \in SubstreamId : /\ OpenSubstream(p, s)
                               /\ Become(p, OutboundInitiated(s))
                               /\ UNCHANGED owed
     \/ /\ Become(p, Closed(None))
        /\ Fails(p)
        /\ UNCHANGED <<requested, pending_outbound>>
  /\ UNCHANGED <<answers, handshakes, timers, validations, arrivals, tasks, shutdowns,
                 user>>

(* What is left of the peer when its connection closes. *)
AfterClose(c) ==
  IF \/ c.kind = "pending"
     \/ c.kind = "validating" /\ c.outbound = "closed" /\ c.inbound = "validating"
    THEN ValidationPending(FALSE)
    ELSE Absent

(* The user has asked for the stream, or accepted it, and it is not open. *)
UserAwaits(c) ==
  c.kind = "initiated" \/ (c.kind = "validating" /\ c.outbound # "closed")

(* on_connection_closed.  The task of an open stream sees its shutdown     *)
(* sender used or dropped.                                                 *)
ConnectionClosed(p) ==
  /\ Service!ConnectionClosed(p)
  /\ Prompt(p)
  /\ pending_outbound' = [s \in SubstreamId |-> IF pending_outbound[s] = p
                                                  THEN None ELSE pending_outbound[s]]
  /\ negotiating' = RemoveBoth(p)
  /\ inbound' = NoInbound(p)
  /\ Become(p, AfterClose(peers[p]))
  /\ IF UserAwaits(peers[p]) THEN Fails(p) ELSE UNCHANGED owed
  /\ UNCHANGED <<ready, timers, validations, arrivals, tasks, shutdowns, user>>

(* on_dial_failure *)
DialFailure(p) ==
  /\ peers[p].kind = "dialing"
  /\ Become(p, Absent)
  /\ Fails(p)
  /\ UNCHANGED <<service, pending_outbound, handshakes, timers, validations, arrivals,
                 tasks, shutdowns, user>>

-----------------------------------------------------------------------------
(* Substreams *)

(* The peer waits for this substream. *)
Expects(c, s) ==
  \/ c.kind = "initiated"
  \/ c.kind = "validating" /\ (c.inbound \in {"sending", "open"} \/ c.outbound = "initiated")

(* on_outbound_substream.  A substream nobody waits for is closed, and the *)
(* state stays Poisoned unless it was kept as pending_open.                *)
OutboundSubstream(s) ==
  LET p == requested[s]
      c == peers[p] IN
  /\ Service!Answer(s)
  /\ c.kind # "absent"
  /\ pending_outbound' = [pending_outbound EXCEPT ![s] = None]
  /\ IF Expects(c, s)
       THEN /\ Become(p, Validating(c.inbound, "negotiating", s))
            /\ negotiating' = Negotiate(p, Outbound, s)
       ELSE /\ Become(p, IF c.kind = "closed" /\ c.substream = s THEN Closed(None)
                                                               ELSE Poisoned)
            /\ UNCHANGED negotiating
  /\ UNCHANGED <<ready, inbound, timers, validations, arrivals, tasks, shutdowns, user, owed>>

(* The states in which the handshake of an inbound substream is read. *)
Reads(c) ==
  \/ c.kind = "closed" /\ c.substream = None
  \/ c.kind = "initiated"
  \/ c.kind = "validating" /\ c.inbound = "closed"

(* The states in which a new substream shows that the one being validated  *)
(* is dead.                                                                *)
Replaced(c) == c.kind = "validating" /\ c.outbound = "closed" /\ c.inbound = "validating"

(* on_inbound_substream; in the other states the substream is closed. *)
InboundSubstream(p) ==
  LET c == peers[p]
      i == received IN
  /\ sessions[p] = 1
  /\ c.kind # "absent"
  /\ i < MaxInbound
  /\ received' = i + 1
  /\ asked' = [asked EXCEPT ![i] = p]
  /\ \/ /\ Reads(c)
        /\ Become(p, Validating("reading",
                                IF c.kind = "initiated" THEN "initiated" ELSE c.outbound,
                                c.substream))
        /\ negotiating' = Negotiate(p, Inbound, i)
        /\ inbound' = [inbound EXCEPT ![p] = i]
     \/ /\ Replaced(c)
        /\ Become(p, ValidationPending(TRUE))
        /\ inbound' = NoInbound(p)
        /\ UNCHANGED negotiating
     \/ /\ ~Reads(c) /\ ~Replaced(c)
        /\ UNCHANGED <<peers, negotiating, inbound>>
  /\ UNCHANGED <<service, config, pending_outbound, ready, timers, validations, tasks, shutdowns,
                 user, owed>>

ServiceEvent(p) ==
  \/ ConnectionEstablished(p)
  \/ DialedConnectionEstablished(p)
  \/ ConnectionClosed(p)
  \/ DialFailure(p)
  \/ InboundSubstream(p)

(* on_substream_open_failure *)
SubstreamOpenFailure(s) ==
  LET p == pending_outbound[s]
      c == peers[p] IN
  /\ Service!Answer(s)
  /\ pending_outbound' = [pending_outbound EXCEPT ![s] = None]
  /\ IF p = None
       THEN UNCHANGED <<peers, negotiating, inbound, owed>>
       ELSE /\ Become(p, Closed(IF c.kind = "validating" THEN pending_open(c) ELSE None))
            /\ IF c.kind = "validating"
                 THEN negotiating' = RemoveBoth(p) /\ inbound' = NoInbound(p)
                 ELSE UNCHANGED <<negotiating, inbound>>
            /\ IF UserAwaits(c) THEN Fails(p) ELSE UNCHANGED owed
  /\ UNCHANGED <<ready, timers, validations, arrivals, tasks, shutdowns, user>>

-----------------------------------------------------------------------------
(* Handshakes *)

(* on_handshake_event of a handshake that was sent and answered. *)
OutboundNegotiated(p) ==
  LET c == peers[p] IN
  IF c.kind = "validating" /\ c.outbound = "negotiating"
    THEN Validating(c.inbound, "open", c.substream)
    ELSE Poisoned

AutoAccepts(c) == config.auto_accept /\ c.outbound # "closed"

(* ... of an inbound substream: its handshake was read, and the user or    *)
(* auto_accept decides, or ours was sent.                                  *)
InboundNegotiated(p) ==
  LET c == peers[p] IN
  CASE c.kind = "validating" /\ c.inbound = "reading" ->
         Validating(IF AutoAccepts(c) THEN "sending" ELSE "validating", c.outbound, c.substream)
    [] c.kind = "validating" /\ c.inbound = "sending" ->
         Validating("open", c.outbound, c.substream)
    [] OTHER -> Poisoned

FullyOpen(c) == c.kind = "validating" /\ c.inbound = "open" /\ c.outbound = "open"

(* The end of on_handshake_event: the stream opens, or a timer is set.     *)
Negotiated(p, direction, id) ==
  LET c == IF direction = Outbound THEN OutboundNegotiated(p) ELSE InboundNegotiated(p)
      accepted == direction = Inbound /\ c.inbound = "sending"
      validate == direction = Inbound /\ c.inbound = "validating"
      i == inbound[p] IN
  /\ negotiating' = Negotiate(p, direction, IF accepted THEN i ELSE None)
  /\ Become(p, IF FullyOpen(c) THEN Open(c.substream) ELSE c)
  /\ IF FullyOpen(c)
       THEN /\ tasks' = [tasks EXCEPT ![c.substream] = "running"]
            /\ inbound' = NoInbound(p)
       ELSE UNCHANGED <<tasks, inbound>>
  /\ timers' = IF FullyOpen(c) \/ accepted THEN timers ELSE timers \cup {p}
  /\ IF validate THEN validations' = [validations EXCEPT ![i] = "queued"]
                 ELSE UNCHANGED validations
  /\ CASE validate -> Report("validate", p, i)
       [] FullyOpen(c) -> Report("opened", p, c.substream)
       [] OTHER -> UNCHANGED events
  /\ owed' = IF FullyOpen(c) THEN owed \ {p} ELSE owed

(* on_handshake_event of an error: both substreams are given up. *)
NegotiationError(p) ==
  LET c == peers[p] IN
  /\ negotiating' = RemoveBoth(p)
  /\ inbound' = NoInbound(p)
  /\ Become(p, IF c.kind = "validating" THEN Closed(pending_open(c)) ELSE Poisoned)
  /\ IF c.kind = "validating" /\ UserAwaits(c)
       THEN Fails(p) /\ UNCHANGED timers
       ELSE timers' = timers \cup {p} /\ UNCHANGED owed
  /\ UNCHANGED <<tasks, validations, events>>

(* pop_event: entries whose substream is gone are skipped. *)
PopEvent ==
  /\ \E n \in 1 .. Len(ready) :
       /\ Live(ready[n]) /\ \A j \in 1 .. n - 1 : ~Live(ready[j])
       /\ ready' = SubSeq(ready, n + 1, Len(ready))
       /\ Negotiated(ready[n][1], ready[n][2], ready[n][3])
  /\ UNCHANGED <<service, pending_outbound, arrivals, shutdowns, commands,
                 handle_peers, to_validate>>

Entry(k) == <<k[1], k[2], negotiating[k]>>

(* The orders in which some of the elements of a set may come. *)
Orders(S) ==
  UNION {{f \in [1 .. n -> S] : \A a, b \in 1 .. n : f[a] = f[b] => a = b} : n \in 0 .. Cardinality(S)}

(* poll_next: the substreams are polled in some order; those in done are   *)
(* ready, and one that fails or times out ends the poll at once.           *)
PollHandshakes ==
  /\ NoHandshake
  /\ \E done \in Orders({k \in DOMAIN negotiating : negotiating[k] # None}) :
       \/ /\ done # <<>>
          /\ ready' = [a \in 1 .. Len(done) - 1 |-> Entry(done[a + 1])]
          /\ Negotiated(done[1][1], done[1][2], negotiating[done[1]])
       \/ \E k \in DOMAIN negotiating :
            /\ negotiating[k] # None
            /\ \A a \in 1 .. Len(done) : done[a] # k
            /\ ready' = [a \in 1 .. Len(done) |-> Entry(done[a])]
            /\ NegotiationError(k[1])
  /\ UNCHANGED <<service, pending_outbound, arrivals, shutdowns, commands,
                 handle_peers, to_validate>>

(* Mutant: the timer covers a stream whose substreams are both open. *)
NoAnswer_both(c) == c.kind = "validating" /\ c.outbound = "open" /\ c.inbound = "open"

(* Our substream is open and the remote has not opened its own. *)
NoAnswer(c) == c.kind = "validating" /\ c.outbound = "open" /\ c.inbound = "closed"

(* A timer fires.  Several timers of a peer are one element of timers, so  *)
(* it may stay.  The force_close asked for here ends in ConnectionClosed,  *)
(* which a connection may meet at any time.                                *)
TimerFires(p) ==
  /\ p \in timers
  /\ timers' \in {timers, timers \ {p}}
  /\ IF NoAnswer(peers[p]) THEN Become(p, Closed(None)) /\ Fails(p)
                           ELSE UNCHANGED <<peers, owed>>
  /\ UNCHANGED <<service, pending_outbound, handshakes, validations, arrivals, tasks,
                 shutdowns, user>>

-----------------------------------------------------------------------------
(* The user's answers and commands *)

(* on_validation_result, of the validation of inbound substream i. *)
ValidationResult(i) ==
  LET p == asked[i]
      c == peers[p]
      accept == validations[i] = "accept"
      current == c.kind = "validating" /\ c.inbound = "validating" IN
  /\ validations[i] \in Result
  /\ validations' = [validations EXCEPT ![i] = "none"]
  /\ \/ /\ current /\ ~accept
        /\ Become(p, Closed(pending_open(c)))
        /\ negotiating' = RemoveBoth(p)
        /\ inbound' = NoInbound(p)
        /\ owed' = IF validations[i] = "reject" THEN owed \ {p} ELSE owed
        /\ UNCHANGED <<requested, pending_outbound>>
     \/ /\ current /\ accept /\ c.outbound # "closed"
        /\ Become(p, [c EXCEPT !.inbound = "sending"])
        /\ negotiating' = Negotiate(p, Inbound, inbound[p])
        /\ owed' = owed \cup {p}
        /\ UNCHANGED <<requested, pending_outbound, inbound>>
     \/ /\ current /\ accept /\ c.outbound = "closed"
        /\ \E s \in SubstreamId : /\ OpenSubstream(p, s)
                                  /\ Become(p, Validating("sending", "initiated", s))
        /\ negotiating' = Negotiate(p, Inbound, inbound[p])
        /\ owed' = owed \cup {p}
        /\ UNCHANGED inbound
     \/ /\ current /\ accept /\ c.outbound = "closed"
        /\ Become(p, Closed(None))
        /\ inbound' = NoInbound(p)
        /\ Fails(p)
        /\ UNCHANGED <<requested, pending_outbound, negotiating>>
     \/ /\ c.kind = "pending"
        /\ Become(p, IF c.connected THEN Closed(None) ELSE Absent)
        /\ IF accept THEN Fails(p) ELSE UNCHANGED owed
        /\ UNCHANGED <<requested, pending_outbound, negotiating, inbound>>
     \/ /\ ~current /\ c.kind # "pending"
        /\ UNCHANGED <<requested, pending_outbound, peers, negotiating, inbound, owed>>
  /\ UNCHANGED <<sessions, answers, ready, timers, arrivals, tasks, shutdowns, user>>

Receive(kind, p) ==
  /\ commands # <<>> /\ Head(commands) = [kind |-> kind, peer |-> p]
  /\ commands' = Tail(commands)

(* on_open_substream *)
OnOpenSubstream(p) ==
  LET c == peers[p]
      reusable == c.kind = "closed" /\ c.substream # None IN
  /\ Receive("open", p)
  /\ \/ /\ c.kind = "absent" /\ config.should_dial
        /\ Become(p, Dialing)
        /\ owed' = owed \cup {p}
        /\ UNCHANGED <<requested, pending_outbound>>
     \/ /\ reusable
        /\ Become(p, OutboundInitiated(c.substream))
        /\ pending_outbound' = [pending_outbound EXCEPT ![c.substream] = p]
        /\ owed' = owed \cup {p}
        /\ UNCHANGED requested
     \/ /\ c.kind = "closed" /\ ~reusable
        /\ \E s \in SubstreamId : OpenSubstream(p, s) /\ Become(p, OutboundInitiated(s))
        /\ owed' = owed \cup {p}
     \/ /\ c.kind \in {"absent", "pending", "closed"} /\ ~reusable
        /\ Fails(p)
        /\ UNCHANGED <<requested, pending_outbound, peers>>
     \/ /\ c.kind \notin {"absent", "pending", "closed"}
        /\ UNCHANGED <<requested, pending_outbound, peers, owed>>
  /\ UNCHANGED <<sessions, answers, handshakes, timers, validations, arrivals, tasks,
                 shutdowns, events, handle_peers, to_validate>>

(* on_close_substream *)
OnCloseSubstream(p) ==
  /\ Receive("close", p)
  /\ Prompt(p)
  /\ IF peers[p].kind = "open" THEN Become(p, Closed(None)) ELSE UNCHANGED peers
  /\ UNCHANGED <<service, pending_outbound, handshakes, timers, validations, arrivals,
                 tasks, shutdowns, events, handle_peers, to_validate, owed>>

-----------------------------------------------------------------------------
(* The task of an open stream (connection.rs) *)

(* Its shutdown sender was used, or dropped with the state that held it.   *)
Signalled(s) == peers[requested[s]] # Open(s)

(* One of the substreams is closed or fails, or the user has gone: the task *)
(* closes both and tells the protocol.                                     *)
StreamEnds(s) ==
  /\ tasks[s] = "running" /\ ~Signalled(s)
  /\ tasks' = [tasks EXCEPT ![s] = "closing"]
  /\ UNCHANGED <<service, peers, pending_outbound, handshakes, timers, validations, arrivals,
                 shutdowns, user, owed>>

(* close_connection(NotifyProtocol::Yes), both substreams closed *)
NotifyProtocol(s) ==
  /\ tasks[s] = "closing"
  /\ tasks' = [tasks EXCEPT ![s] = "reporting"]
  /\ shutdowns' = Append(shutdowns, requested[s])
  /\ UNCHANGED <<service, peers, pending_outbound, handshakes, timers, validations, arrivals,
                 user, owed>>

(* The protocol has ended the stream: close_connection(NotifyProtocol::No) *)
StreamShutdown(s) ==
  /\ tasks[s] = "running" /\ Signalled(s)
  /\ tasks' = [tasks EXCEPT ![s] = "reporting"]
  /\ UNCHANGED <<service, peers, pending_outbound, handshakes, timers, validations, arrivals,
                 shutdowns, user, owed>>

(* report_notification_stream_closed *)
ReportClosed(s) ==
  /\ tasks[s] = "reporting"
  /\ tasks' = [tasks EXCEPT ![s] = "none"]
  /\ Report("closed", requested[s], s)
  /\ UNCHANGED <<service, peers, pending_outbound, handshakes, timers, validations, arrivals,
                 shutdowns, commands, handle_peers, to_validate, owed>>

(* The protocol takes a peer from shutdown_rx. *)
Shutdown ==
  LET p == Head(shutdowns) IN
  /\ shutdowns # <<>>
  /\ shutdowns' = Tail(shutdowns)
  /\ IF peers[p].kind # "absent" THEN Become(p, Closed(None)) ELSE UNCHANGED peers
  /\ UNCHANGED <<service, pending_outbound, handshakes, timers, validations, arrivals,
                 tasks, user, owed>>

-----------------------------------------------------------------------------
(* The handle *)

(* poll_next.  A validation that replaces another one drops its sender,    *)
(* which the protocol takes for a rejection.                               *)
poll_next ==
  LET e == Head(events)
      p == e.peer IN
  /\ events # <<>>
  /\ events' = Tail(events)
  /\ handle_peers' = CASE e.kind = "opened" -> handle_peers \cup {p}
                       [] e.kind = "closed" -> handle_peers \ {p}
                       [] OTHER -> handle_peers
  /\ IF e.kind = "validate"
       THEN /\ to_validate' = [to_validate EXCEPT ![p] = e.id]
            /\ validations' = [i \in InboundId |-> CASE i = e.id -> "held"
                                                    [] i = to_validate[p] -> "dropped"
                                                    [] OTHER -> validations[i]]
       ELSE UNCHANGED <<to_validate, validations>>
  /\ UNCHANGED <<service, peers, pending_outbound, handshakes, timers, arrivals, tasks,
                 shutdowns, commands, owed>>

(* send_validation_result *)
send_validation_result(p, result) ==
  /\ to_validate[p] # None
  /\ to_validate' = [to_validate EXCEPT ![p] = None]
  /\ validations' = [validations EXCEPT ![to_validate[p]] = result]
  /\ UNCHANGED <<service, peers, pending_outbound, handshakes, timers, arrivals, tasks,
                 shutdowns, commands, events, handle_peers, owed>>

Send(kind, p) ==
  /\ Len(commands) < CommandCapacity
  /\ commands' = Append(commands, [kind |-> kind, peer |-> p])
  /\ UNCHANGED <<service, peers, pending_outbound, handshakes, timers, validations, arrivals,
                 tasks, shutdowns, events, handle_peers, to_validate, owed>>

open_substream(p) == p \notin handle_peers /\ Send("open", p)

close_substream(p) == p \in handle_peers /\ Send("close", p)

-----------------------------------------------------------------------------
(* next_event: a biased select, so an event waits for those before it. *)
Step ==
  \/ PopEvent
  \/ PollHandshakes
  \/ NoHandshake /\ Shutdown
  \/ \E p \in Peer : Quiet /\ (TimerFires(p) \/ ServiceEvent(p))
  \/ \E s \in SubstreamId : Quiet /\ (OutboundSubstream(s) \/ SubstreamOpenFailure(s))
  \/ \E i \in InboundId : Quiet /\ ValidationResult(i)
  \/ \E p \in Peer : Quiet /\ NoResult /\ (OnOpenSubstream(p) \/ OnCloseSubstream(p))

TaskStep(s) == StreamEnds(s) \/ NotifyProtocol(s) \/ StreamShutdown(s) \/ ReportClosed(s)

UserStep ==
  \/ poll_next
  \/ \E p \in Peer : \/ open_substream(p)
                     \/ close_substream(p)
                     \/ \E r \in {"accept", "reject"} : send_validation_result(p, r)

Next == Step \/ UserStep \/ \E s \in SubstreamId : TaskStep(s)

Spec == Init /\ [][Next]_vars

(* The protocol task keeps running, a handshake succeeds or fails within   *)
(* ten seconds, timers fire, and the service answers.                      *)
FairSpec ==
  /\ Spec
  /\ WF_vars(PopEvent \/ PollHandshakes)
  /\ WF_vars(NoHandshake /\ Shutdown)
  /\ \A p \in Peer : WF_vars(Quiet /\ TimerFires(p))
  /\ \A s \in SubstreamId :
       WF_vars(Quiet /\ (OutboundSubstream(s) \/ SubstreamOpenFailure(s)))

-----------------------------------------------------------------------------
(* Properties *)

Variant ==
  {"absent", "poisoned", "dialing", "closed", "initiated", "pending", "validating", "open"}
InboundState == {"closed", "reading", "validating", "sending", "open"}
OutboundState == {"closed", "initiated", "negotiating", "open"}

PeerState ==
  [kind : Variant, inbound : InboundState, outbound : OutboundState,
   substream : SubstreamId \cup {None}, connected : BOOLEAN]

Directions == {Inbound, Outbound}
Ids == SubstreamId \cup InboundId

(* Every variable has its type; a peer whose stream is initiated or open   *)
(* knows the id of its substream (PeerState).                              *)
TypeOK ==
  /\ sessions \in [Peer -> {0, 1}]
  /\ requested \in [SubstreamId -> Peer \cup {None}]
  /\ answers \in [SubstreamId -> {0, 1}]
  /\ config \in [auto_accept : BOOLEAN, should_dial : BOOLEAN]
  /\ peers \in [Peer -> PeerState]
  /\ \A p \in Peer : peers[p].kind \in {"initiated", "open"} => peers[p].substream # None
  /\ pending_outbound \in [SubstreamId -> Peer \cup {None}]
  /\ negotiating \in [Peer \X Directions -> Ids \cup {None}]
  /\ ready \in Seq(Peer \X Directions \X Ids)
  /\ inbound \in [Peer -> InboundId \cup {None}]
  /\ timers \subseteq Peer
  /\ validations \in [InboundId -> {"none", "queued", "held"} \cup Result]
  /\ received \in 0 .. MaxInbound
  /\ asked \in [InboundId -> Peer \cup {None}]
  /\ tasks \in [SubstreamId -> {"none", "running", "closing", "reporting"}]
  /\ shutdowns \in Seq(Peer)
  /\ commands \in Seq([kind : {"open", "close"}, peer : Peer])
  /\ events \in Seq([kind : {"validate", "opened", "closed"}, peer : Peer, id : Ids])
  /\ handle_peers \subseteq Peer
  /\ to_validate \in [Peer -> InboundId \cup {None}]
  /\ owed \subseteq Peer

(* No event reaches a peer in a state that cannot handle it: the handlers  *)
(* replace the state by Poisoned, and every arm that leaves it so asserts  *)
(* that it is never taken.                                                 *)
NeverPoisoned == \A p \in Peer : peers[p].kind # "poisoned"

(* The HandshakeService negotiates exactly the substreams whose peers wait *)
(* for a handshake: a forgotten entry would end in on_handshake_event of a *)
(* peer that is in another state, a missing one in no event at all.        *)
NegotiationMatches ==
  \A p \in Peer :
    LET c == peers[p] IN
    /\ negotiating[p, Outbound] # None <=> c.kind = "validating" /\ c.outbound = "negotiating"
    /\ negotiating[p, Inbound] # None
         <=> c.kind = "validating" /\ c.inbound \in {"reading", "sending"}

(* A substream the service still has to answer is known to its peer, as    *)
(* the one it waits for or as pending_open: on_outbound_substream and      *)
(* on_substream_open_failure find the state they assert.                   *)
OutboundExpected ==
  \A s \in SubstreamId :
    Service!Unanswered(s) =>
      LET c == peers[requested[s]] IN
      /\ c.substream = s
      /\ c.kind \in {"closed", "initiated"} \/ c.outbound = "initiated"

(* With auto_accept, a stream the user asked for or accepted is being      *)
(* opened until the user is told that it is open or has failed: no error   *)
(* path forgets the report.                                                *)
OwedIsPending ==
  config.auto_accept =>
    \A p \in owed :
      LET c == peers[p] IN
      \/ c.kind \in {"dialing", "initiated"}
      \/ c.kind = "validating" /\ c.outbound # "closed"

(* The states of the peers agree with the handshakes and the substreams on *)
(* their way and with what the user waits for, whatever order connections, *)
(* substreams, timers and the user's answers come in.                      *)
StatesAgree ==
  TypeOK /\ NeverPoisoned /\ NegotiationMatches /\ OutboundExpected /\ OwedIsPending

-----------------------------------------------------------------------------
(* The inductive invariant *)

(* A peer is connected in the states that say so, and only in them. *)
ConnectedMatches ==
  \A p \in Peer :
    LET c == peers[p] IN
    sessions[p] = 0 <=> c.kind \in {"absent", "dialing"} \/ (c.kind = "pending" /\ ~c.connected)

(* A state has no more than the fields of its variant; it knows the ids of *)
(* its substreams, and the outbound one is of this peer.                   *)
StateIsWhole ==
  \A p \in Peer :
    LET c == peers[p] IN
    /\ c.kind # "validating" => c.inbound = "closed" /\ c.outbound = "closed"
    /\ c.outbound # "closed" => c.substream # None
    /\ c.inbound # "closed" => inbound[p] # None
    /\ c.substream # None => requested[c.substream] = p

(* Only a peer whose stream nobody has asked for is validated by the user  *)
(* when auto_accept is set.                                                *)
UserDecides ==
  config.auto_accept =>
    \A p \in Peer : peers[p].inbound = "validating" => peers[p].outbound = "closed"

(* pending_outbound has no other peer than the one the substream is of. *)
PendingIsRequested ==
  \A s \in SubstreamId : pending_outbound[s] \in {None, requested[s]}

(* What the user is asked for, or has answered, is an inbound substream.   *)
ValidationIsAsked ==
  /\ \A i \in InboundId : validations[i] # "none" => asked[i] # None
  /\ \A p \in Peer : /\ inbound[p] # None => asked[inbound[p]] # None
                     /\ to_validate[p] # None => asked[to_validate[p]] # None
  /\ \A k \in 1 .. Len(events) : events[k].kind = "validate" =>
       events[k].id \in InboundId /\ asked[events[k].id] # None

(* A task that ends by itself, and its word to the protocol, are of the    *)
(* stream that the protocol has as open.                                   *)
ShutdownIsOpen ==
  /\ \A s \in SubstreamId :
       /\ tasks[s] # "none" => requested[s] # None
       /\ tasks[s] = "closing" =>
            peers[requested[s]] = Open(s) /\ \A k \in 1 .. Len(shutdowns) : shutdowns[k] # requested[s]
  /\ \A k \in 1 .. Len(shutdowns) :
       LET c == peers[shutdowns[k]] IN
       /\ c.kind = "open" /\ tasks[c.substream] # "running"
       /\ \A j \in 1 .. Len(shutdowns) : shutdowns[j] = shutdowns[k] => j = k

(* The invariant that the steps preserve: it adds to StatesAgree what a    *)
(* handler needs to know of the state it finds (connections, tasks of the  *)
(* streams, and the substreams the user has been asked to validate).       *)
NotificationInv ==
  /\ StatesAgree
  /\ ConnectedMatches /\ StateIsWhole /\ UserDecides /\ PendingIsRequested
  /\ ValidationIsAsked /\ ShutdownIsOpen

-----------------------------------------------------------------------------
Negotiates(c) ==
  c.kind = "validating" /\ c.inbound # "validating" /\ c.outbound # "initiated"

(* A peer that waits for the remote (for a handshake, or for the substream *)
(* that answers ours) does so only until a timeout.                        *)
NegotiationEnds == \A p \in Peer : []<>~Negotiates(peers[p])
=============================================================================
