------------------------- MODULE NotificationProofs -------------------------
(***************************************************************************)
(* Proofs about Notification: the states of the peers agree with the       *)
(* service, the handshakes and the tasks of the streams, and no handler    *)
(* leaves a peer Poisoned.                                                 *)
(***************************************************************************)
EXTENDS Notification, TLAPS

(* What is assumed of the constants. *)
Constants ==
  /\ MaxSubstreams \in Nat /\ MaxInbound \in Nat
  /\ None \notin Peer \cup Nat

(* None is not a peer and not an id of a substream. *)
LEMMA NoneApart ==
  ASSUME Constants
  PROVE  /\ None \notin Peer /\ None \notin SubstreamId /\ None \notin InboundId /\ None \notin Ids
         /\ Inbound # Outbound
BY DEF Constants, SubstreamId, InboundId, Ids, Inbound, Outbound

-----------------------------------------------------------------------------
(* The invariant of one peer, and of one substream *)

(* The state c agrees with the number of connections, with the substreams  *)
(* that are being negotiated, and with the inbound one of the context.     *)
Agrees(c, connections, out, in, i) ==
  /\ c \in PeerState /\ c.kind # "poisoned"
  /\ c.kind \in {"initiated", "open"} => c.substream # None
  /\ connections = 0 <=> c.kind \in {"absent", "dialing"} \/ (c.kind = "pending" /\ ~c.connected)
  /\ out # None <=> c.kind = "validating" /\ c.outbound = "negotiating"
  /\ in # None <=> c.kind = "validating" /\ c.inbound \in {"reading", "sending"}
  /\ c.kind # "validating" => c.inbound = "closed" /\ c.outbound = "closed"
  /\ c.outbound # "closed" => c.substream # None
  /\ c.inbound # "closed" => i # None

PeerInv(p) ==
  /\ Agrees(peers[p], sessions[p], negotiating[p, Outbound], negotiating[p, Inbound], inbound[p])
  /\ peers[p].substream # None => requested[peers[p].substream] = p

(* The user waits for the stream of a peer in the state c. *)
Owing(c) == c.kind \in {"dialing", "initiated"} \/ (c.kind = "validating" /\ c.outbound # "closed")

OwedInv(p) ==
  config.auto_accept =>
    /\ p \in owed => Owing(peers[p])
    /\ peers[p].inbound = "validating" => peers[p].outbound = "closed"

(* A peer in the state c knows the substream s that is being opened. *)
Awaits(c, s) ==
  /\ c.substream = s
  /\ c.kind \in {"closed", "initiated"} \/ c.outbound = "initiated"

RequestInv(s) ==
  /\ requested[s] # None /\ answers[s] = 0 => Awaits(peers[requested[s]], s)
  /\ pending_outbound[s] \in {None, requested[s]}

PeersAgree == \A p \in Peer : PeerInv(p) /\ OwedInv(p)
RequestsExpected == \A s \in SubstreamId : RequestInv(s)

Whole == TypeOK /\ PeersAgree /\ RequestsExpected /\ ValidationIsAsked /\ ShutdownIsOpen

(* The invariant says the same as its parts, peer by peer and substream by *)
(* substream.                                                              *)
LEMMA InvParts == NotificationInv <=> Whole
<1>1. ASSUME NotificationInv PROVE Whole
  <2>1. /\ TypeOK /\ NeverPoisoned /\ NegotiationMatches /\ ConnectedMatches /\ StateIsWhole
        /\ OwedIsPending /\ UserDecides
    BY <1>1, Zenon DEF NotificationInv, StatesAgree
  <2>2. ASSUME NEW p \in Peer PROVE PeerInv(p)
    <3>1. /\ peers[p] \in PeerState /\ peers[p].kind # "poisoned"
          /\ peers[p].kind \in {"initiated", "open"} => peers[p].substream # None
      BY <2>1, Zenon DEF TypeOK, NeverPoisoned
    <3> QED BY <2>1, <3>1, Zenon DEF PeerInv, Agrees, NegotiationMatches, ConnectedMatches, StateIsWhole
  <2>3. ASSUME NEW p \in Peer PROVE OwedInv(p)
    BY <2>1, Zenon DEF OwedInv, Owing, OwedIsPending, UserDecides
  <2>4. ASSUME NEW s \in SubstreamId PROVE RequestInv(s)
    BY <1>1, Zenon DEF RequestInv, Awaits, NotificationInv, StatesAgree, OutboundExpected, Service!Unanswered,
                       PendingIsRequested
  <2> QED BY <1>1, <2>1, <2>2, <2>3, <2>4, Zenon DEF Whole, PeersAgree, RequestsExpected, NotificationInv
<1>2. ASSUME Whole PROVE NotificationInv
  <2>1. NeverPoisoned /\ NegotiationMatches /\ ConnectedMatches /\ StateIsWhole
    BY <1>2, Zenon DEF Whole, PeersAgree, PeerInv, Agrees, NeverPoisoned, NegotiationMatches,
                       ConnectedMatches, StateIsWhole
  <2>2. OwedIsPending /\ UserDecides
    <3>1. owed \subseteq Peer
      BY <1>2, Zenon DEF Whole, TypeOK
    <3> QED BY <1>2, <3>1, Zenon DEF Whole, PeersAgree, OwedInv, Owing, OwedIsPending, UserDecides
  <2>3. OutboundExpected /\ PendingIsRequested
    BY <1>2, Zenon DEF Whole, RequestsExpected, RequestInv, Awaits, OutboundExpected,
                       Service!Unanswered, PendingIsRequested
  <2> QED BY <1>2, <2>1, <2>2, <2>3, Zenon DEF NotificationInv, StatesAgree, Whole
<1> QED BY <1>1, <1>2, Zenon

(* ... also after a step. *)
LEMMA InvPartsNext == NotificationInv' <=> Whole'
BY InvParts, PTL

-----------------------------------------------------------------------------
(* Steps that leave the states of the peers alone: the user *)

(* A step that forgets inbound substreams at most keeps what the user was  *)
(* asked.                                                                  *)
LEMMA AskedKept ==
  ASSUME ValidationIsAsked, UNCHANGED <<validations, asked, to_validate, events>>,
         \A p \in Peer : inbound'[p] \in {None, inbound[p]}
  PROVE  ValidationIsAsked'
BY Zenon DEF ValidationIsAsked

(* The fields of PeerState::Open. *)
LEMMA OpenFields ==
  ASSUME NEW s
  PROVE  /\ Open(s).kind = "open" /\ Open(s).substream = s
         /\ Open(s).inbound = "closed" /\ Open(s).outbound = "closed"
BY Zenon DEF State, Open

(* No task of a stream of the peer p says, or is about to say, that it has *)
(* ended.                                                                  *)
Settled(p) ==
  /\ \A k \in 1 .. Len(shutdowns) : shutdowns[k] # p
  /\ \A s \in SubstreamId : requested[s] = p => tasks[s] # "closing"

(* ... and that neither opens a stream nor ends one. *)
LEMMA ShutdownKept ==
  ASSUME Constants, TypeOK, ShutdownIsOpen, UNCHANGED <<tasks, shutdowns>>,
         \A s \in SubstreamId : requested[s] # None => requested'[s] = requested[s],
         \A q \in Peer : Settled(q) \/ peers'[q] = peers[q]
  PROVE  ShutdownIsOpen'
<1>1. ASSUME NEW s \in SubstreamId
      PROVE  /\ tasks'[s] # "none" => requested'[s] # None
             /\ tasks'[s] = "closing" =>
                  /\ peers'[requested'[s]] = Open(s)
                  /\ \A k \in 1 .. Len(shutdowns') : shutdowns'[k] # requested'[s]
  <2>1. requested[s] \in Peer \cup {None}
    BY Zenon DEF TypeOK
  <2>2. Open(s).kind = "open"
    BY OpenFields, Zenon
  <2>3. /\ tasks[s] # "none" => requested[s] # None
        /\ tasks[s] = "closing" =>
             /\ peers[requested[s]] = Open(s)
             /\ \A k \in 1 .. Len(shutdowns) : shutdowns[k] # requested[s]
    BY Zenon DEF ShutdownIsOpen
  <2>4. tasks[s] # "none" => requested'[s] = requested[s]
    BY <2>3, Zenon
  <2>5. tasks[s] = "closing" => peers'[requested[s]] = peers[requested[s]]
    <3> SUFFICES ASSUME tasks[s] = "closing" PROVE peers'[requested[s]] = peers[requested[s]]
      OBVIOUS
    <3>1. requested[s] \in Peer
      BY <2>1, <2>3, Zenon
    <3>2. ~Settled(requested[s])
      BY Zenon DEF Settled
    <3> QED BY <3>1, <3>2, Zenon
  <2>6. "closing" # "none"
    BY Zenon
  <2> QED BY <2>3, <2>4, <2>5, <2>6, Zenon
<1>2. ASSUME NEW k \in 1 .. Len(shutdowns)
      PROVE  /\ peers'[shutdowns[k]].kind = "open" /\ tasks[peers'[shutdowns[k]].substream] # "running"
             /\ \A j \in 1 .. Len(shutdowns) : shutdowns[j] = shutdowns[k] => j = k
  <2>1. shutdowns[k] \in Peer
    BY DEF TypeOK
  <2>2. ~Settled(shutdowns[k])
    BY Zenon DEF Settled
  <2> QED BY <2>1, <2>2, Zenon DEF ShutdownIsOpen
<1> QED BY <1>1, <1>2, Zenon DEF ShutdownIsOpen

(* A step in which the states of the peers stay as they are. *)
LEMMA QuietStep ==
  ASSUME Constants, Whole, TypeOK', ValidationIsAsked',
         UNCHANGED <<peers, sessions, inbound, negotiating, config, tasks, shutdowns, requested>>,
         owed' \subseteq owed,
         \A s \in SubstreamId : /\ answers'[s] = 0 => answers[s] = 0
                                /\ pending_outbound'[s] \in {None, pending_outbound[s]}
  PROVE  Whole'
<1>0. TypeOK /\ PeersAgree /\ RequestsExpected /\ ValidationIsAsked /\ ShutdownIsOpen
  BY Zenon DEF Whole
<1>1. ASSUME NEW p \in Peer PROVE PeerInv(p)' /\ OwedInv(p)'
  <2>1. PeerInv(p) /\ OwedInv(p)
    BY <1>0, Zenon DEF PeersAgree
  <2> QED BY <2>1, Zenon DEF PeerInv, OwedInv
<1>2. ASSUME NEW s \in SubstreamId PROVE RequestInv(s)'
  <2>1. RequestInv(s)
    BY <1>0, Zenon DEF RequestsExpected
  <2> QED BY <2>1, Zenon DEF RequestInv
<1>3. ShutdownIsOpen'
  BY <1>0, ShutdownKept, Zenon
<1> QED BY <1>1, <1>2, <1>3, Zenon DEF Whole, PeersAgree, RequestsExpected

(* The sequence r has the elements of q, and x. *)
Grows(q, r, x) ==
  \A k \in 1 .. Len(r) : (k \in 1 .. Len(q) /\ r[k] = q[k]) \/ r[k] = x

(* What Append adds to a channel is of its type, and nothing else changes. *)
LEMMA Appended ==
  ASSUME NEW S, NEW q \in Seq(S), NEW x \in S
  PROVE  Append(q, x) \in Seq(S) /\ Grows(q, Append(q, x), x)
BY DEF Grows

Event == [kind : {"validate", "opened", "closed"}, peer : Peer, id : Ids]

(* poll_next of the handle keeps the invariant. *)
LEMMA PollNextStep ==
  ASSUME Constants, Whole, poll_next
  PROVE  Whole'
<1>0. TypeOK /\ ValidationIsAsked
  BY Zenon DEF Whole
<1>1. PICK e : e = Head(events)
  BY Zenon
<1>2. /\ events # <<>> /\ events' = Tail(events)
      /\ handle_peers' = (CASE e.kind = "opened" -> handle_peers \cup {e.peer}
                            [] e.kind = "closed" -> handle_peers \ {e.peer}
                            [] OTHER -> handle_peers)
      /\ IF e.kind = "validate"
           THEN /\ to_validate' = [to_validate EXCEPT ![e.peer] = e.id]
                /\ validations' = [i \in InboundId |-> CASE i = e.id -> "held"
                                                     [] i = to_validate[e.peer] -> "dropped"
                                                     [] OTHER -> validations[i]]
           ELSE UNCHANGED <<to_validate, validations>>
      /\ UNCHANGED <<sessions, requested, answers, peers, pending_outbound, negotiating, ready, inbound, timers,
                     received, asked, config, tasks, shutdowns, commands, owed>>
  BY <1>1, Zenon DEF poll_next, service, handshakes, arrivals
<1>3. /\ e \in Event /\ 1 \in 1 .. Len(events) /\ e = events[1] /\ events' \in Seq(Event)
      /\ \A k \in 1 .. Len(events') : k + 1 \in 1 .. Len(events) /\ events'[k] = events[k + 1]
  <2>1. events \in Seq(Event)
    BY <1>0, Zenon DEF TypeOK, Event
  <2>2. ASSUME NEW S, NEW q \in Seq(S), q # <<>>
        PROVE  /\ Head(q) \in S /\ 1 \in 1 .. Len(q) /\ Head(q) = q[1] /\ Tail(q) \in Seq(S)
               /\ \A k \in 1 .. Len(Tail(q)) : k + 1 \in 1 .. Len(q) /\ Tail(q)[k] = q[k + 1]
    BY <2>2
  <2> QED BY <1>1, <1>2, <2>1, <2>2, Zenon
<1>4. e.peer \in Peer
  BY <1>3, Zenon DEF Event
<1>5. e.kind = "validate" => e.id \in InboundId /\ asked[e.id] # None
  BY <1>0, <1>3, Zenon DEF ValidationIsAsked
<1>6. /\ to_validate' \in [Peer -> InboundId \cup {None}]
      /\ \A p \in Peer : to_validate'[p] # None => asked[to_validate'[p]] # None
  <2>1. /\ to_validate \in [Peer -> InboundId \cup {None}]
        /\ \A p \in Peer : to_validate[p] # None => asked[to_validate[p]] # None
    BY <1>0, Zenon DEF TypeOK, ValidationIsAsked
  <2>2. CASE e.kind = "validate"
    BY <1>2, <1>4, <1>5, <2>1, <2>2, Zenon
  <2>3. CASE e.kind # "validate"
    BY <1>2, <2>1, <2>3, Zenon
  <2> QED BY <2>2, <2>3, Zenon
<1>7. /\ validations' \in [InboundId -> {"none", "queued", "held"} \cup Result]
      /\ \A i \in InboundId : validations'[i] # "none" => asked[i] # None
  <2>1. /\ validations \in [InboundId -> {"none", "queued", "held"} \cup Result]
        /\ "dropped" \in Result
        /\ \A i \in InboundId : validations[i] # "none" => asked[i] # None
        /\ to_validate[e.peer] # None => asked[to_validate[e.peer]] # None
    BY <1>0, <1>4, Zenon DEF TypeOK, ValidationIsAsked, Result
  <2>2. CASE e.kind = "validate"
    <3>1. validations' = [i \in InboundId |-> CASE i = e.id -> "held"
                                                [] i = to_validate[e.peer] -> "dropped"
                                                [] OTHER -> validations[i]]
      BY <1>2, <2>2, Zenon
    <3>2. None \notin InboundId
      BY NoneApart, Zenon
    <3> QED BY <1>5, <2>1, <2>2, <3>1, <3>2, Zenon
  <2>3. CASE e.kind # "validate"
    BY <1>2, <2>1, <2>3, Zenon
  <2> QED BY <2>2, <2>3, Zenon
<1>8. ValidationIsAsked'
  <2>1. \A k \in 1 .. Len(events') : events'[k].kind = "validate" =>
          events'[k].id \in InboundId /\ asked[events'[k].id] # None
    BY <1>0, <1>3, ZenonT(30) DEF ValidationIsAsked
  <2>2. \A p \in Peer : inbound[p] # None => asked[inbound[p]] # None
    BY <1>0, Zenon DEF ValidationIsAsked
  <2>3. UNCHANGED <<asked, inbound>>
    BY <1>2, Zenon
  <2> QED BY <1>6, <1>7, <2>1, <2>2, <2>3, Zenon DEF ValidationIsAsked
<1>9. handle_peers' \subseteq Peer
  <2>1. handle_peers \subseteq Peer
    BY <1>0, Zenon DEF TypeOK
  <2> QED BY <1>2, <1>4, <2>1, Zenon
<1>10. TypeOK'
  <2>1. UNCHANGED <<sessions, requested, answers, peers, pending_outbound, negotiating, ready, inbound, timers,
                    received, asked, config, tasks, shutdowns, commands, owed>>
    BY <1>2, Zenon
  <2> QED BY <1>0, <1>3, <1>6, <1>7, <1>9, <2>1, Zenon DEF TypeOK, Event
<1>11. \A s \in SubstreamId : pending_outbound'[s] \in {None, pending_outbound[s]}
  BY <1>2, Zenon
<1> QED BY <1>2, <1>8, <1>10, <1>11, QuietStep, Zenon

(* An answer of the user keeps the invariant. *)
LEMMA SendValidationResultStep ==
  ASSUME Constants, Whole, NEW p \in Peer, NEW r \in {"accept", "reject"}, send_validation_result(p, r)
  PROVE  Whole'
<1>0. TypeOK /\ ValidationIsAsked
  BY Zenon DEF Whole
<1>1. /\ to_validate[p] # None /\ to_validate' = [to_validate EXCEPT ![p] = None]
      /\ validations' = [validations EXCEPT ![to_validate[p]] = r]
      /\ UNCHANGED <<sessions, requested, answers, peers, pending_outbound, negotiating, ready, inbound, timers,
                     received, asked, config, tasks, shutdowns, commands, events, handle_peers, owed>>
  BY Zenon DEF send_validation_result, service, handshakes, arrivals
<1>2. /\ to_validate \in [Peer -> InboundId \cup {None}]
      /\ validations \in [InboundId -> {"none", "queued", "held"} \cup Result]
      /\ r \in Result
  BY <1>0, Zenon DEF TypeOK, Result
<1>3. to_validate[p] \in InboundId /\ asked[to_validate[p]] # None
  BY <1>0, <1>1, <1>2, Zenon DEF ValidationIsAsked
<1>4. /\ to_validate' \in [Peer -> InboundId \cup {None}]
      /\ \A q \in Peer : to_validate'[q] \in {None, to_validate[q]}
  BY <1>1, <1>2, Zenon
<1>5. /\ validations' \in [InboundId -> {"none", "queued", "held"} \cup Result]
      /\ \A i \in InboundId : i = to_validate[p] \/ validations'[i] = validations[i]
  BY <1>1, <1>2, Zenon
<1>6. TypeOK'
  BY <1>0, <1>1, <1>4, <1>5, Zenon DEF TypeOK
<1>7. ValidationIsAsked'
  <2>1. UNCHANGED <<asked, inbound, events>>
    BY <1>1, Zenon
  <2> QED BY <1>0, <1>3, <1>4, <1>5, <2>1, Zenon DEF ValidationIsAsked
<1>8. \A s \in SubstreamId : pending_outbound'[s] \in {None, pending_outbound[s]}
  BY <1>1, Zenon
<1> QED BY <1>1, <1>6, <1>7, <1>8, QuietStep, Zenon

(* A command of the user keeps the invariant. *)
LEMMA SendStep ==
  ASSUME Constants, Whole, NEW p \in Peer, NEW k \in {"open", "close"}, Send(k, p)
  PROVE  Whole'
<1>0. TypeOK /\ ValidationIsAsked
  BY Zenon DEF Whole
<1>1. /\ commands' = Append(commands, [kind |-> k, peer |-> p])
      /\ UNCHANGED <<sessions, requested, answers, peers, pending_outbound, negotiating, ready, inbound, timers,
                     validations, received, asked, config, tasks, shutdowns, events, handle_peers, to_validate, owed>>
  BY Zenon DEF Send, service, handshakes, arrivals
<1>2. commands' \in Seq([kind : {"open", "close"}, peer : Peer])
  <2>1. [kind |-> k, peer |-> p] \in [kind : {"open", "close"}, peer : Peer]
    OBVIOUS
  <2>2. commands \in Seq([kind : {"open", "close"}, peer : Peer])
    BY <1>0, Zenon DEF TypeOK
  <2> QED BY <1>1, <2>1, <2>2, Appended, Zenon
<1>3. TypeOK'
  BY <1>0, <1>1, <1>2, Zenon DEF TypeOK
<1>4. ValidationIsAsked'
  BY <1>0, <1>1, AskedKept, Zenon
<1>5. \A s \in SubstreamId : pending_outbound'[s] \in {None, pending_outbound[s]}
  BY <1>1, Zenon
<1> QED BY <1>1, <1>3, <1>4, <1>5, QuietStep, Zenon

-----------------------------------------------------------------------------
(* The task of an open stream *)

(* A report of this kind, on the substream id, is added to the events. *)
Reported(kind, id) ==
  /\ events' \in Seq(Event)
  /\ \A k \in 1 .. Len(events') :
       \/ k \in 1 .. Len(events) /\ events'[k] = events[k]
       \/ events'[k].kind = kind /\ events'[k].id = id

(* A report to the user is one event more, of its type. *)
LEMMA ReportEffect ==
  ASSUME TypeOK, NEW kind \in {"validate", "opened", "closed"}, NEW p \in Peer, NEW id \in Ids,
         Report(kind, p, id)
  PROVE  Reported(kind, id)
<1>1. PICK x : x = [kind |-> kind, peer |-> p, id |-> id]
  BY Zenon
<1>2. x \in Event /\ x.kind = kind /\ x.id = id
  BY <1>1, Zenon DEF Event
<1>3. events \in Seq(Event) /\ events' = Append(events, x)
  BY <1>1, Zenon DEF TypeOK, Event, Report
<1>4. events' \in Seq(Event) /\ Grows(events, events', x)
  BY <1>2, <1>3, Appended, Zenon
<1> QED BY <1>2, <1>4, Zenon DEF Grows, Reported

(* The events report no more substreams to be validated than before. *)
LEMMA AskedReported ==
  ASSUME ValidationIsAsked, UNCHANGED <<asked, to_validate>>,
         \A i \in InboundId : validations'[i] # "none" => validations[i] # "none" \/ asked[i] # None,
         \A p \in Peer : inbound'[p] \in {None, inbound[p]},
         \A k \in 1 .. Len(events') :
           \/ k \in 1 .. Len(events) /\ events'[k] = events[k]
           \/ events'[k].kind # "validate"
           \/ events'[k].id \in InboundId /\ asked[events'[k].id] # None
  PROVE  ValidationIsAsked'
<1>1. \A k \in 1 .. Len(events') : events'[k].kind = "validate" =>
        events'[k].id \in InboundId /\ asked[events'[k].id] # None
  BY Zenon DEF ValidationIsAsked
<1>2. \A p \in Peer : /\ inbound'[p] # None => asked[inbound'[p]] # None
                      /\ to_validate[p] # None => asked[to_validate[p]] # None
  BY Zenon DEF ValidationIsAsked
<1>3. \A i \in InboundId : validations'[i] # "none" => asked[i] # None
  BY Zenon DEF ValidationIsAsked
<1> QED BY <1>1, <1>2, <1>3, Zenon DEF ValidationIsAsked

(* What the invariant says of the peer p and its state c: its type, ... *)
LEMMA PeerTypes ==
  ASSUME Constants, Whole, NEW p \in Peer, NEW c, c = peers[p]
  PROVE  /\ c \in PeerState /\ c.kind \in Variant /\ c.inbound \in InboundState
         /\ c.outbound \in OutboundState /\ c.substream \in SubstreamId \cup {None}
         /\ c.connected \in BOOLEAN
         /\ sessions[p] \in {0, 1} /\ inbound[p] \in InboundId \cup {None}
<1>1. PeerInv(p)
  BY Zenon DEF Whole, PeersAgree
<1>2. c \in PeerState
  BY <1>1, Zenon DEF PeerInv, Agrees
<1>3. /\ c.kind \in Variant /\ c.inbound \in InboundState
      /\ c.outbound \in OutboundState /\ c.substream \in SubstreamId \cup {None}
      /\ c.connected \in BOOLEAN
  BY <1>2, Zenon DEF PeerState
<1>4. sessions[p] \in {0, 1} /\ inbound[p] \in InboundId \cup {None}
  BY Zenon DEF Whole, TypeOK
<1> QED BY <1>2, <1>3, <1>4, Zenon

(* What a task leaves alone. *)
TaskFrame ==
  UNCHANGED <<sessions, requested, answers, peers, pending_outbound, negotiating, ready, inbound, timers,
              validations, received, asked, config, commands, handle_peers, to_validate, owed>>

(* The steps of a stream's task keep the invariant. *)
LEMMA TaskSteps ==
  ASSUME Constants, Whole
  PROVE  \A s \in SubstreamId : TaskStep(s) => Whole'
<1>TaskKept.
  ASSUME TaskFrame, ValidationIsAsked', ShutdownIsOpen',
         tasks' \in [SubstreamId -> {"none", "running", "closing", "reporting"}],
         shutdowns' \in Seq(Peer), events' \in Seq(Event)
  PROVE  Whole'
  <2> USE <1>TaskKept
  <2>0. TypeOK /\ PeersAgree /\ RequestsExpected
    BY Zenon DEF Whole
  <2>1. TypeOK'
    BY <2>0, Zenon DEF TypeOK, TaskFrame, Event
  <2>2. UNCHANGED <<sessions, requested, answers, peers, pending_outbound, negotiating, inbound, config, owed>>
    BY Zenon DEF TaskFrame
  <2>3. ASSUME NEW p \in Peer PROVE PeerInv(p)' /\ OwedInv(p)'
    <3>1. PeerInv(p) /\ OwedInv(p)
      BY <2>0, Zenon DEF PeersAgree
    <3> QED BY <2>2, <3>1, Zenon DEF PeerInv, OwedInv
  <2>4. ASSUME NEW s \in SubstreamId PROVE RequestInv(s)'
    <3>1. RequestInv(s)
      BY <2>0, Zenon DEF RequestsExpected
    <3> QED BY <2>2, <3>1, Zenon DEF RequestInv
  <2> QED BY <2>1, <2>3, <2>4, Zenon DEF Whole, PeersAgree, RequestsExpected
(* A task goes on, and says nothing to the protocol. *)
<1>TaskGoesOn.
  ASSUME TypeOK, ShutdownIsOpen, NEW s \in SubstreamId, NEW t \in {"none", "closing", "reporting"},
         tasks' = [tasks EXCEPT ![s] = t], UNCHANGED <<peers, requested, shutdowns>>, tasks[s] # "none",
         t = "closing" => tasks[s] = "running" /\ peers[requested[s]] = Open(s)
  PROVE  /\ ShutdownIsOpen' /\ tasks' \in [SubstreamId -> {"none", "running", "closing", "reporting"}]
         /\ shutdowns' \in Seq(Peer)
  <2> USE <1>TaskGoesOn
  <2>1. /\ tasks' \in [SubstreamId -> {"none", "running", "closing", "reporting"}] /\ tasks'[s] = t
        /\ \A u \in SubstreamId : u # s => tasks'[u] = tasks[u]
    <3>1. tasks \in [SubstreamId -> {"none", "running", "closing", "reporting"}]
      BY Zenon DEF TypeOK
    <3> QED BY <3>1, Zenon
  <2>2. \A k \in 1 .. Len(shutdowns) :
          /\ peers[shutdowns[k]].kind = "open" /\ tasks[peers[shutdowns[k]].substream] # "running"
          /\ \A j \in 1 .. Len(shutdowns) : shutdowns[j] = shutdowns[k] => j = k
    BY Zenon DEF ShutdownIsOpen
  <2>3. ASSUME NEW u \in SubstreamId
        PROVE  /\ tasks'[u] # "none" => requested[u] # None
               /\ tasks'[u] = "closing" =>
                    peers[requested[u]] = Open(u) /\ \A k \in 1 .. Len(shutdowns) : shutdowns[k] # requested[u]
    <3>1. /\ tasks[u] # "none" => requested[u] # None
          /\ tasks[u] = "closing" =>
               peers[requested[u]] = Open(u) /\ \A k \in 1 .. Len(shutdowns) : shutdowns[k] # requested[u]
      BY Zenon DEF ShutdownIsOpen
    <3>2. CASE u # s
      BY <2>1, <3>1, <3>2, Zenon
    <3>3. CASE u = s
      <4>1. requested[u] # None
        BY <3>1, <3>3, Zenon
      <4>2. ASSUME t = "closing", NEW k \in 1 .. Len(shutdowns), shutdowns[k] = requested[s] PROVE FALSE
        <5>1. tasks[s] = "running" /\ Open(s).substream = s
          BY <4>2, OpenFields, Zenon
        <5>2. tasks[peers[requested[s]].substream] # "running"
          BY <2>2, <4>2, Zenon
        <5>3. peers[requested[s]] = Open(s)
          BY <4>2, Zenon
        <5> QED BY <5>1, <5>2, <5>3, Zenon
      <4>3. t = "closing" => peers[requested[s]] = Open(s)
        BY Zenon
      <4> QED BY <2>1, <3>3, <4>1, <4>2, <4>3, Zenon
    <3> QED BY <3>2, <3>3, Zenon
  <2>4. ASSUME NEW k \in 1 .. Len(shutdowns) PROVE tasks'[peers[shutdowns[k]].substream] # "running"
    <3>1. PICK q : q = shutdowns[k]
      BY Zenon
    <3>2. peers[q].kind = "open" /\ tasks[peers[q].substream] # "running"
      BY <2>2, <3>1, Zenon
    <3>3. peers[q].substream \in SubstreamId
      <4>1. q \in Peer
        <5>1. shutdowns \in Seq(Peer)
          BY Zenon DEF TypeOK
        <5> QED BY <3>1, <5>1
      <4>2. PICK c : c = peers[q]
        BY Zenon
      <4>3. c \in PeerState /\ c.substream # None
        BY <3>2, <4>1, <4>2, Zenon DEF TypeOK
      <4>4. c.substream \in SubstreamId
        BY <4>3, Zenon DEF PeerState
      <4> QED BY <4>2, <4>4, Zenon
    <3>4. t # "running"
      BY Zenon
    <3> QED BY <2>1, <3>1, <3>2, <3>3, <3>4, Zenon
  <2>5. ShutdownIsOpen'
    BY <2>2, <2>3, <2>4, ZenonT(30) DEF ShutdownIsOpen
  <2>6. shutdowns' \in Seq(Peer)
    BY Zenon DEF TypeOK
  <2> QED BY <2>1, <2>5, <2>6, Zenon
<1>1.
  ASSUME NEW s \in SubstreamId, StreamEnds(s) \/ StreamShutdown(s)
  PROVE  Whole'
  <2> USE <1>1
  <2>0. TypeOK /\ ValidationIsAsked /\ ShutdownIsOpen
    BY Zenon DEF Whole
  <2>1. TaskFrame /\ UNCHANGED <<shutdowns, events>>
    BY Zenon DEF StreamEnds, StreamShutdown, TaskFrame, service, handshakes, arrivals, user
  <2>2. PICK t \in {"closing", "reporting"} :
          /\ tasks' = [tasks EXCEPT ![s] = t] /\ tasks[s] = "running"
          /\ t = "closing" => peers[requested[s]] = Open(s)
    BY Zenon DEF StreamEnds, StreamShutdown, Signalled
  <2>3. t \in {"none", "closing", "reporting"} /\ tasks[s] # "none" /\ UNCHANGED <<peers, requested>>
    BY <2>1, <2>2, Zenon DEF TaskFrame
  <2>4. /\ ShutdownIsOpen' /\ tasks' \in [SubstreamId -> {"none", "running", "closing", "reporting"}]
        /\ shutdowns' \in Seq(Peer)
    BY <2>0, <2>1, <2>2, <2>3, <1>TaskGoesOn, Zenon
  <2>5. ValidationIsAsked' /\ events' \in Seq(Event)
    BY <2>0, <2>1, AskedKept, Zenon DEF TaskFrame, TypeOK, Event
  <2> QED BY <2>1, <2>4, <2>5, <1>TaskKept, Zenon
<1>2.
  ASSUME NEW s \in SubstreamId, ReportClosed(s)
  PROVE  Whole'
  <2> USE <1>2
  <2>0. TypeOK /\ ValidationIsAsked /\ ShutdownIsOpen
    BY Zenon DEF Whole
  <2>1. TaskFrame /\ UNCHANGED shutdowns /\ Report("closed", requested[s], s)
        /\ tasks[s] = "reporting" /\ tasks' = [tasks EXCEPT ![s] = "none"]
    BY Zenon DEF ReportClosed, TaskFrame, service, handshakes, arrivals
  <2>2. "none" \in {"none", "closing", "reporting"} /\ "none" # "closing" /\ tasks[s] # "none"
        /\ UNCHANGED <<peers, requested>>
    BY <2>1, Zenon DEF TaskFrame
  <2>3. /\ ShutdownIsOpen' /\ tasks' \in [SubstreamId -> {"none", "running", "closing", "reporting"}]
        /\ shutdowns' \in Seq(Peer)
    BY <2>0, <2>1, <2>2, <1>TaskGoesOn, Zenon
  <2>4. PICK p : p = requested[s]
    BY Zenon
  <2>5. p \in Peer
    <3>1. p # None
      BY <2>0, <2>2, <2>4, Zenon DEF ShutdownIsOpen
    <3> QED BY <2>0, <2>4, <3>1, Zenon DEF TypeOK
  <2>6. Reported("closed", s)
    <3>1. "closed" \in {"validate", "opened", "closed"} /\ s \in Ids /\ Report("closed", p, s)
      BY <2>1, <2>4, Zenon DEF Ids
    <3> QED BY <2>0, <2>5, <3>1, ReportEffect, Zenon
  <2>7. ValidationIsAsked'
    <3>1. \A k \in 1 .. Len(events') : \/ k \in 1 .. Len(events) /\ events'[k] = events[k]
                                       \/ events'[k].kind # "validate"
      BY <2>6, Zenon DEF Reported
    <3>2. UNCHANGED <<validations, inbound, asked, to_validate>>
      BY <2>1, Zenon DEF TaskFrame
    <3> QED BY <2>0, <3>1, <3>2, AskedReported, Zenon
  <2> QED BY <2>1, <2>3, <2>6, <2>7, <1>TaskKept, Zenon DEF Reported
<1>3.
  ASSUME NEW s \in SubstreamId, NotifyProtocol(s)
  PROVE  Whole'
  <2> USE <1>3
  <2>0. TypeOK /\ ValidationIsAsked /\ ShutdownIsOpen
    BY Zenon DEF Whole
  <2>1. TaskFrame /\ UNCHANGED events /\ shutdowns' = Append(shutdowns, requested[s])
        /\ tasks[s] = "closing" /\ tasks' = [tasks EXCEPT ![s] = "reporting"]
    BY Zenon DEF NotifyProtocol, TaskFrame, service, handshakes, arrivals, user
  <2>2. PICK p : p = requested[s]
    BY Zenon
  <2>3. /\ peers[p] = Open(s) /\ p # None /\ \A k \in 1 .. Len(shutdowns) : shutdowns[k] # p
        /\ Open(s).kind = "open" /\ Open(s).substream = s
    <3>1. "closing" # "none"
      BY Zenon
    <3> QED BY <2>0, <2>1, <2>2, <3>1, OpenFields, Zenon DEF ShutdownIsOpen
  <2>4. p \in Peer
    BY <2>0, <2>2, <2>3, Zenon DEF TypeOK
  <2>5. /\ tasks' \in [SubstreamId -> {"none", "running", "closing", "reporting"}] /\ tasks'[s] = "reporting"
        /\ \A u \in SubstreamId : u # s => tasks'[u] = tasks[u]
    <3>1. tasks \in [SubstreamId -> {"none", "running", "closing", "reporting"}]
      BY <2>0, Zenon DEF TypeOK
    <3> QED BY <2>1, <3>1, Zenon
  <2>6. /\ shutdowns' \in Seq(Peer)
        /\ \A k \in 1 .. Len(shutdowns') : (k \in 1 .. Len(shutdowns) /\ shutdowns'[k] = shutdowns[k])
                                           \/ (k = Len(shutdowns) + 1 /\ shutdowns'[k] = p)
    <3>1. shutdowns \in Seq(Peer)
      BY <2>0, Zenon DEF TypeOK
    <3>2. ASSUME NEW S, NEW q \in Seq(S), NEW x \in S
          PROVE  /\ Append(q, x) \in Seq(S)
                 /\ \A k \in 1 .. Len(Append(q, x)) : (k \in 1 .. Len(q) /\ Append(q, x)[k] = q[k])
                                                      \/ (k = Len(q) + 1 /\ Append(q, x)[k] = x)
      BY <3>2
    <3> QED BY <2>1, <2>2, <2>4, <3>1, <3>2, Zenon
  <2>7. UNCHANGED <<peers, requested>>
    BY <2>1, Zenon DEF TaskFrame
  <2>8. ASSUME NEW u \in SubstreamId
        PROVE  /\ tasks'[u] # "none" => requested[u] # None
               /\ tasks'[u] = "closing" =>
                    peers[requested[u]] = Open(u) /\ \A k \in 1 .. Len(shutdowns') : shutdowns'[k] # requested[u]
    <3>1. CASE u = s
      BY <2>2, <2>3, <2>5, <3>1, Zenon
    <3>2. CASE u # s
      <4>1. /\ tasks[u] # "none" => requested[u] # None
            /\ tasks[u] = "closing" =>
                 peers[requested[u]] = Open(u) /\ \A k \in 1 .. Len(shutdowns) : shutdowns[k] # requested[u]
        BY <2>0, Zenon DEF ShutdownIsOpen
      <4>2. Open(u).substream = u
        BY OpenFields, Zenon
      <4>3. tasks[u] = "closing" => requested[u] # p
        BY <2>3, <3>2, <4>1, <4>2, Zenon
      <4>4. tasks'[u] = tasks[u]
        BY <2>5, <3>2, Zenon
      <4> QED BY <2>6, <4>1, <4>3, <4>4, Zenon
    <3> QED BY <3>1, <3>2, Zenon
  <2>9. ASSUME NEW k \in 1 .. Len(shutdowns')
        PROVE  /\ peers[shutdowns'[k]].kind = "open" /\ tasks'[peers[shutdowns'[k]].substream] # "running"
               /\ \A j \in 1 .. Len(shutdowns') : shutdowns'[j] = shutdowns'[k] => j = k
    <3>1. CASE k \in 1 .. Len(shutdowns) /\ shutdowns'[k] = shutdowns[k]
      <4>1. PICK q : q = shutdowns[k]
        BY Zenon
      <4>2. /\ peers[q].kind = "open" /\ tasks[peers[q].substream] # "running"
            /\ \A j \in 1 .. Len(shutdowns) : shutdowns[j] = q => j = k
        BY <2>0, <3>1, <4>1, Zenon DEF ShutdownIsOpen
      <4>3. peers[q].substream \in SubstreamId
        <5>1. q \in Peer
          <6>1. shutdowns \in Seq(Peer)
            BY <2>0, Zenon DEF TypeOK
          <6> QED BY <3>1, <4>1, <6>1
        <5>2. PICK c : c = peers[q]
          BY Zenon
        <5>3. c.substream \in SubstreamId \cup {None}
          BY <5>1, <5>2, PeerTypes, Zenon
        <5>4. c.substream # None
          BY <2>0, <4>2, <5>1, <5>2, Zenon DEF TypeOK
        <5> QED BY <5>2, <5>3, <5>4, Zenon
      <4>4. tasks'[peers[q].substream] # "running"
        BY <2>5, <4>2, <4>3, Zenon
      <4>5. \A j \in 1 .. Len(shutdowns') : shutdowns'[j] = q => j = k
        BY <2>3, <2>6, <3>1, <4>1, <4>2, Zenon
      <4> QED BY <3>1, <4>1, <4>2, <4>4, <4>5, Zenon
    <3>2. CASE k = Len(shutdowns) + 1 /\ shutdowns'[k] = p
      <4>1. peers[p].kind = "open" /\ tasks'[peers[p].substream] # "running"
        BY <2>3, <2>5, Zenon
      <4>2. \A j \in 1 .. Len(shutdowns') : shutdowns'[j] = p => j = k
        BY <2>3, <2>6, <3>2, Zenon
      <4> QED BY <3>2, <4>1, <4>2, Zenon
    <3> QED BY <2>6, <3>1, <3>2, Zenon
  <2>10. ShutdownIsOpen'
    BY <2>7, <2>8, <2>9, Zenon DEF ShutdownIsOpen
  <2>11. ValidationIsAsked' /\ events' \in Seq(Event)
    BY <2>0, <2>1, AskedKept, Zenon DEF TaskFrame, TypeOK, Event
  <2> QED BY <2>1, <2>5, <2>6, <2>10, <2>11, <1>TaskKept, Zenon
<1> QED BY <1>1, <1>2, <1>3, Zenon DEF TaskStep

-----------------------------------------------------------------------------
(* The states *)

(* The fields of a state that has nothing but its variant. *)
LEMMA StateFields ==
  ASSUME NEW k
  PROVE  /\ State(k).kind = k /\ State(k).inbound = "closed" /\ State(k).outbound = "closed"
         /\ State(k).substream = None /\ State(k).connected = FALSE
BY Zenon DEF State

(* The fields of PeerState::Closed. *)
LEMMA ClosedFields ==
  ASSUME NEW s
  PROVE  /\ Closed(s).kind = "closed" /\ Closed(s).substream = s
         /\ Closed(s).inbound = "closed" /\ Closed(s).outbound = "closed"
BY Zenon DEF State, Closed

(* The fields of PeerState::OutboundInitiated. *)
LEMMA InitiatedFields ==
  ASSUME NEW s
  PROVE  /\ OutboundInitiated(s).kind = "initiated" /\ OutboundInitiated(s).substream = s
         /\ OutboundInitiated(s).inbound = "closed" /\ OutboundInitiated(s).outbound = "closed"
BY Zenon DEF State, OutboundInitiated

(* The fields of PeerState::ValidationPending. *)
LEMMA PendingFields ==
  ASSUME NEW b
  PROVE  /\ ValidationPending(b).kind = "pending" /\ ValidationPending(b).substream = None
         /\ ValidationPending(b).inbound = "closed" /\ ValidationPending(b).outbound = "closed"
         /\ ValidationPending(b).connected = b
BY Zenon DEF State, ValidationPending

(* The fields of PeerState::Validating. *)
LEMMA ValidatingFields ==
  ASSUME NEW in, NEW out, NEW s
  PROVE  /\ Validating(in, out, s).kind = "validating" /\ Validating(in, out, s).substream = s
         /\ Validating(in, out, s).inbound = in /\ Validating(in, out, s).outbound = out
BY Zenon DEF State, Validating

(* The states that the handlers make have their type. *)
LEMMA StateTypes ==
  /\ Absent \in PeerState /\ Dialing \in PeerState
  /\ \A b \in BOOLEAN : ValidationPending(b) \in PeerState
  /\ \A s \in SubstreamId \cup {None} :
       Closed(s) \in PeerState /\ OutboundInitiated(s) \in PeerState /\ Open(s) \in PeerState
  /\ \A s \in SubstreamId \cup {None}, in \in InboundState, out \in OutboundState :
       Validating(in, out, s) \in PeerState
<1>1. /\ \A k \in {"absent", "dialing", "closed", "initiated", "pending", "validating", "open"} :
           k \in Variant
      /\ "closed" \in InboundState /\ "closed" \in OutboundState
  BY Zenon DEF Variant, InboundState, OutboundState
<1>2. ASSUME NEW k \in Variant PROVE State(k) \in PeerState
  BY <1>1, Zenon DEF State, PeerState
<1>3. Absent \in PeerState /\ Dialing \in PeerState
  BY <1>1, <1>2, Zenon DEF Absent, Dialing
<1>4. ASSUME NEW c \in PeerState, NEW b \in BOOLEAN PROVE [c EXCEPT !.connected = b] \in PeerState
  BY Zenon DEF PeerState
<1>5. ASSUME NEW c \in PeerState, NEW s \in SubstreamId \cup {None}
      PROVE  [c EXCEPT !.substream = s] \in PeerState
  BY Zenon DEF PeerState
<1>6. ASSUME NEW c \in PeerState, NEW s \in SubstreamId \cup {None},
             NEW in \in InboundState, NEW out \in OutboundState
      PROVE  [c EXCEPT !.inbound = in, !.outbound = out, !.substream = s] \in PeerState
  BY Zenon DEF PeerState
<1>7. ASSUME NEW b \in BOOLEAN PROVE ValidationPending(b) \in PeerState
  BY <1>1, <1>2, <1>4, Zenon DEF ValidationPending
<1>8. ASSUME NEW s \in SubstreamId \cup {None}
      PROVE  Closed(s) \in PeerState /\ OutboundInitiated(s) \in PeerState /\ Open(s) \in PeerState
  BY <1>1, <1>2, <1>5, Zenon DEF Closed, OutboundInitiated, Open
<1>9. ASSUME NEW s \in SubstreamId \cup {None}, NEW in \in InboundState, NEW out \in OutboundState
      PROVE  Validating(in, out, s) \in PeerState
  BY <1>1, <1>2, <1>6, Zenon DEF Validating
<1> QED BY <1>3, <1>7, <1>8, <1>9, Zenon

(* Each state agrees with what its variant says. *)
LEMMA SimpleAgrees ==
  ASSUME NEW c \in PeerState, NEW n, NEW i, c.kind \notin {"poisoned", "validating"},
         c.inbound = "closed", c.outbound = "closed",
         c.kind \in {"initiated", "open"} => c.substream # None,
         n = 0 <=> c.kind \in {"absent", "dialing"} \/ (c.kind = "pending" /\ ~c.connected)
  PROVE  Agrees(c, n, None, None, i)
BY Zenon DEF Agrees

(* Without a connection, nothing is negotiated for an absent or a dialed   *)
(* peer.                                                                   *)
LEMMA AbsentAgrees ==
  ASSUME NEW i
  PROVE  Agrees(Absent, 0, None, None, i) /\ Agrees(Dialing, 0, None, None, i)
<1>1. Absent.kind = "absent" /\ Absent.inbound = "closed" /\ Absent.outbound = "closed"
      /\ Dialing.kind = "dialing" /\ Dialing.inbound = "closed" /\ Dialing.outbound = "closed"
  BY StateFields, Zenon DEF Absent, Dialing
<1> QED BY <1>1, SimpleAgrees, StateTypes, Zenon

(* The invariant holds initially. *)
LEMMA InitWhole ==
  ASSUME Constants, Init
  PROVE  Whole
<1>1. /\ sessions = [p \in Peer |-> 0] /\ requested = [s \in SubstreamId |-> None]
      /\ answers = [s \in SubstreamId |-> 0] /\ peers = [p \in Peer |-> Absent]
      /\ config \in [auto_accept : BOOLEAN, should_dial : BOOLEAN]
      /\ pending_outbound = [s \in SubstreamId |-> None]
      /\ negotiating = [k \in Peer \X {Inbound, Outbound} |-> None]
      /\ inbound = [p \in Peer |-> None] /\ ready = <<>> /\ timers = {} /\ received = 0
      /\ validations = [i \in InboundId |-> "none"] /\ asked = [i \in InboundId |-> None]
      /\ tasks = [s \in SubstreamId |-> "none"] /\ shutdowns = <<>> /\ commands = <<>> /\ events = <<>>
      /\ handle_peers = {} /\ to_validate = [p \in Peer |-> None] /\ owed = {}
  BY Zenon DEF Init, Service!Init
<1>2. /\ Absent.kind = "absent" /\ Absent.substream = None /\ Absent \in PeerState
      /\ Absent.inbound = "closed"
  BY StateFields, StateTypes, Zenon DEF Absent
<1>3. 0 \in 0 .. MaxInbound /\ \A S : <<>> \in Seq(S)
  BY DEF Constants
<1>4. TypeOK
  BY <1>1, <1>2, <1>3, Zenon DEF TypeOK, Directions
<1>5. ASSUME NEW p \in Peer PROVE PeerInv(p) /\ OwedInv(p)
  <2>1. negotiating[p, Outbound] = None /\ negotiating[p, Inbound] = None
    BY <1>1, Zenon
  <2>2. peers[p] = Absent /\ sessions[p] = 0
    BY <1>1, Zenon
  <2>3. PeerInv(p)
    BY <1>2, <2>1, <2>2, AbsentAgrees, Zenon DEF PeerInv
  <2> QED BY <1>1, <1>2, <2>2, <2>3, Zenon DEF OwedInv
<1>6. ASSUME NEW s \in SubstreamId PROVE RequestInv(s)
  BY <1>1, Zenon DEF RequestInv
<1>7. \A k \in 1 .. Len(events) : FALSE
  BY <1>1
<1>8. \A k \in 1 .. Len(shutdowns) : FALSE
  BY <1>1
<1>9. ValidationIsAsked
  BY <1>1, <1>7, Zenon DEF ValidationIsAsked
<1>10. ShutdownIsOpen
  <2>1. \A s \in SubstreamId : tasks[s] = "none"
    BY <1>1, Zenon
  <2> QED BY <1>8, <2>1, Zenon DEF ShutdownIsOpen
<1> QED BY <1>4, <1>5, <1>6, <1>9, <1>10, Zenon DEF Whole, PeersAgree, RequestsExpected

(* ValidationPending agrees with a session or the lack of one, as its flag *)
(* says.                                                                   *)
LEMMA PendingAgrees ==
  ASSUME NEW i
  PROVE  /\ Agrees(ValidationPending(TRUE), 1, None, None, i)
         /\ Agrees(ValidationPending(FALSE), 0, None, None, i)
<1>1. 0 # 1
  OBVIOUS
<1>2. Agrees(ValidationPending(TRUE), 1, None, None, i)
  <2> DEFINE c == ValidationPending(TRUE)
  <2>1. c \in PeerState /\ c.kind = "pending" /\ c.inbound = "closed" /\ c.outbound = "closed" /\ c.connected
    BY PendingFields, StateTypes, Zenon
  <2> HIDE DEF c
  <2>2. Agrees(c, 1, None, None, i)
    BY <1>1, <2>1, SimpleAgrees, Zenon
  <2> QED BY <2>2, Zenon DEF c
<1>3. Agrees(ValidationPending(FALSE), 0, None, None, i)
  <2> DEFINE c == ValidationPending(FALSE)
  <2>1. c \in PeerState /\ c.kind = "pending" /\ c.inbound = "closed" /\ c.outbound = "closed" /\ ~c.connected
    BY PendingFields, StateTypes, Zenon
  <2> HIDE DEF c
  <2>2. Agrees(c, 0, None, None, i)
    BY <2>1, SimpleAgrees, Zenon
  <2> QED BY <2>2, Zenon DEF c
<1> QED BY <1>2, <1>3, Zenon

(* Closed agrees with a session in which nothing is negotiated. *)
LEMMA ClosedAgrees ==
  ASSUME NEW i, NEW s \in SubstreamId \cup {None}
  PROVE  Agrees(Closed(s), 1, None, None, i)
<1>1. 0 # 1
  OBVIOUS
<1>2. Closed(s) \in PeerState /\ Closed(s).kind = "closed" /\ Closed(s).inbound = "closed"
      /\ Closed(s).outbound = "closed"
  BY ClosedFields, StateTypes, Zenon
<1> QED BY <1>1, <1>2, SimpleAgrees, Zenon

(* ... and so does OutboundInitiated, with a substream. *)
LEMMA InitiatedAgrees ==
  ASSUME NEW i, NEW s \in SubstreamId, s # None
  PROVE  Agrees(OutboundInitiated(s), 1, None, None, i)
<1>1. 0 # 1
  OBVIOUS
<1> DEFINE c == OutboundInitiated(s)
<1>2. c \in PeerState /\ c.kind = "initiated" /\ c.inbound = "closed" /\ c.outbound = "closed"
      /\ c.substream = s
  BY InitiatedFields, StateTypes, Zenon
<1> HIDE DEF c
<1>3. Agrees(c, 1, None, None, i)
  BY <1>1, <1>2, SimpleAgrees, Zenon
<1> QED BY <1>3, Zenon DEF c

(* ... and so does Open. *)
LEMMA OpenAgrees ==
  ASSUME NEW i, NEW s \in SubstreamId, s # None
  PROVE  Agrees(Open(s), 1, None, None, i)
<1>1. 0 # 1
  OBVIOUS
<1> DEFINE c == Open(s)
<1>2. c \in PeerState /\ c.kind = "open" /\ c.inbound = "closed" /\ c.outbound = "closed"
      /\ c.substream = s
  BY OpenFields, StateTypes, Zenon
<1> HIDE DEF c
<1>3. Agrees(c, 1, None, None, i)
  BY <1>1, <1>2, SimpleAgrees, Zenon
<1> QED BY <1>3, Zenon DEF c

(* Validating agrees with the handshakes that its two halves wait for. *)
LEMMA ValidatingAgrees ==
  ASSUME NEW i, NEW s \in SubstreamId \cup {None}, NEW o, NEW n,
         NEW in \in InboundState,
         NEW out \in OutboundState,
         out # "closed" => s # None, in # "closed" => i # None,
         o # None <=> out = "negotiating", n # None <=> in \in {"reading", "sending"}
  PROVE  Agrees(Validating(in, out, s), 1, o, n, i)
<1>1. 0 # 1
  OBVIOUS
<1> DEFINE c == Validating(in, out, s)
<1>2. c \in PeerState
  BY StateTypes, Zenon
<1>3. c.kind = "validating" /\ c.inbound = in /\ c.outbound = out /\ c.substream = s
  BY ValidatingFields
<1> HIDE DEF c
<1>4. c.kind # "poisoned" /\ c.kind \notin {"initiated", "open"} /\ c.kind \notin {"absent", "dialing"}
      /\ c.kind # "pending"
  BY <1>3, Zenon
<1>5. Agrees(c, 1, o, n, i)
  BY <1>1, <1>2, <1>3, <1>4, Zenon DEF Agrees
<1> QED BY <1>5, Zenon DEF c

-----------------------------------------------------------------------------
(* Steps that change the state of one peer *)

(* Nothing changes for the peer q. *)
Same(q) ==
  /\ peers'[q] = peers[q] /\ sessions'[q] = sessions[q] /\ inbound'[q] = inbound[q]
  /\ negotiating'[q, Outbound] = negotiating[q, Outbound]
  /\ negotiating'[q, Inbound] = negotiating[q, Inbound]
  /\ q \in owed' => q \in owed

(* The substreams of the peers other than p keep their requests, and none  *)
(* of them gets a new one.                                                 *)
RequestsKept(p) ==
  \A s \in SubstreamId :
    /\ requested[s] # None => requested'[s] = requested[s]
    /\ requested'[s] \in {requested[s], p}
    /\ answers'[s] = 0 => answers[s] = 0
    /\ pending_outbound'[s] \in {None, pending_outbound[s], requested'[s]}

(* A step of the handler that concerns the peer p. *)
LEMMA PeerStep ==
  ASSUME Constants, TypeOK, TypeOK', PeersAgree, RequestsExpected, NEW p \in Peer, UNCHANGED config,
         \A q \in Peer : q # p => Same(q),
         RequestsKept(p), PeerInv(p)', OwedInv(p)',
         \A s \in SubstreamId : requested'[s] = p /\ answers'[s] = 0 => Awaits(peers'[p], s)
  PROVE  PeersAgree' /\ RequestsExpected'
<1>1. ASSUME NEW q \in Peer, q # p PROVE PeerInv(q)' /\ OwedInv(q)'
  <2>1. PeerInv(q) /\ OwedInv(q) /\ Same(q)
    BY <1>1, Zenon DEF PeersAgree
  <2>2. peers[q].substream \in SubstreamId \cup {None}
    <3>1. peers[q] \in PeerState
      BY <2>1, Zenon DEF PeerInv, Agrees
    <3> QED BY <3>1, Zenon DEF PeerState
  <2>3. peers[q].substream # None => requested'[peers[q].substream] = q
    BY <2>1, <2>2, NoneApart, Zenon DEF PeerInv, RequestsKept
  <2>4. PeerInv(q)'
    BY <2>1, <2>3, Zenon DEF PeerInv, Same
  <2>5. OwedInv(q)'
    BY <2>1, Zenon DEF OwedInv, Same
  <2> QED BY <2>4, <2>5, Zenon
<1>2. ASSUME NEW s \in SubstreamId PROVE RequestInv(s)'
  <2>1. RequestInv(s) /\ requested[s] \in Peer \cup {None} /\ pending_outbound[s] \in {None, requested[s]}
    BY Zenon DEF RequestsExpected, TypeOK, RequestInv
  <2>2. pending_outbound'[s] \in {None, requested'[s]}
    BY <2>1, Zenon DEF RequestsKept
  <2>3. ASSUME requested'[s] # None, answers'[s] = 0 PROVE Awaits(peers'[requested'[s]], s)
    <3>1. CASE requested'[s] = p
      BY <2>3, <3>1, Zenon
    <3>2. CASE requested'[s] # p
      <4>1. requested'[s] = requested[s] /\ answers[s] = 0
        BY <2>3, <3>2, Zenon DEF RequestsKept
      <4>2. requested[s] \in Peer /\ Awaits(peers[requested[s]], s)
        BY <2>1, <2>3, <4>1, Zenon DEF RequestInv
      <4>3. peers'[requested[s]] = peers[requested[s]]
        BY <3>2, <4>1, <4>2, Zenon DEF Same
      <4> QED BY <4>1, <4>2, <4>3, Zenon
    <3> QED BY <3>1, <3>2, Zenon
  <2> QED BY <2>2, <2>3, Zenon DEF RequestInv
<1> QED BY <1>1, <1>2, Zenon DEF PeersAgree, RequestsExpected

(* No message of a task is on its way for a peer whose stream is not open. *)
LEMMA NotOpenSettled ==
  ASSUME ShutdownIsOpen, NEW p \in Peer, peers[p].kind # "open"
  PROVE  Settled(p)
<1>1. ASSUME NEW s \in SubstreamId, requested[s] = p PROVE tasks[s] # "closing"
  <2>1. Open(s).kind = "open"
    BY OpenFields, Zenon
  <2>2. peers[requested[s]] # Open(s)
    BY <1>1, <2>1, Zenon
  <2> QED BY <2>2, Zenon DEF ShutdownIsOpen
<1>2. \A k \in 1 .. Len(shutdowns) : shutdowns[k] # p
  BY Zenon DEF ShutdownIsOpen
<1> QED BY <1>1, <1>2, Zenon DEF Settled

(* ... nor for a peer whose task has said that it ended, once that is      *)
(* handled.                                                                *)
LEMMA PromptSettled ==
  ASSUME LateShutdown = FALSE, NEW p \in Peer, Prompt(p), Quiet
  PROVE  Settled(p)
<1>1. \A k \in 1 .. Len(shutdowns) : FALSE
  BY DEF Quiet
<1> QED BY <1>1, Zenon DEF Prompt, Settled

(* ... what it agrees with, ... *)
LEMMA PeerAgrees ==
  ASSUME Whole, NEW p \in Peer, NEW c, c = peers[p]
  PROVE  /\ Agrees(c, sessions[p], negotiating[p, Outbound], negotiating[p, Inbound], inbound[p])
         /\ c.substream # None => requested[c.substream] = p
BY Zenon DEF Whole, PeersAgree, PeerInv

(* ... what the user waits for, ... *)
LEMMA PeerOwes ==
  ASSUME Whole, NEW p \in Peer, NEW c, c = peers[p], config.auto_accept
  PROVE  /\ p \in owed => Owing(c)
         /\ c.inbound = "validating" => c.outbound = "closed"
BY Zenon DEF Whole, PeersAgree, OwedInv

(* ... and the substreams that are being opened for it. *)
LEMMA PeerAwaits ==
  ASSUME Constants, Whole, NEW p \in Peer, NEW c, c = peers[p],
         NEW s \in SubstreamId, requested[s] = p, answers[s] = 0
  PROVE  Awaits(c, s)
BY NoneApart, Zenon DEF Whole, RequestsExpected, RequestInv

(* The peer p gets the state d. *)
LEMMA NewState ==
  ASSUME TypeOK, NEW p \in Peer, NEW d, NEW n, NEW o, NEW m, NEW i, Agrees(d, n, o, m, i), Become(p, d)
  PROVE  /\ peers' \in [Peer -> PeerState] /\ peers'[p] = d
         /\ \A q \in Peer : q # p => peers'[q] = peers[q]
         /\ \A q \in Peer : peers'[q].kind \in {"initiated", "open"} => peers'[q].substream # None
<1>1. d \in PeerState /\ (d.kind \in {"initiated", "open"} => d.substream # None)
  BY Zenon DEF Agrees
<1>2. /\ peers' \in [Peer -> PeerState] /\ peers'[p] = d
      /\ \A q \in Peer : q # p => peers'[q] = peers[q]
  <2>1. peers \in [Peer -> PeerState]
    BY Zenon DEF TypeOK
  <2> QED BY <1>1, <2>1, Zenon DEF Become
<1>3. \A q \in Peer : peers[q].kind \in {"initiated", "open"} => peers[q].substream # None
  BY Zenon DEF TypeOK
<1> QED BY <1>1, <1>2, <1>3, Zenon

(* Nothing changes for the peers other than p but their states. *)
Others(p) ==
  \A q \in Peer : q # p =>
    /\ sessions'[q] = sessions[q] /\ inbound'[q] = inbound[q]
    /\ negotiating'[q, Outbound] = negotiating[q, Outbound]
    /\ negotiating'[q, Inbound] = negotiating[q, Inbound]
    /\ q \in owed' => q \in owed

(* After the step, the invariant of the peer p is that of the state d. *)
Fits(p, d) ==
  /\ Agrees(d, sessions'[p], negotiating'[p, Outbound], negotiating'[p, Inbound], inbound'[p])
  /\ d.substream # None => requested'[d.substream] = p
  /\ \A s \in SubstreamId : requested'[s] = p /\ answers'[s] = 0 => Awaits(d, s)

Owes(p, d) ==
  config.auto_accept =>
    (p \in owed' => Owing(d)) /\ (d.inbound = "validating" => d.outbound = "closed")

(* A step in which a handler gives the peer p the state d ... *)
LEMMA StateStep ==
  ASSUME Constants, Whole, TypeOK', NEW p \in Peer, NEW d, Become(p, d), Others(p),
         UNCHANGED config, RequestsKept(p), Fits(p, d), Owes(p, d)
  PROVE  /\ PeersAgree' /\ RequestsExpected' /\ peers'[p] = d
         /\ \A q \in Peer : q # p => peers'[q] = peers[q]
<1>0. TypeOK /\ PeersAgree /\ RequestsExpected
  BY Zenon DEF Whole
<1>1. peers'[p] = d /\ \A q \in Peer : q # p => peers'[q] = peers[q]
  BY <1>0, NewState, Zenon DEF Fits
<1>2. \A q \in Peer : q # p => Same(q)
  BY <1>1, Zenon DEF Same, Others
<1>3. /\ PeerInv(p)' /\ OwedInv(p)'
      /\ \A s \in SubstreamId : requested'[s] = p /\ answers'[s] = 0 => Awaits(peers'[p], s)
  BY <1>1, Zenon DEF PeerInv, OwedInv, Fits, Owes
<1>4. PeersAgree' /\ RequestsExpected'
  BY <1>0, <1>2, <1>3, PeerStep, Zenon
<1> QED BY <1>1, <1>4, Zenon

(* ... and opens no stream. *)
LEMMA HandlerStep ==
  ASSUME Constants, Whole, TypeOK', NEW p \in Peer, NEW d, Become(p, d), Settled(p), Others(p),
         UNCHANGED <<config, tasks, shutdowns>>, ValidationIsAsked', RequestsKept(p),
         Fits(p, d), Owes(p, d)
  PROVE  Whole'
<1>0. TypeOK /\ ShutdownIsOpen
  BY Zenon DEF Whole
<1>1. /\ PeersAgree' /\ RequestsExpected'
      /\ \A q \in Peer : q # p => peers'[q] = peers[q]
  BY StateStep, Zenon
<1>2. \A s \in SubstreamId : requested[s] # None => requested'[s] = requested[s]
  BY Zenon DEF RequestsKept
<1>3. \A q \in Peer : Settled(q) \/ peers'[q] = peers[q]
  BY <1>1, Zenon
<1>4. ShutdownIsOpen'
  BY <1>0, <1>2, <1>3, ShutdownKept, Zenon
<1> QED BY <1>1, <1>4, Zenon DEF Whole

(* A peer that the user does not wait for. *)
LEMMA NotOwed ==
  ASSUME Whole, NEW p \in Peer, ~Owing(peers[p]), config.auto_accept
  PROVE  p \notin owed
BY PeerOwes, Zenon

(* The word of a task that its stream has ended keeps the invariant. *)
LEMMA ShutdownStep ==
  ASSUME Constants, Whole, Shutdown
  PROVE  Whole'
<1>0. TypeOK /\ ValidationIsAsked /\ ShutdownIsOpen
  BY Zenon DEF Whole
<1>1. PICK p : p = Head(shutdowns)
  BY Zenon
<1>2. /\ shutdowns # <<>> /\ shutdowns' = Tail(shutdowns)
      /\ IF peers[p].kind # "absent" THEN Become(p, Closed(None)) ELSE UNCHANGED peers
      /\ UNCHANGED <<sessions, requested, answers, pending_outbound, negotiating, ready, inbound, timers,
                     validations, received, asked, config, tasks, commands, events, handle_peers,
                     to_validate, owed>>
  BY <1>1, Zenon DEF Shutdown, service, handshakes, arrivals, user
<1>3. /\ p \in Peer /\ 1 \in 1 .. Len(shutdowns) /\ p = shutdowns[1] /\ shutdowns' \in Seq(Peer)
      /\ \A k \in 1 .. Len(shutdowns') : k + 1 \in 1 .. Len(shutdowns) /\ shutdowns'[k] = shutdowns[k + 1]
      /\ \A j, k \in 1 .. Len(shutdowns') : j + 1 = k + 1 => j = k
      /\ \A k \in 1 .. Len(shutdowns') : k + 1 # 1
  <2>1. shutdowns \in Seq(Peer)
    BY <1>0, Zenon DEF TypeOK
  <2>2. ASSUME NEW S, NEW q \in Seq(S), q # <<>>
        PROVE  /\ Head(q) \in S /\ 1 \in 1 .. Len(q) /\ Head(q) = q[1] /\ Tail(q) \in Seq(S)
               /\ \A k \in 1 .. Len(Tail(q)) : k + 1 \in 1 .. Len(q) /\ Tail(q)[k] = q[k + 1]
               /\ \A j, k \in 1 .. Len(Tail(q)) : j + 1 = k + 1 => j = k
               /\ \A k \in 1 .. Len(Tail(q)) : k + 1 # 1
    BY <2>2
  <2> QED BY <1>1, <1>2, <2>1, <2>2, Zenon
<1>4. \A k \in 1 .. Len(shutdowns) :
        /\ peers[shutdowns[k]].kind = "open" /\ tasks[peers[shutdowns[k]].substream] # "running"
        /\ \A j \in 1 .. Len(shutdowns) : shutdowns[j] = shutdowns[k] => j = k
  BY <1>0, Zenon DEF ShutdownIsOpen
<1>5. PICK c : c = peers[p]
  BY Zenon
<1>6. c.kind = "open" /\ Become(p, Closed(None))
  <2>1. c.kind = "open"
    BY <1>3, <1>4, <1>5, Zenon
  <2> QED BY <1>2, <1>5, <2>1, Zenon
<1>7. PICK d : d = Closed(None) /\ Become(p, d)
  BY <1>6, Zenon
<1>8. d.kind = "closed" /\ d.substream = None /\ d.inbound # "validating"
  BY <1>7, ClosedFields, Zenon
<1>9. /\ Agrees(c, sessions[p], negotiating[p, Outbound], negotiating[p, Inbound], inbound[p])
      /\ sessions[p] \in {0, 1}
  BY <1>3, <1>5, PeerAgrees, PeerTypes, Zenon
<1>10. c.kind \notin {"absent", "dialing", "pending", "validating", "closed", "initiated"}
       /\ "closed" # "initiated"
  BY <1>6, Zenon
<1>11. /\ sessions[p] = 1 /\ negotiating[p, Outbound] = None /\ negotiating[p, Inbound] = None
       /\ c.outbound = "closed"
  BY <1>9, <1>10, Zenon DEF Agrees
<1>12. ~Owing(c) /\ \A s : ~Awaits(c, s)
  BY <1>10, <1>11, Zenon DEF Owing, Awaits
<1>13. Agrees(d, 1, None, None, inbound[p])
  BY <1>7, ClosedAgrees, Zenon
<1>14. Fits(p, d)
  <2>1. \A s \in SubstreamId : ~(requested[s] = p /\ answers[s] = 0)
    BY <1>3, <1>5, <1>12, PeerAwaits, Zenon
  <2> QED BY <1>2, <1>8, <1>11, <1>13, <2>1, Zenon DEF Fits
<1>15. Owes(p, d)
  BY <1>2, <1>3, <1>5, <1>8, <1>12, NotOwed, Zenon DEF Owes
<1>16. Others(p) /\ RequestsKept(p)
  BY <1>2, Zenon DEF Others, RequestsKept
<1>17. TypeOK'
  <2>1. /\ peers' \in [Peer -> PeerState]
        /\ \A q \in Peer : peers'[q].kind \in {"initiated", "open"} => peers'[q].substream # None
    BY <1>0, <1>3, <1>7, <1>13, NewState, Zenon
  <2> QED BY <1>0, <1>2, <1>3, <2>1, Zenon DEF TypeOK
<1>18. PeersAgree' /\ RequestsExpected' /\ \A q \in Peer : q # p => peers'[q] = peers[q]
  BY <1>2, <1>3, <1>7, <1>14, <1>15, <1>16, <1>17, StateStep, Zenon
<1>19. ASSUME NEW u \in SubstreamId
       PROVE  /\ tasks[u] # "none" => requested[u] # None
              /\ tasks[u] = "closing" =>
                   peers'[requested[u]] = Open(u) /\ \A k \in 1 .. Len(shutdowns') : shutdowns'[k] # requested[u]
  <2>1. /\ tasks[u] # "none" => requested[u] # None
        /\ tasks[u] = "closing" =>
             peers[requested[u]] = Open(u) /\ \A k \in 1 .. Len(shutdowns) : shutdowns[k] # requested[u]
    BY <1>0, Zenon DEF ShutdownIsOpen
  <2>2. tasks[u] = "closing" => requested[u] # p
    BY <1>3, <2>1, Zenon
  <2>3. tasks[u] = "closing" => requested[u] \in Peer
    <3>1. requested[u] \in Peer \cup {None} /\ "closing" # "none"
      BY <1>0, Zenon DEF TypeOK
    <3> QED BY <2>1, <3>1, Zenon
  <2> QED BY <1>3, <1>18, <2>1, <2>2, <2>3, ZenonT(30)
<1>20. ASSUME NEW k \in 1 .. Len(shutdowns')
       PROVE  /\ peers'[shutdowns'[k]].kind = "open" /\ tasks[peers'[shutdowns'[k]].substream] # "running"
              /\ \A j \in 1 .. Len(shutdowns') : shutdowns'[j] = shutdowns'[k] => j = k
  <2>1. k + 1 \in 1 .. Len(shutdowns) /\ shutdowns'[k] = shutdowns[k + 1] /\ k + 1 # 1
    BY <1>3, Zenon
  <2>2. PICK q : q = shutdowns'[k]
    BY Zenon
  <2>3. q \in Peer /\ q # p
    <3>1. q \in Peer
      BY <1>3, <2>2
    <3>2. q # p
      BY <1>3, <1>4, <2>1, <2>2, Zenon
    <3> QED BY <3>1, <3>2, Zenon
  <2>4. peers'[q] = peers[q] /\ peers[q].kind = "open" /\ tasks[peers[q].substream] # "running"
    BY <1>4, <1>18, <2>1, <2>2, <2>3, Zenon
  <2>5. ASSUME NEW j \in 1 .. Len(shutdowns'), shutdowns'[j] = shutdowns'[k] PROVE j = k
    <3>1. j + 1 \in 1 .. Len(shutdowns) /\ shutdowns'[j] = shutdowns[j + 1]
      BY <1>3, Zenon
    <3>2. j + 1 = k + 1
      BY <1>4, <2>1, <2>5, <3>1, Zenon
    <3> QED BY <1>3, <3>2, Zenon
  <2> QED BY <2>2, <2>4, <2>5, Zenon
<1>21. ShutdownIsOpen'
  BY <1>2, <1>19, <1>20, Zenon DEF ShutdownIsOpen
<1>22. ValidationIsAsked'
  BY <1>0, <1>2, AskedKept, Zenon
<1> QED BY <1>17, <1>18, <1>21, <1>22, Zenon DEF Whole

-----------------------------------------------------------------------------
(* Connections and dials *)

(* A connection of a peer that was not dialed keeps the invariant. *)
LEMMA ConnectionEstablishedStep ==
  ASSUME Constants, Whole, NEW p \in Peer, ConnectionEstablished(p)
  PROVE  Whole'
<1>0. TypeOK /\ ValidationIsAsked /\ ShutdownIsOpen
  BY Zenon DEF Whole
<1>1. PICK c : c = peers[p]
  BY Zenon
<1>2. PICK d : /\ Become(p, d)
               /\ d = CASE c.kind = "absent" -> Closed(None)
                        [] c.kind = "pending" -> ValidationPending(TRUE)
                        [] OTHER -> Poisoned
  BY <1>1, Zenon DEF ConnectionEstablished
<1>3. /\ sessions[p] = 0 /\ c.kind # "dialing" /\ sessions' = [sessions EXCEPT ![p] = 1]
      /\ UNCHANGED <<requested, answers, pending_outbound, negotiating, ready, inbound, timers,
                     validations, received, asked, config, tasks, shutdowns, commands, events,
                     handle_peers, to_validate, owed>>
  BY <1>1, Zenon DEF ConnectionEstablished, Service!ConnectionEstablished, handshakes, arrivals, user
<1>4. Agrees(c, 0, negotiating[p, Outbound], negotiating[p, Inbound], inbound[p])
  BY <1>1, <1>3, PeerAgrees, Zenon
<1>5. c.kind \in {"absent", "pending"} /\ c.kind # "open"
  BY <1>3, <1>4, Zenon DEF Agrees
<1>6. negotiating[p, Outbound] = None /\ negotiating[p, Inbound] = None
  BY <1>4, <1>5, Zenon DEF Agrees
<1>7. d \in {Closed(None), ValidationPending(TRUE)}
  BY <1>2, <1>5, Zenon
<1>8. Agrees(d, 1, None, None, inbound[p]) /\ d.substream = None /\ d.inbound = "closed"
  <2>1. CASE d = Closed(None)
    BY <2>1, ClosedAgrees, ClosedFields, Zenon
  <2>2. CASE d = ValidationPending(TRUE)
    BY <2>2, PendingAgrees, PendingFields, Zenon
  <2> QED BY <1>7, <2>1, <2>2, Zenon
<1>9. sessions' \in [Peer -> {0, 1}] /\ sessions'[p] = 1 /\ \A q \in Peer : q # p => sessions'[q] = sessions[q]
  BY <1>0, <1>3, Zenon DEF TypeOK
<1>10. TypeOK'
  <2>1. /\ peers' \in [Peer -> PeerState]
        /\ \A q \in Peer : peers'[q].kind \in {"initiated", "open"} => peers'[q].substream # None
    BY <1>0, <1>2, <1>8, NewState, Zenon
  <2> QED BY <1>0, <1>3, <1>9, <2>1, Zenon DEF TypeOK
<1>11. ~Owing(c) /\ \A s : ~Awaits(c, s)
  BY <1>4, <1>5, Zenon DEF Owing, Awaits, Agrees
<1>12. /\ config.auto_accept => p \notin owed
       /\ \A s \in SubstreamId : requested[s] = p => answers[s] # 0
  BY <1>1, <1>11, PeerOwes, PeerAwaits, Zenon
<1>13. ValidationIsAsked' /\ RequestsKept(p)
  BY <1>0, <1>3, AskedKept, Zenon DEF RequestsKept
<1>14. Settled(p) /\ "closed" # "validating"
  BY <1>0, <1>1, <1>5, NotOpenSettled, Zenon
<1>15. Others(p)
  BY <1>3, <1>9, Zenon DEF Others
<1>16. Fits(p, d) /\ Owes(p, d)
  BY <1>3, <1>6, <1>8, <1>9, <1>12, <1>14, Zenon DEF Fits, Owes
<1> QED BY <1>2, <1>3, <1>10, <1>13, <1>14, <1>15, <1>16, HandlerStep, Zenon

(* The peer p, for which no substream is being opened, gets one. *)
LEMMA NewRequest ==
  ASSUME TypeOK, Constants, NEW p \in Peer, NEW s \in SubstreamId, OpenSubstream(p, s), UNCHANGED answers,
         \A u \in SubstreamId : requested[u] = p => answers[u] # 0
  PROVE  /\ RequestsKept(p) /\ requested'[s] = p
         /\ \A u \in SubstreamId : requested'[u] = p /\ answers'[u] = 0 => u = s
         /\ requested' \in [SubstreamId -> Peer \cup {None}]
         /\ pending_outbound' \in [SubstreamId -> Peer \cup {None}]
<1>1. /\ requested' \in [SubstreamId -> Peer \cup {None}]
      /\ pending_outbound' \in [SubstreamId -> Peer \cup {None}]
      /\ requested[s] = None /\ requested'[s] = p /\ pending_outbound'[s] = p
      /\ \A u \in SubstreamId : u # s => /\ requested'[u] = requested[u]
                                         /\ pending_outbound'[u] = pending_outbound[u]
  <2>1. /\ requested \in [SubstreamId -> Peer \cup {None}]
        /\ pending_outbound \in [SubstreamId -> Peer \cup {None}]
    BY Zenon DEF TypeOK
  <2> QED BY <2>1, Zenon DEF OpenSubstream, Unused
<1>2. ASSUME NEW u \in SubstreamId
      PROVE  /\ requested[u] # None => requested'[u] = requested[u]
             /\ requested'[u] \in {requested[u], p}
             /\ answers'[u] = 0 => answers[u] = 0
             /\ pending_outbound'[u] \in {None, pending_outbound[u], requested'[u]}
  BY <1>1, Zenon
<1> QED BY <1>1, <1>2, Zenon DEF RequestsKept

(* A connection of a peer that was dialed, or the failure, keeps the       *)
(* invariant.                                                              *)
LEMMA DialedSteps ==
  ASSUME Constants, Whole
  PROVE  \A p \in Peer : DialedConnectionEstablished(p) \/ DialFailure(p) => Whole'
<1>DialingPeer.
  ASSUME NEW p \in Peer, peers[p].kind = "dialing"
  PROVE  /\ sessions[p] = 0 /\ negotiating[p, Outbound] = None /\ negotiating[p, Inbound] = None
         /\ \A s \in SubstreamId : requested[s] = p => answers[s] # 0
         /\ Settled(p)
  <2> USE <1>DialingPeer
  <2>1. PICK c : c = peers[p]
    BY Zenon
  <2>2. Agrees(c, sessions[p], negotiating[p, Outbound], negotiating[p, Inbound], inbound[p])
    BY <2>1, PeerAgrees, Zenon
  <2>3. /\ sessions[p] = 0 /\ negotiating[p, Outbound] = None /\ negotiating[p, Inbound] = None
        /\ c.outbound = "closed"
    BY <2>1, <2>2, Zenon DEF Agrees
  <2>4. \A s : ~Awaits(c, s)
    BY <2>1, <2>3, Zenon DEF Awaits
  <2>5. Settled(p)
    BY NotOpenSettled, Zenon DEF Whole
  <2> QED BY <2>1, <2>3, <2>4, <2>5, PeerAwaits, Zenon
<1>1.
  ASSUME NEW p \in Peer, DialedConnectionEstablished(p)
  PROVE  Whole'
  <2> USE <1>1
  <2>0. TypeOK /\ ValidationIsAsked
    BY Zenon DEF Whole
  <2>1. /\ peers[p].kind = "dialing" /\ sessions' = [sessions EXCEPT ![p] = 1]
        /\ UNCHANGED <<answers, negotiating, ready, inbound, timers, validations, received, asked,
                       config, tasks, shutdowns, commands, events, handle_peers, to_validate>>
    BY Zenon DEF DialedConnectionEstablished, handshakes, arrivals, user
  <2>2. /\ negotiating[p, Outbound] = None /\ negotiating[p, Inbound] = None
        /\ \A s \in SubstreamId : requested[s] = p => answers[s] # 0
        /\ Settled(p)
    BY <2>1, <1>DialingPeer, Zenon
  <2>3. sessions' \in [Peer -> {0, 1}] /\ sessions'[p] = 1 /\ \A q \in Peer : q # p => sessions'[q] = sessions[q]
    BY <2>0, <2>1, Zenon DEF TypeOK
  <2>4. ValidationIsAsked'
    BY <2>0, <2>1, AskedKept, Zenon
  <2>5. ASSUME NEW s \in SubstreamId, OpenSubstream(p, s), Become(p, OutboundInitiated(s)), UNCHANGED owed
        PROVE  Whole'
    <3>1. PICK d : d = OutboundInitiated(s)
      BY Zenon
    <3>2. d.kind = "initiated" /\ d.substream = s /\ d.inbound = "closed"
      BY <3>1, InitiatedFields, Zenon
    <3>3. Agrees(d, 1, None, None, inbound[p])
      BY <3>1, NoneApart, InitiatedAgrees, Zenon
    <3>4. /\ RequestsKept(p) /\ requested'[s] = p
          /\ \A u \in SubstreamId : requested'[u] = p /\ answers'[u] = 0 => u = s
          /\ requested' \in [SubstreamId -> Peer \cup {None}]
          /\ pending_outbound' \in [SubstreamId -> Peer \cup {None}]
      BY <2>0, <2>1, <2>2, <2>5, NewRequest, Zenon
    <3>5. TypeOK'
      <4>1. /\ peers' \in [Peer -> PeerState]
            /\ \A q \in Peer : peers'[q].kind \in {"initiated", "open"} => peers'[q].substream # None
        BY <2>0, <2>5, <3>1, <3>3, NewState, Zenon
      <4> QED BY <2>0, <2>1, <2>3, <2>5, <3>4, <4>1, Zenon DEF TypeOK
    <3>6. Owing(d) /\ Awaits(d, s) /\ d.inbound # "validating"
      BY <3>2, Zenon DEF Owing, Awaits
    <3>7. Others(p)
      BY <2>1, <2>3, <2>5, Zenon DEF Others
    <3>8. Fits(p, d) /\ Owes(p, d)
      BY <2>1, <2>2, <2>3, <3>2, <3>3, <3>4, <3>6, Zenon DEF Fits, Owes
    <3> QED BY <2>1, <2>2, <2>4, <2>5, <3>1, <3>4, <3>5, <3>7, <3>8, HandlerStep, Zenon
  <2>6. ASSUME Become(p, Closed(None)), Fails(p), UNCHANGED <<requested, pending_outbound>>
        PROVE  Whole'
    <3>1. PICK d : d = Closed(None)
      BY Zenon
    <3>2. d.substream = None /\ d.inbound # "validating"
      BY <3>1, ClosedFields, Zenon
    <3>3. Agrees(d, 1, None, None, inbound[p])
      BY <3>1, ClosedAgrees, Zenon
    <3>4. RequestsKept(p)
      BY <2>1, <2>6, Zenon DEF RequestsKept
    <3>5. owed' \subseteq owed /\ p \notin owed'
      BY <2>6, Zenon DEF Fails
    <3>6. TypeOK'
      <4>1. /\ peers' \in [Peer -> PeerState]
            /\ \A q \in Peer : peers'[q].kind \in {"initiated", "open"} => peers'[q].substream # None
        BY <2>0, <2>6, <3>1, <3>3, NewState, Zenon
      <4> QED BY <2>0, <2>1, <2>3, <2>6, <3>5, <4>1, Zenon DEF TypeOK
    <3>7. Others(p)
      BY <2>1, <2>3, <3>5, Zenon DEF Others
    <3>8. Fits(p, d) /\ Owes(p, d)
      BY <2>1, <2>2, <2>3, <2>6, <3>2, <3>3, <3>5, Zenon DEF Fits, Owes
    <3> QED BY <2>1, <2>2, <2>4, <2>6, <3>1, <3>4, <3>6, <3>7, <3>8, HandlerStep, Zenon
  <2> QED BY <2>5, <2>6, Zenon DEF DialedConnectionEstablished
<1>2.
  ASSUME NEW p \in Peer, DialFailure(p)
  PROVE  Whole'
  <2> USE <1>2
  <2>0. TypeOK /\ ValidationIsAsked
    BY Zenon DEF Whole
  <2>1. /\ peers[p].kind = "dialing" /\ Become(p, Absent) /\ Fails(p)
        /\ UNCHANGED <<sessions, requested, answers, pending_outbound, negotiating, ready, inbound,
                       timers, validations, received, asked, config, tasks, shutdowns, commands,
                       events, handle_peers, to_validate>>
    BY Zenon DEF DialFailure, service, handshakes, arrivals, user
  <2>2. /\ sessions[p] = 0 /\ negotiating[p, Outbound] = None /\ negotiating[p, Inbound] = None
        /\ \A s \in SubstreamId : requested[s] = p => answers[s] # 0
        /\ Settled(p)
    BY <2>1, <1>DialingPeer, Zenon
  <2>3. PICK d : d = Absent
    BY Zenon
  <2>4. d.substream = None /\ d.inbound # "validating"
    BY <2>3, StateFields, Zenon DEF Absent
  <2>5. Agrees(d, 0, None, None, inbound[p])
    BY <2>3, AbsentAgrees, Zenon
  <2>6. ValidationIsAsked' /\ RequestsKept(p)
    BY <2>0, <2>1, AskedKept, Zenon DEF RequestsKept
  <2>7. owed' \subseteq owed /\ p \notin owed'
    BY <2>1, Zenon DEF Fails
  <2>8. TypeOK'
    <3>1. /\ peers' \in [Peer -> PeerState]
          /\ \A q \in Peer : peers'[q].kind \in {"initiated", "open"} => peers'[q].substream # None
      BY <2>0, <2>1, <2>3, <2>5, NewState, Zenon
    <3> QED BY <2>0, <2>1, <2>7, <3>1, Zenon DEF TypeOK
  <2>9. Others(p)
    BY <2>1, <2>7, Zenon DEF Others
  <2>10. Fits(p, d) /\ Owes(p, d)
    BY <2>1, <2>2, <2>4, <2>5, <2>7, Zenon DEF Fits, Owes
  <2> QED BY <2>1, <2>2, <2>3, <2>6, <2>8, <2>9, <2>10, HandlerStep, Zenon
<1> QED BY <1>1, <1>2, Zenon

(* What the handlers of commands leave alone. *)
CommandFrame ==
  /\ UNCHANGED <<sessions, answers, negotiating, ready, inbound, timers, validations, received, asked,
                 config, tasks, shutdowns, events, handle_peers, to_validate>>
  /\ commands' \in Seq([kind : {"open", "close"}, peer : Peer])

(* A command that is taken leaves the others. *)
LEMMA ReceiveEffect ==
  ASSUME TypeOK, NEW kind, NEW p, Receive(kind, p)
  PROVE  commands' \in Seq([kind : {"open", "close"}, peer : Peer])
<1>1. commands \in Seq([kind : {"open", "close"}, peer : Peer])
  BY Zenon DEF TypeOK
<1>2. ASSUME NEW S, NEW q \in Seq(S), q # <<>> PROVE Tail(q) \in Seq(S)
  BY <1>2
<1> QED BY <1>1, <1>2, Zenon DEF Receive

(* on_open_substream keeps the invariant. *)
LEMMA OpenSubstreamSteps ==
  ASSUME Constants, Whole
  PROVE  \A p \in Peer : OnOpenSubstream(p) => Whole'
(* The user asks for the stream of the peer p. *)
<1>OpensStep.
  ASSUME NEW p \in Peer, NEW d, Become(p, d),
         Agrees(d, sessions[p], negotiating[p, Outbound], negotiating[p, Inbound], inbound[p]),
         Owing(d), d.inbound # "validating", Settled(p), owed' = owed \cup {p}, CommandFrame,
         RequestsKept(p), requested' \in [SubstreamId -> Peer \cup {None}],
         pending_outbound' \in [SubstreamId -> Peer \cup {None}],
         d.substream # None => requested'[d.substream] = p,
         \A s \in SubstreamId : requested'[s] = p /\ answers'[s] = 0 => Awaits(d, s)
  PROVE  Whole'
  <2> USE <1>OpensStep
  <2>0. TypeOK /\ ValidationIsAsked
    BY Zenon DEF Whole
  <2>1. TypeOK'
    <3>1. /\ peers' \in [Peer -> PeerState]
          /\ \A q \in Peer : peers'[q].kind \in {"initiated", "open"} => peers'[q].substream # None
      BY <2>0, NewState, Zenon
    <3>2. owed' \subseteq Peer
      BY <2>0, Zenon DEF TypeOK
    <3> QED BY <2>0, <3>1, <3>2, Zenon DEF TypeOK, CommandFrame
  <2>2. ValidationIsAsked'
    BY <2>0, AskedKept, Zenon DEF CommandFrame
  <2>3. UNCHANGED <<sessions, answers, negotiating, inbound, config, tasks, shutdowns>>
    BY Zenon DEF CommandFrame
  <2>4. Others(p)
    BY <2>3, Zenon DEF Others
  <2>5. Fits(p, d)
    BY <2>3, Zenon DEF Fits
  <2>6. Owes(p, d)
    BY Zenon DEF Owes
  <2> QED BY <2>1, <2>2, <2>3, <2>4, <2>5, <2>6, HandlerStep, Zenon
(* ... of a peer that has to be dialed, ... *)
<1>DialStep.
  ASSUME NEW p \in Peer, peers[p].kind = "absent", Become(p, Dialing),
         owed' = owed \cup {p}, CommandFrame, UNCHANGED <<requested, pending_outbound>>
  PROVE  Whole'
  <2> USE <1>DialStep
  <2>0. TypeOK /\ ShutdownIsOpen
    BY Zenon DEF Whole
  <2>1. PICK c : c = peers[p]
    BY Zenon
  <2>2. PICK d : d = Dialing /\ Become(p, d)
    BY Zenon
  <2>3. Agrees(c, sessions[p], negotiating[p, Outbound], negotiating[p, Inbound], inbound[p])
    BY <2>1, PeerAgrees, Zenon
  <2>4. /\ sessions[p] = 0 /\ negotiating[p, Outbound] = None /\ negotiating[p, Inbound] = None
        /\ c.outbound = "closed"
    BY <2>1, <2>3, Zenon DEF Agrees
  <2>5. Agrees(d, 0, None, None, inbound[p])
    BY <2>2, AbsentAgrees, Zenon
  <2>6. d.kind = "dialing" /\ d.substream = None /\ d.inbound = "closed"
    BY <2>2, StateFields, Zenon DEF Dialing
  <2>7. Owing(d) /\ d.inbound # "validating"
    BY <2>6, Zenon DEF Owing
  <2>8. \A s : ~Awaits(c, s)
    BY <2>1, <2>4, Zenon DEF Awaits
  <2>9. \A s \in SubstreamId : ~(requested'[s] = p /\ answers'[s] = 0)
    BY <2>1, <2>8, PeerAwaits, Zenon DEF CommandFrame
  <2>10. /\ RequestsKept(p) /\ requested' \in [SubstreamId -> Peer \cup {None}]
         /\ pending_outbound' \in [SubstreamId -> Peer \cup {None}]
    BY <2>0, Zenon DEF RequestsKept, CommandFrame, TypeOK
  <2>11. Settled(p)
    BY <2>0, NotOpenSettled, Zenon
  <2>12. Agrees(d, sessions[p], negotiating[p, Outbound], negotiating[p, Inbound], inbound[p])
    BY <2>4, <2>5, Zenon
  <2> QED BY <2>2, <2>6, <2>7, <2>9, <2>10, <2>11, <2>12, <1>OpensStep, Zenon
(* ... and of one whose stream is closed: s is a new substream, or the one *)
(* that is still being opened.                                             *)
<1>InitiateStep.
  ASSUME NEW p \in Peer, peers[p].kind = "closed", NEW s \in SubstreamId,
         Become(p, OutboundInitiated(s)), owed' = owed \cup {p}, CommandFrame,
         RequestsKept(p), requested' \in [SubstreamId -> Peer \cup {None}],
         pending_outbound' \in [SubstreamId -> Peer \cup {None}], requested'[s] = p,
         \A u \in SubstreamId : requested'[u] = p /\ answers'[u] = 0 => u = s
  PROVE  Whole'
  <2> USE <1>InitiateStep
  <2>0. ShutdownIsOpen
    BY Zenon DEF Whole
  <2>1. PICK c : c = peers[p]
    BY Zenon
  <2>2. PICK d : d = OutboundInitiated(s) /\ Become(p, d)
    BY Zenon
  <2>3. /\ Agrees(c, sessions[p], negotiating[p, Outbound], negotiating[p, Inbound], inbound[p])
        /\ sessions[p] \in {0, 1}
    BY <2>1, PeerAgrees, PeerTypes, Zenon
  <2>4. c.kind = "closed" /\ c.kind \notin {"absent", "dialing", "pending", "validating", "open"}
    BY <2>1, Zenon
  <2>5. sessions[p] = 1 /\ negotiating[p, Outbound] = None /\ negotiating[p, Inbound] = None
    BY <2>3, <2>4, Zenon DEF Agrees
  <2>6. Agrees(d, 1, None, None, inbound[p])
    BY <2>2, NoneApart, InitiatedAgrees, Zenon
  <2>7. d.kind = "initiated" /\ d.substream = s /\ d.inbound = "closed"
    BY <2>2, InitiatedFields, Zenon
  <2>8. Owing(d) /\ Awaits(d, s) /\ d.inbound # "validating"
    BY <2>7, Zenon DEF Owing, Awaits
  <2>9. Settled(p)
    BY <2>0, <2>1, <2>4, NotOpenSettled, Zenon
  <2>10. Agrees(d, sessions[p], negotiating[p, Outbound], negotiating[p, Inbound], inbound[p])
    BY <2>5, <2>6, Zenon
  <2>11. \A u \in SubstreamId : requested'[u] = p /\ answers'[u] = 0 => Awaits(d, u)
    BY <2>8, Zenon
  <2> QED BY <2>2, <2>7, <2>8, <2>9, <2>10, <2>11, <1>OpensStep, Zenon
<1>1.
  ASSUME NEW p \in Peer, OnOpenSubstream(p)
  PROVE  Whole'
  <2> USE <1>1
  <2>0. TypeOK /\ ValidationIsAsked
    BY Zenon DEF Whole
  <2>1. PICK c : c = peers[p]
    BY Zenon
  <2>2. CommandFrame
    <3>1. commands' \in Seq([kind : {"open", "close"}, peer : Peer])
      BY <2>0, ReceiveEffect, Zenon DEF OnOpenSubstream
    <3> QED BY <3>1, Zenon DEF CommandFrame, OnOpenSubstream, handshakes, arrivals
  <2>3. ASSUME c.kind = "absent", Become(p, Dialing), owed' = owed \cup {p},
               UNCHANGED <<requested, pending_outbound>>
        PROVE  Whole'
    BY <2>1, <2>2, <2>3, <1>DialStep, Zenon
  <2>4. ASSUME c.kind = "closed", c.substream # None, Become(p, OutboundInitiated(c.substream)),
               pending_outbound' = [pending_outbound EXCEPT ![c.substream] = p], owed' = owed \cup {p},
               UNCHANGED requested
        PROVE  Whole'
    <3>1. PICK s : s = c.substream
      BY Zenon
    <3>2. s \in SubstreamId /\ requested[s] = p
      <4>1. c.substream \in SubstreamId \cup {None}
        BY <2>1, PeerTypes, Zenon
      <4>2. c.substream # None => requested[c.substream] = p
        BY <2>1, PeerAgrees, Zenon
      <4> QED BY <2>4, <3>1, <4>1, <4>2, Zenon
    <3>3. /\ pending_outbound' \in [SubstreamId -> Peer \cup {None}]
          /\ \A u \in SubstreamId : pending_outbound'[u] \in {None, pending_outbound[u], requested'[u]}
      <4>1. pending_outbound \in [SubstreamId -> Peer \cup {None}]
        BY <2>0, Zenon DEF TypeOK
      <4>2. pending_outbound' = [pending_outbound EXCEPT ![s] = p] /\ requested'[s] = p
        BY <2>4, <3>1, <3>2, Zenon
      <4>3. /\ pending_outbound' \in [SubstreamId -> Peer \cup {None}] /\ pending_outbound'[s] = p
            /\ \A u \in SubstreamId : u # s => pending_outbound'[u] = pending_outbound[u]
        BY <3>2, <4>1, <4>2, Zenon
      <4> QED BY <4>2, <4>3, Zenon
    <3>4. RequestsKept(p) /\ requested' \in [SubstreamId -> Peer \cup {None}]
      BY <2>0, <2>2, <2>4, <3>3, Zenon DEF RequestsKept, CommandFrame, TypeOK
    <3>5. ASSUME NEW u \in SubstreamId, requested'[u] = p, answers'[u] = 0 PROVE u = s
      <4>1. Awaits(c, u)
        BY <2>1, <2>2, <2>4, <3>5, PeerAwaits, Zenon DEF CommandFrame
      <4> QED BY <3>1, <4>1, Zenon DEF Awaits
    <3>6. /\ peers[p].kind = "closed" /\ Become(p, OutboundInitiated(s)) /\ requested'[s] = p
          /\ owed' = owed \cup {p}
      BY <2>1, <2>4, <3>1, <3>2, Zenon
    <3> QED BY <2>2, <3>2, <3>3, <3>4, <3>5, <3>6, <1>InitiateStep, Zenon
  <2>5. ASSUME c.kind = "closed", c.substream = None, NEW s \in SubstreamId, OpenSubstream(p, s),
               Become(p, OutboundInitiated(s)), owed' = owed \cup {p}
        PROVE  Whole'
    <3>1. \A u \in SubstreamId : requested[u] = p => answers[u] # 0
      <4>1. \A u \in SubstreamId : ~Awaits(c, u)
        BY <2>5, NoneApart, Zenon DEF Awaits
      <4> QED BY <2>1, <4>1, PeerAwaits, Zenon
    <3>2. UNCHANGED answers
      BY <2>2, Zenon DEF CommandFrame
    <3>3. /\ RequestsKept(p) /\ requested'[s] = p
          /\ \A u \in SubstreamId : requested'[u] = p /\ answers'[u] = 0 => u = s
          /\ requested' \in [SubstreamId -> Peer \cup {None}]
          /\ pending_outbound' \in [SubstreamId -> Peer \cup {None}]
      BY <2>0, <2>5, <3>1, <3>2, NewRequest, Zenon
    <3> QED BY <2>1, <2>2, <2>5, <3>3, <1>InitiateStep, Zenon
  <2>6. ASSUME UNCHANGED <<requested, pending_outbound, peers>>, owed' \subseteq owed PROVE Whole'
    <3>1. TypeOK'
      BY <2>0, <2>2, <2>6, Zenon DEF TypeOK, CommandFrame
    <3>2. ValidationIsAsked'
      BY <2>0, <2>2, AskedKept, Zenon DEF CommandFrame
    <3> QED BY <2>2, <2>6, <3>1, <3>2, QuietStep, Zenon DEF CommandFrame
  <2>7. Fails(p) => owed' \subseteq owed
    BY Zenon DEF Fails
  <2> QED BY <2>1, <2>3, <2>4, <2>5, <2>6, <2>7, Zenon DEF OnOpenSubstream
<1> QED BY <1>1, Zenon

-----------------------------------------------------------------------------
(* What the helpers of the handlers do *)

(* One entry of the HandshakeService changes. *)
LEMMA NegotiateEffect ==
  ASSUME TypeOK, Constants, NEW p \in Peer, NEW d \in Directions, NEW id \in Ids \cup {None},
         negotiating' = Negotiate(p, d, id)
  PROVE  /\ negotiating' \in [Peer \X Directions -> Ids \cup {None}]
         /\ negotiating'[p, d] = id
         /\ \A q \in Peer, e \in Directions : q # p \/ e # d => negotiating'[q, e] = negotiating[q, e]
<1>1. negotiating \in [Peer \X Directions -> Ids \cup {None}] /\ <<p, d>> \in Peer \X Directions
  BY Zenon DEF TypeOK
<1>2. \A q \in Peer, e \in Directions : <<q, e>> = <<p, d>> => q = p /\ e = d
  BY Zenon
<1>3. \A q \in Peer, e \in Directions : <<q, e>> \in Peer \X Directions
  BY Zenon
<1> QED BY <1>1, <1>2, <1>3, Zenon DEF Negotiate

(* Both entries of one peer are removed from the HandshakeService. *)
LEMMA RemoveEffect ==
  ASSUME TypeOK, Constants, NEW p \in Peer, negotiating' = RemoveBoth(p)
  PROVE  /\ negotiating' \in [Peer \X Directions -> Ids \cup {None}]
         /\ negotiating'[p, Inbound] = None /\ negotiating'[p, Outbound] = None
         /\ \A q \in Peer, e \in Directions : q # p => negotiating'[q, e] = negotiating[q, e]
<1>1. /\ negotiating \in [Peer \X Directions -> Ids \cup {None}]
      /\ <<p, Inbound>> \in Peer \X Directions /\ <<p, Outbound>> \in Peer \X Directions
  BY Zenon DEF TypeOK, Directions
<1>2. \A q \in Peer, e \in Directions : q # p => <<q, e>> # <<p, Inbound>> /\ <<q, e>> # <<p, Outbound>>
  BY Zenon
<1>3. <<p, Inbound>> # <<p, Outbound>>
  BY NoneApart, Zenon
<1>4. \A q \in Peer, e \in Directions : <<q, e>> \in Peer \X Directions
  BY Zenon
<1> QED BY <1>1, <1>2, <1>3, <1>4, Zenon DEF RemoveBoth

(* The inbound substream of one peer is forgotten. *)
LEMMA NoInboundEffect ==
  ASSUME TypeOK, NEW p \in Peer, inbound' = NoInbound(p)
  PROVE  /\ inbound' \in [Peer -> InboundId \cup {None}] /\ inbound'[p] = None
         /\ \A q \in Peer : q # p => inbound'[q] = inbound[q]
<1>1. inbound \in [Peer -> InboundId \cup {None}]
  BY Zenon DEF TypeOK
<1> QED BY <1>1, Zenon DEF NoInbound

(* on_connection_closed keeps the invariant, if no message of the task is  *)
(* due.                                                                    *)
LEMMA ConnectionClosedStep ==
  ASSUME Constants, LateShutdown = FALSE, Whole, Quiet, NEW p \in Peer, ConnectionClosed(p)
  PROVE  Whole'
<1>0. TypeOK /\ ValidationIsAsked
  BY Zenon DEF Whole
<1>1. /\ sessions[p] = 1 /\ sessions' = [sessions EXCEPT ![p] = 0]
      /\ \A s \in SubstreamId : requested[s] = p => ~Service!Unanswered(s)
      /\ Prompt(p) /\ negotiating' = RemoveBoth(p) /\ inbound' = NoInbound(p)
      /\ UNCHANGED <<requested, answers, ready, timers, validations, received, asked, config, tasks,
                     shutdowns, commands, events, handle_peers, to_validate>>
  BY Zenon DEF ConnectionClosed, Service!ConnectionClosed, arrivals, user
<1>2. /\ pending_outbound' = [s \in SubstreamId |-> IF pending_outbound[s] = p
                                                    THEN None ELSE pending_outbound[s]]
      /\ IF UserAwaits(peers[p]) THEN Fails(p) ELSE UNCHANGED owed
  BY Zenon DEF ConnectionClosed
<1>3. PICK d : Become(p, d) /\ d \in {Absent, ValidationPending(FALSE)}
  BY Zenon DEF ConnectionClosed, AfterClose
<1>4. Agrees(d, 0, None, None, None) /\ d.substream = None /\ d.inbound = "closed"
  <2>1. CASE d = Absent
    BY <2>1, AbsentAgrees, StateFields, Zenon DEF Absent
  <2>2. CASE d = ValidationPending(FALSE)
    BY <2>2, PendingAgrees, PendingFields, Zenon
  <2> QED BY <1>3, <2>1, <2>2, Zenon
<1>5. \A s \in SubstreamId : requested[s] = p => answers[s] # 0
  BY <1>1, NoneApart, Zenon DEF Service!Unanswered
<1>6. sessions' \in [Peer -> {0, 1}] /\ sessions'[p] = 0 /\ \A q \in Peer : q # p => sessions'[q] = sessions[q]
  BY <1>0, <1>1, Zenon DEF TypeOK
<1>7. /\ negotiating' \in [Peer \X Directions -> Ids \cup {None}]
      /\ negotiating'[p, Inbound] = None /\ negotiating'[p, Outbound] = None
      /\ \A q \in Peer, e \in Directions : q # p => negotiating'[q, e] = negotiating[q, e]
  BY <1>0, <1>1, RemoveEffect, Zenon
<1>8. /\ inbound' \in [Peer -> InboundId \cup {None}] /\ inbound'[p] = None
      /\ \A q \in Peer : q # p => inbound'[q] = inbound[q]
  BY <1>0, <1>1, NoInboundEffect, Zenon
<1>9. /\ pending_outbound' \in [SubstreamId -> Peer \cup {None}]
      /\ \A s \in SubstreamId : pending_outbound'[s] \in {None, pending_outbound[s]}
  <2>1. pending_outbound \in [SubstreamId -> Peer \cup {None}]
    BY <1>0, Zenon DEF TypeOK
  <2> QED BY <1>2, <2>1, Zenon
<1>10. owed' \subseteq owed /\ (config.auto_accept => p \notin owed')
  <2>1. CASE UserAwaits(peers[p])
    BY <1>2, <2>1, Zenon DEF Fails
  <2>2. CASE ~UserAwaits(peers[p])
    <3>1. Agrees(peers[p], 1, negotiating[p, Outbound], negotiating[p, Inbound], inbound[p])
      BY <1>1, PeerAgrees, Zenon
    <3>2. 1 # 0
      OBVIOUS
    <3>3. peers[p].kind # "dialing"
      BY <3>1, <3>2, Zenon DEF Agrees
    <3>4. ~Owing(peers[p])
      BY <2>2, <3>3, Zenon DEF Owing, UserAwaits
    <3> QED BY <1>2, <2>2, <3>4, NotOwed, Zenon
  <2> QED BY <2>1, <2>2, Zenon
<1>11. TypeOK'
  <2>1. /\ peers' \in [Peer -> PeerState]
        /\ \A q \in Peer : peers'[q].kind \in {"initiated", "open"} => peers'[q].substream # None
    BY <1>0, <1>3, <1>4, NewState, Zenon
  <2> QED BY <1>0, <1>1, <1>6, <1>7, <1>8, <1>9, <1>10, <2>1, Zenon DEF TypeOK
<1>12. ValidationIsAsked' /\ RequestsKept(p)
  BY <1>0, <1>1, <1>8, <1>9, AskedKept, Zenon DEF RequestsKept
<1>13. Settled(p)
  BY <1>1, PromptSettled, Zenon
<1>14. Others(p)
  BY <1>6, <1>7, <1>8, <1>10, Zenon DEF Others, Directions
<1>15. Fits(p, d)
  BY <1>1, <1>4, <1>5, <1>6, <1>7, <1>8, Zenon DEF Fits
<1>16. Owes(p, d)
  BY <1>4, <1>10, Zenon DEF Owes
<1> QED BY <1>1, <1>3, <1>11, <1>12, <1>13, <1>14, <1>15, <1>16, HandlerStep, Zenon

-----------------------------------------------------------------------------
(* Substreams *)

(* on_outbound_substream and on_substream_open_failure keep the invariant. *)
LEMMA AnswerSteps ==
  ASSUME Constants, Whole
  PROVE  \A s \in SubstreamId : OutboundSubstream(s) \/ SubstreamOpenFailure(s) => Whole'
(* A request that is made is of a substream that nobody had. *)
<1>AnswerEffect.
  ASSUME TypeOK, NEW s \in SubstreamId, Service!Answer(s)
  PROVE  /\ requested[s] \in Peer /\ answers[s] = 0 /\ answers' \in [SubstreamId -> {0, 1}]
         /\ answers'[s] = 1 /\ \A u \in SubstreamId : u # s => answers'[u] = answers[u]
         /\ UNCHANGED <<sessions, requested>>
  <2> USE <1>AnswerEffect
  <2>1. requested \in [SubstreamId -> Peer \cup {None}] /\ answers \in [SubstreamId -> {0, 1}]
    BY Zenon DEF TypeOK
  <2> QED BY <2>1, Zenon DEF Service!Answer, Service!Unanswered
(* The substream s, which the service answers, is the one that the state c *)
(* of its peer knows, and the only one that is being opened for the peer.  *)
<1>AnsweredPeer.
  ASSUME NEW s \in SubstreamId, Service!Answer(s), NEW p, p = requested[s],
         NEW c, c = peers[p]
  PROVE  /\ p \in Peer /\ Awaits(c, s) /\ Settled(p) /\ sessions[p] = 1
         /\ c.kind \in {"closed", "initiated"} \/ (c.kind = "validating" /\ c.outbound = "initiated")
         /\ \A u \in SubstreamId : requested'[u] = p => answers'[u] # 0
         /\ answers' \in [SubstreamId -> {0, 1}] /\ \A u \in SubstreamId : answers'[u] = 0 => answers[u] = 0
         /\ UNCHANGED <<sessions, requested>>
  <2> USE <1>AnsweredPeer
  <2>1. /\ p \in Peer /\ answers[s] = 0 /\ answers' \in [SubstreamId -> {0, 1}]
        /\ answers'[s] = 1 /\ \A u \in SubstreamId : u # s => answers'[u] = answers[u]
        /\ UNCHANGED <<sessions, requested>>
    BY <1>AnswerEffect, Zenon DEF Whole
  <2>2. Awaits(c, s)
    BY <2>1, PeerAwaits, Zenon
  <2>3. /\ Agrees(c, sessions[p], negotiating[p, Outbound], negotiating[p, Inbound], inbound[p])
        /\ sessions[p] \in {0, 1}
    BY <2>1, PeerAgrees, PeerTypes, Zenon
  <2>4. c.kind \in {"closed", "initiated"} \/ (c.kind = "validating" /\ c.outbound = "initiated")
    <3>1. "initiated" # "closed"
      BY Zenon
    <3> QED BY <2>2, <2>3, <3>1, Zenon DEF Awaits, Agrees
  <2>5. c.kind \notin {"absent", "dialing", "pending", "open"}
    BY <2>4, Zenon
  <2>6. sessions[p] = 1
    BY <2>3, <2>5, Zenon DEF Agrees
  <2>7. Settled(p)
    BY <2>1, <2>5, NotOpenSettled, Zenon DEF Whole
  <2>8. 1 # 0
    OBVIOUS
  <2>9. ASSUME NEW u \in SubstreamId, requested'[u] = p, answers'[u] = 0 PROVE FALSE
    <3>1. u # s /\ requested[u] = p /\ answers[u] = 0
      BY <2>1, <2>8, <2>9, Zenon
    <3>2. Awaits(c, u)
      BY <2>1, <3>1, PeerAwaits, Zenon
    <3> QED BY <2>2, <3>1, <3>2, Zenon DEF Awaits
  <2> QED BY <2>1, <2>2, <2>4, <2>6, <2>7, <2>8, <2>9, Zenon
(* A substream is no longer in pending_outbound. *)
<1>ForgetEffect.
  ASSUME TypeOK, NEW s \in SubstreamId, pending_outbound' = [pending_outbound EXCEPT ![s] = None]
  PROVE  /\ pending_outbound' \in [SubstreamId -> Peer \cup {None}]
         /\ \A u \in SubstreamId : pending_outbound'[u] \in {None, pending_outbound[u]}
  <2> USE <1>ForgetEffect
  <2>1. pending_outbound \in [SubstreamId -> Peer \cup {None}]
    BY Zenon DEF TypeOK
  <2> QED BY <2>1, Zenon
<1>1.
  ASSUME NEW s \in SubstreamId, OutboundSubstream(s)
  PROVE  Whole'
  <2> USE <1>1
  <2>0. TypeOK /\ ValidationIsAsked
    BY Zenon DEF Whole
  <2>1. PICK p : p = requested[s]
    BY Zenon
  <2>2. PICK c : c = peers[p]
    BY Zenon
  <2>3. /\ Service!Answer(s) /\ pending_outbound' = [pending_outbound EXCEPT ![s] = None]
        /\ UNCHANGED <<ready, inbound, timers, validations, received, asked, config, tasks, shutdowns,
                       commands, events, handle_peers, to_validate, owed>>
    BY Zenon DEF OutboundSubstream, arrivals, user
  <2>4. /\ p \in Peer /\ Awaits(c, s) /\ Settled(p) /\ sessions[p] = 1
        /\ c.kind \in {"closed", "initiated"} \/ (c.kind = "validating" /\ c.outbound = "initiated")
    BY <2>1, <2>2, <2>3, <1>AnsweredPeer, ZenonT(30)
  <2>5. /\ \A u \in SubstreamId : requested'[u] = p => answers'[u] # 0
        /\ answers' \in [SubstreamId -> {0, 1}] /\ \A u \in SubstreamId : answers'[u] = 0 => answers[u] = 0
        /\ UNCHANGED <<sessions, requested>>
    BY <2>1, <2>2, <2>3, <1>AnsweredPeer, Zenon
  <2>6. /\ pending_outbound' \in [SubstreamId -> Peer \cup {None}]
        /\ \A u \in SubstreamId : pending_outbound'[u] \in {None, pending_outbound[u]}
    BY <2>0, <2>3, <1>ForgetEffect, Zenon
  <2>7. ValidationIsAsked' /\ RequestsKept(p)
    BY <2>0, <2>3, <2>5, <2>6, AskedKept, Zenon DEF RequestsKept
  <2>8. Agrees(c, 1, negotiating[p, Outbound], negotiating[p, Inbound], inbound[p])
    BY <2>2, <2>4, PeerAgrees, Zenon
  <2>9. ASSUME NEW d, Agrees(d, 1, negotiating'[p, Outbound], negotiating'[p, Inbound], inbound[p]),
               Become(p, d), d.substream \in {None, s}, Owes(p, d),
               negotiating' \in [Peer \X Directions -> Ids \cup {None}],
               \A q \in Peer, e \in Directions : q # p => negotiating'[q, e] = negotiating[q, e]
        PROVE  Whole'
    <3>1. TypeOK'
      <4>1. /\ peers' \in [Peer -> PeerState]
            /\ \A q \in Peer : peers'[q].kind \in {"initiated", "open"} => peers'[q].substream # None
        BY <2>0, <2>4, <2>9, NewState, Zenon
      <4> QED BY <2>0, <2>3, <2>5, <2>6, <2>9, <4>1, Zenon DEF TypeOK
    <3>2. Others(p)
      BY <2>3, <2>5, <2>9, Zenon DEF Others, Directions
    <3>3. Fits(p, d)
      BY <2>1, <2>3, <2>4, <2>5, <2>9, Zenon DEF Fits
    <3> QED BY <2>3, <2>4, <2>7, <2>9, <3>1, <3>2, <3>3, HandlerStep, Zenon
  <2>10. CASE Expects(c, s)
    <3>1. PICK d : d = Validating(c.inbound, "negotiating", s)
      BY Zenon
    <3>2. Become(p, d) /\ negotiating' = Negotiate(p, Outbound, s)
      BY <2>1, <2>2, <2>10, <3>1, Zenon DEF OutboundSubstream
    <3>3. /\ negotiating' \in [Peer \X Directions -> Ids \cup {None}]
          /\ negotiating'[p, Outbound] = s /\ negotiating'[p, Inbound] = negotiating[p, Inbound]
          /\ \A q \in Peer, e \in Directions : q # p => negotiating'[q, e] = negotiating[q, e]
      <4>1. s \in Ids \cup {None} /\ Outbound \in Directions /\ Inbound \in Directions /\ Inbound # Outbound
        BY NoneApart, Zenon DEF Ids, Directions
      <4>2. /\ negotiating' \in [Peer \X Directions -> Ids \cup {None}]
            /\ negotiating'[p, Outbound] = s
            /\ \A q \in Peer, e \in Directions : q # p \/ e # Outbound => negotiating'[q, e] = negotiating[q, e]
        BY <2>0, <2>4, <3>2, <4>1, NegotiateEffect, Zenon
      <4> QED BY <2>4, <4>1, <4>2, Zenon
    <3>4. c.kind \in {"initiated", "validating"}
      BY <2>10, Zenon DEF Expects
    <3>5. /\ c.inbound \in InboundState /\ (c.inbound # "closed" => inbound[p] # None)
          /\ negotiating[p, Inbound] # None <=> c.inbound \in {"reading", "sending"}
      <4>1. c.inbound \in InboundState
        BY <2>2, <2>4, PeerTypes, Zenon
      <4>2. "closed" \notin {"reading", "sending"} /\ "initiated" # "validating"
        BY Zenon
      <4> QED BY <2>8, <3>4, <4>1, <4>2, Zenon DEF Agrees
    <3>6. Agrees(d, 1, s, negotiating[p, Inbound], inbound[p])
      <4>1. "negotiating" \in OutboundState /\ s # None /\ s \in SubstreamId \cup {None}
        BY NoneApart, Zenon DEF OutboundState
      <4>2. Agrees(Validating(c.inbound, "negotiating", s), 1, s, negotiating[p, Inbound], inbound[p])
        BY <3>5, <4>1, ValidatingAgrees, Zenon
      <4> QED BY <3>1, <4>2, Zenon
    <3>7. d.kind = "validating" /\ d.inbound = c.inbound /\ d.outbound = "negotiating" /\ d.substream = s
      BY <3>1, ValidatingFields
    <3>8. Owes(p, d)
      <4>1. Owing(d)
        BY <3>7, Zenon DEF Owing
      <4>2. config.auto_accept => c.inbound # "validating"
        <5>1. CASE c.kind = "initiated"
          BY <2>8, <5>1, Zenon DEF Agrees
        <5>2. CASE c.kind = "validating"
          BY <2>2, <2>4, <5>2, PeerOwes, Zenon
        <5> QED BY <3>4, <5>1, <5>2, Zenon
      <4> QED BY <3>7, <4>1, <4>2, Zenon DEF Owes
    <3> QED BY <2>9, <3>2, <3>3, <3>6, <3>7, <3>8, Zenon
  <2>11. CASE ~Expects(c, s)
    <3>1. c.kind = "closed" /\ c.substream = s
      BY <2>4, <2>11, Zenon DEF Expects, Awaits
    <3>2. PICK d : d = Closed(None)
      BY Zenon
    <3>3. Become(p, d) /\ UNCHANGED negotiating
      BY <2>1, <2>2, <2>11, <3>1, <3>2, Zenon DEF OutboundSubstream
    <3>4. negotiating[p, Outbound] = None /\ negotiating[p, Inbound] = None
      BY <2>8, <3>1, Zenon DEF Agrees
    <3>5. /\ Agrees(d, 1, None, None, inbound[p]) /\ d.substream = None
          /\ d.inbound # "validating"
      BY <3>2, ClosedAgrees, ClosedFields, Zenon
    <3>6. Owes(p, d)
      <4>1. c.outbound = "closed"
        BY <2>8, <3>1, Zenon DEF Agrees
      <4>2. ~Owing(c)
        BY <3>1, <4>1, Zenon DEF Owing
      <4> QED BY <2>2, <2>3, <2>4, <3>5, <4>2, NotOwed, Zenon DEF Owes
    <3>7. negotiating \in [Peer \X Directions -> Ids \cup {None}]
      BY <2>0, Zenon DEF TypeOK
    <3> QED BY <2>9, <3>3, <3>4, <3>5, <3>6, <3>7, Zenon
  <2> QED BY <2>10, <2>11, Zenon
<1>2.
  ASSUME NEW s \in SubstreamId, SubstreamOpenFailure(s)
  PROVE  Whole'
  <2> USE <1>2
  <2>0. TypeOK /\ ValidationIsAsked
    BY Zenon DEF Whole
  <2>1. PICK p : p = requested[s]
    BY Zenon
  <2>2. PICK c : c = peers[p]
    BY Zenon
  <2>3. /\ Service!Answer(s) /\ pending_outbound' = [pending_outbound EXCEPT ![s] = None]
        /\ UNCHANGED <<ready, timers, validations, received, asked, config, tasks, shutdowns,
                       commands, events, handle_peers, to_validate>>
    BY Zenon DEF SubstreamOpenFailure, arrivals, user
  <2>4. /\ p \in Peer /\ Awaits(c, s) /\ Settled(p) /\ sessions[p] = 1
        /\ c.kind \in {"closed", "initiated"} \/ (c.kind = "validating" /\ c.outbound = "initiated")
    BY <2>1, <2>2, <2>3, <1>AnsweredPeer, ZenonT(30)
  <2>5. /\ \A u \in SubstreamId : requested'[u] = p => answers'[u] # 0
        /\ answers' \in [SubstreamId -> {0, 1}] /\ \A u \in SubstreamId : answers'[u] = 0 => answers[u] = 0
        /\ UNCHANGED <<sessions, requested>>
    BY <2>1, <2>2, <2>3, <1>AnsweredPeer, Zenon
  <2>6. /\ pending_outbound' \in [SubstreamId -> Peer \cup {None}]
        /\ \A u \in SubstreamId : pending_outbound'[u] \in {None, pending_outbound[u]}
    BY <2>0, <2>3, <1>ForgetEffect, Zenon
  <2>7. pending_outbound[s] \in {None, p}
    BY <2>1, Zenon DEF Whole, RequestsExpected, RequestInv
  <2>8. CASE pending_outbound[s] = None
    <3>1. UNCHANGED <<peers, negotiating, inbound, owed>>
      BY <2>8, Zenon DEF SubstreamOpenFailure
    <3>2. TypeOK'
      BY <2>0, <2>3, <2>5, <2>6, <3>1, Zenon DEF TypeOK
    <3>3. ValidationIsAsked'
      BY <2>0, <2>3, <3>1, AskedKept, Zenon
    <3> QED BY <2>3, <2>5, <2>6, <3>1, <3>2, <3>3, QuietStep, Zenon
  <2>9. CASE pending_outbound[s] = p
    <3>1. p # None
      BY <2>4, NoneApart, Zenon
    <3>2. Agrees(c, 1, negotiating[p, Outbound], negotiating[p, Inbound], inbound[p])
      BY <2>2, <2>4, PeerAgrees, Zenon
    <3>3. PICK d : /\ d = Closed(IF c.kind = "validating" THEN pending_open(c) ELSE None) /\ Become(p, d)
                   /\ IF c.kind = "validating"
                        THEN negotiating' = RemoveBoth(p) /\ inbound' = NoInbound(p)
                        ELSE UNCHANGED <<negotiating, inbound>>
                   /\ IF UserAwaits(c) THEN Fails(p) ELSE UNCHANGED owed
      BY <2>2, <2>9, <3>1, Zenon DEF SubstreamOpenFailure
    <3>4. d \in {Closed(None), Closed(s)}
      BY <2>4, <3>3, Zenon DEF Awaits, pending_open
    <3>5. /\ negotiating' \in [Peer \X Directions -> Ids \cup {None}]
          /\ negotiating'[p, Inbound] = None /\ negotiating'[p, Outbound] = None
          /\ \A q \in Peer, e \in Directions : q # p => negotiating'[q, e] = negotiating[q, e]
      <4>1. CASE c.kind = "validating"
        BY <2>0, <2>4, <3>3, <4>1, RemoveEffect, Zenon
      <4>2. CASE c.kind # "validating"
        <5>1. negotiating[p, Inbound] = None /\ negotiating[p, Outbound] = None
          BY <3>2, <4>2, Zenon DEF Agrees
        <5>2. negotiating \in [Peer \X Directions -> Ids \cup {None}]
          BY <2>0, Zenon DEF TypeOK
        <5> QED BY <3>3, <4>2, <5>1, <5>2, Zenon
      <4> QED BY <4>1, <4>2, Zenon
    <3>6. /\ inbound' \in [Peer -> InboundId \cup {None}]
          /\ \A q \in Peer : inbound'[q] \in {None, inbound[q]}
          /\ \A q \in Peer : q # p => inbound'[q] = inbound[q]
      <4>1. CASE c.kind = "validating"
        <5>1. /\ inbound' \in [Peer -> InboundId \cup {None}] /\ inbound'[p] = None
              /\ \A q \in Peer : q # p => inbound'[q] = inbound[q]
          BY <2>0, <2>4, <3>3, <4>1, NoInboundEffect, Zenon
        <5> QED BY <5>1, Zenon
      <4>2. CASE c.kind # "validating"
        BY <2>0, <3>3, <4>2, Zenon DEF TypeOK
      <4> QED BY <4>1, <4>2, Zenon
    <3>7. Agrees(d, 1, None, None, inbound'[p]) /\ d.substream \in {None, s} /\ d.inbound # "validating"
      BY <3>4, ClosedAgrees, ClosedFields, Zenon
    <3>8. owed' \subseteq owed /\ (config.auto_accept => p \notin owed')
      <4>1. CASE UserAwaits(c)
        BY <3>3, <4>1, Zenon DEF Fails
      <4>2. CASE ~UserAwaits(c)
        <5>1. c.kind = "closed"
          BY <2>4, <4>2, Zenon DEF UserAwaits
        <5>2. ~Owing(c)
          BY <5>1, Zenon DEF Owing
        <5> QED BY <2>2, <2>4, <3>3, <4>2, <5>2, NotOwed, Zenon
      <4> QED BY <4>1, <4>2, Zenon
    <3>9. TypeOK'
      <4>1. /\ peers' \in [Peer -> PeerState]
            /\ \A q \in Peer : peers'[q].kind \in {"initiated", "open"} => peers'[q].substream # None
        BY <2>0, <2>4, <3>3, <3>7, NewState, Zenon
      <4> QED BY <2>0, <2>3, <2>5, <2>6, <3>5, <3>6, <3>8, <4>1, Zenon DEF TypeOK
    <3>10. ValidationIsAsked' /\ RequestsKept(p)
      BY <2>0, <2>3, <2>5, <2>6, <3>6, AskedKept, Zenon DEF RequestsKept
    <3>11. Others(p)
      BY <2>5, <3>5, <3>6, <3>8, Zenon DEF Others, Directions
    <3>12. Fits(p, d)
      BY <2>1, <2>4, <2>5, <3>5, <3>7, Zenon DEF Fits
    <3>13. Owes(p, d)
      BY <3>7, <3>8, Zenon DEF Owes
    <3>14. Become(p, d)
      BY <3>3, Zenon
    <3> QED BY <2>3, <2>4, <3>9, <3>10, <3>11, <3>12, <3>13, <3>14, HandlerStep, Zenon
  <2> QED BY <2>7, <2>8, <2>9, Zenon
<1> QED BY <1>1, <1>2, Zenon

(* on_inbound_substream keeps the invariant. *)
LEMMA InboundSubstreamSteps ==
  ASSUME Constants, Whole
  PROVE  \A p \in Peer : InboundSubstream(p) => Whole'
(* An inbound substream comes. *)
<1>AskedMore.
  ASSUME TypeOK, ValidationIsAsked, UNCHANGED <<validations, to_validate, events>>,
         \A i \in InboundId : asked[i] # None => asked'[i] # None,
         \A p \in Peer : \/ inbound'[p] \in {None, inbound[p]} \/ asked'[inbound'[p]] # None
  PROVE  ValidationIsAsked'
  <2> USE <1>AskedMore
  <2>1. \A p \in Peer : inbound[p] \in InboundId \cup {None} /\ to_validate[p] \in InboundId \cup {None}
    BY Zenon DEF TypeOK
  <2> QED BY <2>1, Zenon DEF ValidationIsAsked
<1>1.
  ASSUME NEW p \in Peer, InboundSubstream(p)
  PROVE  Whole'
  <2> USE <1>1
  <2>0. TypeOK /\ ValidationIsAsked /\ ShutdownIsOpen
    BY Zenon DEF Whole
  <2>1. PICK c : c = peers[p]
    BY Zenon
  <2>2. PICK i : i = received
    BY Zenon
  <2>3. /\ sessions[p] = 1 /\ i < MaxInbound /\ received' = i + 1 /\ asked' = [asked EXCEPT ![i] = p]
        /\ UNCHANGED <<sessions, requested, answers, config, pending_outbound, ready, timers, validations,
                       tasks, shutdowns, commands, events, handle_peers, to_validate, owed>>
    BY <2>2, Zenon DEF InboundSubstream, service, user
  <2>4. i \in InboundId /\ received' \in 0 .. MaxInbound
    BY <2>0, <2>2, <2>3 DEF TypeOK, Constants, InboundId
  <2>5. /\ asked' \in [InboundId -> Peer \cup {None}] /\ asked'[i] # None
        /\ \A j \in InboundId : asked[j] # None => asked'[j] # None
    <3>1. asked \in [InboundId -> Peer \cup {None}]
      BY <2>0, Zenon DEF TypeOK
    <3> QED BY <2>3, <2>4, <3>1, NoneApart, Zenon
  <2>6. Agrees(c, 1, negotiating[p, Outbound], negotiating[p, Inbound], inbound[p])
    BY <2>1, <2>3, PeerAgrees, Zenon
  <2>7. RequestsKept(p)
    BY <2>3, Zenon DEF RequestsKept
  <2>8. ASSUME NEW d, NEW id \in InboundId \cup {None}, Become(p, d), d.substream \in {None, c.substream},
               Agrees(d, 1, negotiating'[p, Outbound], negotiating'[p, Inbound], id),
               \A s \in SubstreamId : Awaits(c, s) => Awaits(d, s), Owing(c) => Owing(d),
               d.inbound # "validating", c.kind # "open", id # None => asked'[id] # None,
               inbound' = [inbound EXCEPT ![p] = id],
               negotiating' \in [Peer \X Directions -> Ids \cup {None}],
               \A q \in Peer, e \in Directions : q # p => negotiating'[q, e] = negotiating[q, e]
        PROVE  Whole'
    <3>1. /\ inbound' \in [Peer -> InboundId \cup {None}] /\ inbound'[p] = id
          /\ \A q \in Peer : q # p => inbound'[q] = inbound[q]
      <4>1. inbound \in [Peer -> InboundId \cup {None}]
        BY <2>0, Zenon DEF TypeOK
      <4> QED BY <2>8, <4>1, Zenon
    <3>2. TypeOK'
      <4>1. /\ peers' \in [Peer -> PeerState]
            /\ \A q \in Peer : peers'[q].kind \in {"initiated", "open"} => peers'[q].substream # None
        BY <2>0, <2>8, NewState, Zenon
      <4>2. negotiating' \in [Peer \X Directions -> Ids \cup {None}]
        BY <2>8, Zenon
      <4> QED BY <2>0, <2>3, <2>4, <2>5, <3>1, <4>1, <4>2, Zenon DEF TypeOK
    <3>3. ValidationIsAsked'
      <4>1. \A q \in Peer : inbound'[q] \in {None, inbound[q]} \/ asked'[inbound'[q]] # None
        BY <2>8, <3>1, Zenon
      <4> QED BY <2>0, <2>3, <2>5, <4>1, <1>AskedMore, Zenon
    <3>4. Others(p)
      BY <2>3, <2>8, <3>1, Zenon DEF Others, Directions
    <3>5. Fits(p, d)
      <4>1. \A s \in SubstreamId : requested[s] = p /\ answers[s] = 0 => Awaits(d, s)
        BY <2>1, <2>8, PeerAwaits, Zenon
      <4>2. d.substream # None => requested[d.substream] = p
        <5>1. c.substream # None => requested[c.substream] = p
          BY <2>1, PeerAgrees, Zenon
        <5>2. d.substream \in {None, c.substream}
          BY <2>8, Zenon
        <5> QED BY <5>1, <5>2, Zenon
      <4> QED BY <2>3, <2>8, <3>1, <4>1, <4>2, Zenon DEF Fits
    <3>6. Owes(p, d)
      <4>1. config.auto_accept => (p \in owed => Owing(c))
        BY <2>1, PeerOwes, Zenon
      <4> QED BY <2>3, <2>8, <4>1, Zenon DEF Owes
    <3>7. Settled(p) /\ Become(p, d)
      BY <2>0, <2>1, <2>8, NotOpenSettled, Zenon
    <3> QED BY <2>3, <2>7, <3>2, <3>3, <3>4, <3>5, <3>6, <3>7, HandlerStep, Zenon
  <2>9. ASSUME Reads(c), negotiating' = Negotiate(p, Inbound, i), inbound' = [inbound EXCEPT ![p] = i],
               Become(p, Validating("reading", IF c.kind = "initiated" THEN "initiated" ELSE c.outbound,
                                    c.substream))
        PROVE  Whole'
    <3>1. PICK out : out = IF c.kind = "initiated" THEN "initiated" ELSE c.outbound
      BY Zenon
    <3>2. PICK d : d = Validating("reading", out, c.substream)
      BY Zenon
    <3>3. d.kind = "validating" /\ d.inbound = "reading" /\ d.outbound = out /\ d.substream = c.substream
      BY <3>2, ValidatingFields
    <3>4. /\ negotiating' \in [Peer \X Directions -> Ids \cup {None}]
          /\ negotiating'[p, Inbound] = i /\ negotiating'[p, Outbound] = negotiating[p, Outbound]
          /\ \A q \in Peer, e \in Directions : q # p => negotiating'[q, e] = negotiating[q, e]
      <4>1. i \in Ids \cup {None} /\ Outbound \in Directions /\ Inbound \in Directions /\ Inbound # Outbound
        BY <2>4, NoneApart, Zenon DEF Ids, Directions
      <4>2. /\ negotiating' \in [Peer \X Directions -> Ids \cup {None}]
            /\ negotiating'[p, Inbound] = i
            /\ \A q \in Peer, e \in Directions : q # p \/ e # Inbound => negotiating'[q, e] = negotiating[q, e]
        BY <2>0, <2>9, <4>1, NegotiateEffect, Zenon
      <4> QED BY <4>1, <4>2, Zenon
    <3>5. c.kind \in {"closed", "initiated", "validating"} /\ c.kind # "open"
      BY <2>9, Zenon DEF Reads
    <3>6. /\ out \in OutboundState /\ c.substream \in SubstreamId \cup {None}
          /\ out # "closed" => c.substream # None
          /\ negotiating[p, Outbound] # None <=> out = "negotiating"
          /\ out # "closed" <=> Owing(c)
          /\ \A s \in SubstreamId : Awaits(c, s) => c.substream = s /\ out = "initiated"
      <4>1. c.outbound \in OutboundState /\ c.substream \in SubstreamId \cup {None}
        BY <2>1, PeerTypes, Zenon
      <4>2. CASE c.kind = "initiated"
        <5>1. out = "initiated"
          BY <3>1, <4>2, Zenon
        <5>2. out \in OutboundState /\ out # "closed" /\ out # "negotiating"
          BY <5>1, Zenon DEF OutboundState
        <5>3. c.substream # None /\ negotiating[p, Outbound] = None
          BY <2>6, <4>2, Zenon DEF Agrees
        <5> QED BY <4>1, <4>2, <5>1, <5>2, <5>3, Zenon DEF Owing, Awaits
      <4>3. CASE c.kind = "closed"
        <5>1. out = "closed" /\ c.substream = None /\ negotiating[p, Outbound] = None
          BY <2>6, <2>9, <3>1, <4>3, Zenon DEF Agrees, Reads
        <5>2. \A s \in SubstreamId : ~Awaits(c, s)
          BY <5>1, NoneApart, Zenon DEF Awaits
        <5>3. ~Owing(c) /\ out \in OutboundState
          BY <4>3, <5>1, Zenon DEF Owing, OutboundState
        <5> QED BY <4>1, <5>1, <5>2, <5>3, Zenon
      <4>4. CASE c.kind = "validating"
        <5>1. out = c.outbound
          BY <3>1, <4>4, Zenon
        <5>2. (out # "closed" => c.substream # None) /\ (negotiating[p, Outbound] # None <=> out = "negotiating")
          BY <2>6, <4>4, <5>1, Zenon DEF Agrees
        <5> QED BY <4>1, <4>4, <5>1, <5>2, Zenon DEF Owing, Awaits
      <4> QED BY <3>5, <4>2, <4>3, <4>4, Zenon
    <3>7. Agrees(d, 1, negotiating[p, Outbound], i, i)
      <4>1. "reading" \in InboundState /\ i # None
        BY <2>4, NoneApart, Zenon DEF InboundState
      <4>2. Agrees(Validating("reading", out, c.substream), 1, negotiating[p, Outbound], i, i)
        BY <3>6, <4>1, ValidatingAgrees, Zenon
      <4> QED BY <3>2, <4>2, Zenon
    <3>8. (\A s \in SubstreamId : Awaits(c, s) => Awaits(d, s)) /\ (Owing(c) => Owing(d))
      BY <3>3, <3>6, Zenon DEF Awaits, Owing
    <3>9. Become(p, d) /\ d.inbound # "validating"
      BY <2>9, <3>1, <3>2, <3>3, Zenon
    <3> QED BY <2>4, <2>5, <2>8, <2>9, <3>3, <3>4, <3>5, <3>7, <3>8, <3>9, Zenon
  <2>10. ASSUME Replaced(c), Become(p, ValidationPending(TRUE)), inbound' = NoInbound(p), UNCHANGED negotiating
         PROVE  Whole'
    <3>1. PICK d : d = ValidationPending(TRUE)
      BY Zenon
    <3>2. Agrees(d, 1, None, None, None) /\ d.substream = None /\ d.inbound # "validating"
      BY <3>1, PendingAgrees, PendingFields, Zenon
    <3>3. c.kind = "validating" /\ c.outbound = "closed" /\ c.inbound = "validating"
      BY <2>10, Zenon DEF Replaced
    <3>4. negotiating[p, Outbound] = None /\ negotiating[p, Inbound] = None
      BY <2>6, <3>3, Zenon DEF Agrees
    <3>5. (\A s : ~Awaits(c, s)) /\ ~Owing(c) /\ c.kind # "open"
      BY <3>3, Zenon DEF Awaits, Owing
    <3>6. negotiating \in [Peer \X Directions -> Ids \cup {None}]
      BY <2>0, Zenon DEF TypeOK
    <3> QED BY <2>8, <2>10, <3>1, <3>2, <3>4, <3>5, <3>6, Zenon DEF NoInbound
  <2>11. ASSUME UNCHANGED <<peers, negotiating, inbound>> PROVE Whole'
    <3>1. TypeOK'
      BY <2>0, <2>3, <2>4, <2>5, <2>11, Zenon DEF TypeOK
    <3>2. ValidationIsAsked'
      BY <2>0, <2>3, <2>5, <2>11, <1>AskedMore, Zenon
    <3> QED BY <2>3, <2>11, <3>1, <3>2, QuietStep, Zenon
  <2> QED BY <2>1, <2>2, <2>9, <2>10, <2>11, Zenon DEF InboundSubstream
<1> QED BY <1>1, Zenon

-----------------------------------------------------------------------------
(* The end of a stream *)

(* Nothing is negotiated with the peer p any more, and the user does not   *)
(* wait for it.                                                            *)
Detached(p) ==
  /\ negotiating' \in [Peer \X Directions -> Ids \cup {None}]
  /\ negotiating'[p, Inbound] = None /\ negotiating'[p, Outbound] = None
  /\ \A q \in Peer, e \in Directions : q # p => negotiating'[q, e] = negotiating[q, e]
  /\ inbound' \in [Peer -> InboundId \cup {None}]
  /\ \A q \in Peer : q # p => inbound'[q] = inbound[q]
  /\ owed' \subseteq owed /\ (config.auto_accept => p \notin owed')

(* What a handler that closes a stream leaves alone. *)
CloseFrame ==
  /\ UNCHANGED <<sessions, requested, answers, pending_outbound, received, asked, config, tasks,
                 shutdowns, events, handle_peers, to_validate>>
  /\ ready' \in Seq(Peer \X Directions \X Ids) /\ timers' \subseteq Peer
  /\ validations' \in [InboundId -> {"none", "queued", "held"} \cup Result]
  /\ commands' \in Seq([kind : {"open", "close"}, peer : Peer])

(* A handler gives the peer p, with which nothing is negotiated any more,  *)
(* the state d.                                                            *)
LEMMA EndStep ==
  ASSUME Constants, Whole, NEW p \in Peer, NEW d, Become(p, d),
         Agrees(d, sessions[p], None, None, inbound'[p]), d.inbound # "validating",
         d.substream # None => requested[d.substream] = p, Settled(p), Detached(p), CloseFrame,
         ValidationIsAsked', \A s \in SubstreamId : requested[s] = p /\ answers[s] = 0 => Awaits(d, s)
  PROVE  Whole'
<1>0. TypeOK
  BY Zenon DEF Whole
<1>1. TypeOK'
  <2>1. /\ peers' \in [Peer -> PeerState]
        /\ \A q \in Peer : peers'[q].kind \in {"initiated", "open"} => peers'[q].substream # None
    BY <1>0, NewState, Zenon
  <2>2. owed' \subseteq Peer
    BY <1>0, Zenon DEF TypeOK, Detached
  <2>3. /\ negotiating' \in [Peer \X Directions -> Ids \cup {None}]
        /\ inbound' \in [Peer -> InboundId \cup {None}]
    BY Zenon DEF Detached
  <2> QED BY <1>0, <2>1, <2>2, <2>3, Zenon DEF TypeOK, CloseFrame
<1>2. RequestsKept(p) /\ UNCHANGED <<config, tasks, shutdowns>>
  BY Zenon DEF CloseFrame, RequestsKept
<1>3. Others(p)
  BY Zenon DEF Others, Detached, CloseFrame, Directions
<1>4. Fits(p, d)
  <2>1. UNCHANGED <<sessions, requested, answers>>
    BY Zenon DEF CloseFrame
  <2>2. negotiating'[p, Inbound] = None /\ negotiating'[p, Outbound] = None
    BY Zenon DEF Detached
  <2> QED BY <2>1, <2>2, Zenon DEF Fits
<1>5. Owes(p, d)
  BY Zenon DEF Owes, Detached
<1> QED BY <1>1, <1>2, <1>3, <1>4, <1>5, HandlerStep, Zenon

(* No substream but u, which may be None, is being opened for the peer p. *)
Opening(p, u) ==
  /\ u \in SubstreamId \cup {None} /\ (u # None => requested[u] = p)
  /\ \A s \in SubstreamId : requested[s] = p /\ answers[s] = 0 => s = u

(* A handler closes the stream of the peer p. *)
LEMMA CloseStep ==
  ASSUME Constants, Whole, NEW p \in Peer, NEW u, Opening(p, u), Become(p, Closed(u)),
         sessions[p] = 1, Settled(p), Detached(p), CloseFrame, ValidationIsAsked'
  PROVE  Whole'
<1>0. /\ u \in SubstreamId \cup {None} /\ (u # None => requested[u] = p)
      /\ \A s \in SubstreamId : requested[s] = p /\ answers[s] = 0 => s = u
  BY Zenon DEF Opening
<1>1. PICK d : d = Closed(u) /\ Become(p, d)
  BY Zenon
<1>2. d.kind = "closed" /\ d.substream = u /\ d.inbound # "validating"
  BY <1>1, ClosedFields, Zenon
<1>3. Agrees(d, sessions[p], None, None, inbound'[p])
  BY <1>0, <1>1, ClosedAgrees, Zenon
<1>4. \A s \in SubstreamId : requested[s] = p /\ answers[s] = 0 => Awaits(d, s)
  BY <1>0, <1>2, Zenon DEF Awaits
<1> QED BY <1>0, <1>1, <1>2, <1>3, <1>4, EndStep, Zenon

(* The substream that is still being opened for a peer that is validated.  *)
LEMMA StillOpening ==
  ASSUME Constants, Whole, NEW p \in Peer, NEW c, c = peers[p], c.kind = "validating",
         NEW u, u = pending_open(c)
  PROVE  Opening(p, u) /\ sessions[p] = 1 /\ Settled(p)
<1>1. u \in SubstreamId \cup {None} /\ (u # None => requested[u] = p)
  <2>1. c.substream \in SubstreamId \cup {None} /\ (c.substream # None => requested[c.substream] = p)
    BY PeerTypes, PeerAgrees, Zenon
  <2> QED BY <2>1, Zenon DEF pending_open
<1>2. \A s \in SubstreamId : requested[s] = p /\ answers[s] = 0 => s = u
  <2>1. c.kind \notin {"closed", "initiated"}
    BY Zenon
  <2>2. ASSUME NEW s \in SubstreamId, requested[s] = p, answers[s] = 0 PROVE s = u
    <3>1. Awaits(c, s)
      BY <2>2, PeerAwaits, Zenon
    <3> QED BY <2>1, <3>1, Zenon DEF Awaits, pending_open
  <2> QED BY <2>2, Zenon
<1>3. c.kind \notin {"absent", "dialing", "pending", "open"}
  BY Zenon
<1>4. sessions[p] = 1
  <2>1. /\ Agrees(c, sessions[p], negotiating[p, Outbound], negotiating[p, Inbound], inbound[p])
        /\ sessions[p] \in {0, 1}
    BY PeerAgrees, PeerTypes, Zenon
  <2> QED BY <1>3, <2>1, Zenon DEF Agrees
<1>5. Settled(p)
  BY <1>3, NotOpenSettled, Zenon DEF Whole
<1> QED BY <1>1, <1>2, <1>4, <1>5, Zenon DEF Opening

(* The timer of a negotiation keeps the invariant. *)
LEMMA TimerFiresStep ==
  ASSUME Constants, Whole, NEW p \in Peer, TimerFires(p)
  PROVE  Whole'
<1>0. TypeOK /\ ValidationIsAsked
  BY Zenon DEF Whole
<1>1. /\ timers' \in {timers, timers \ {p}}
      /\ UNCHANGED <<sessions, requested, answers, pending_outbound, negotiating, ready, inbound,
                     validations, received, asked, config, tasks, shutdowns, commands, events,
                     handle_peers, to_validate>>
  BY Zenon DEF TimerFires, service, handshakes, arrivals, user
<1>2. timers' \subseteq Peer /\ ValidationIsAsked'
  BY <1>0, <1>1, AskedKept, Zenon DEF TypeOK
<1>3. CASE NoAnswer(peers[p])
  <2>1. Become(p, Closed(None)) /\ Fails(p)
    BY <1>3, Zenon DEF TimerFires
  <2>2. PICK c : c = peers[p]
    BY Zenon
  <2>3. c.kind = "validating" /\ c.outbound = "open" /\ c.inbound = "closed"
    BY <1>3, <2>2, Zenon DEF NoAnswer
  <2>4. pending_open(c) = None
    BY <2>3, Zenon DEF pending_open
  <2>5. Opening(p, None) /\ sessions[p] = 1 /\ Settled(p)
    BY <2>2, <2>3, <2>4, StillOpening, Zenon
  <2>6. negotiating[p, Outbound] = None /\ negotiating[p, Inbound] = None
    <3>1. Agrees(c, sessions[p], negotiating[p, Outbound], negotiating[p, Inbound], inbound[p])
      BY <2>2, PeerAgrees, Zenon
    <3> QED BY <2>3, <3>1, Zenon DEF Agrees
  <2>7. Detached(p)
    BY <1>0, <1>1, <2>1, <2>6, Zenon DEF Detached, Fails, TypeOK
  <2>8. CloseFrame
    BY <1>0, <1>1, <1>2, Zenon DEF CloseFrame, TypeOK
  <2> QED BY <1>2, <2>1, <2>5, <2>7, <2>8, CloseStep, Zenon
<1>4. CASE ~NoAnswer(peers[p])
  <2>1. UNCHANGED <<peers, owed>>
    BY <1>4, Zenon DEF TimerFires
  <2>2. TypeOK'
    BY <1>0, <1>1, <1>2, <2>1, Zenon DEF TypeOK
  <2> QED BY <1>1, <1>2, <2>1, <2>2, QuietStep, Zenon
<1> QED BY <1>3, <1>4, Zenon

(* on_close_substream keeps the invariant, if no message of the task is    *)
(* due.                                                                    *)
LEMMA OnCloseSubstreamStep ==
  ASSUME Constants, LateShutdown = FALSE, Whole, Quiet, NEW p \in Peer, OnCloseSubstream(p)
  PROVE  Whole'
<1>0. TypeOK /\ ValidationIsAsked
  BY Zenon DEF Whole
<1>1. /\ Prompt(p) /\ UNCHANGED <<requested, pending_outbound, owed>>
      /\ IF peers[p].kind = "open" THEN Become(p, Closed(None)) ELSE UNCHANGED peers
  BY Zenon DEF OnCloseSubstream, service
<1>2. CommandFrame
  <2>1. commands' \in Seq([kind : {"open", "close"}, peer : Peer])
    BY <1>0, ReceiveEffect, Zenon DEF OnCloseSubstream
  <2> QED BY <2>1, Zenon DEF CommandFrame, OnCloseSubstream, service, handshakes, arrivals
<1>3. ValidationIsAsked'
  BY <1>0, <1>2, AskedKept, Zenon DEF CommandFrame
<1>4. CASE peers[p].kind = "open"
  <2>1. PICK c : c = peers[p]
    BY Zenon
  <2>2. /\ Agrees(c, sessions[p], negotiating[p, Outbound], negotiating[p, Inbound], inbound[p])
        /\ sessions[p] \in {0, 1}
    BY <2>1, PeerAgrees, PeerTypes, Zenon
  <2>3. c.kind = "open" /\ c.kind \notin {"absent", "dialing", "pending", "validating", "closed", "initiated"}
        /\ "closed" # "initiated"
    BY <1>4, <2>1, Zenon
  <2>4. /\ sessions[p] = 1 /\ negotiating[p, Outbound] = None /\ negotiating[p, Inbound] = None
        /\ c.outbound = "closed"
    BY <2>2, <2>3, Zenon DEF Agrees
  <2>5. ~Owing(c) /\ \A s : ~Awaits(c, s)
    BY <2>3, <2>4, Zenon DEF Owing, Awaits
  <2>6. Opening(p, None)
    BY <2>1, <2>5, PeerAwaits, Zenon DEF Opening
  <2>7. config.auto_accept => p \notin owed
    BY <2>1, <2>5, NotOwed, Zenon
  <2>8. Detached(p)
    BY <1>0, <1>1, <1>2, <2>4, <2>7, Zenon DEF Detached, CommandFrame, TypeOK
  <2>9. CloseFrame
    BY <1>0, <1>1, <1>2, Zenon DEF CloseFrame, CommandFrame, TypeOK
  <2>10. Settled(p) /\ Become(p, Closed(None))
    BY <1>1, <1>4, PromptSettled, Zenon
  <2> QED BY <1>3, <2>4, <2>6, <2>8, <2>9, <2>10, CloseStep, Zenon
<1>5. CASE peers[p].kind # "open"
  <2>1. TypeOK'
    BY <1>0, <1>1, <1>2, <1>5, Zenon DEF TypeOK, CommandFrame
  <2> QED BY <1>1, <1>2, <1>3, <1>5, <2>1, QuietStep, Zenon DEF CommandFrame
<1> QED BY <1>4, <1>5, Zenon

-----------------------------------------------------------------------------
(* Handshakes *)

(* The substream of direction e gets the id n: what else was negotiated    *)
(* stays.                                                                  *)
LEMMA DirectionEffect ==
  ASSUME TypeOK, Constants, NEW p \in Peer, NEW e \in Directions, NEW n \in Ids \cup {None},
         negotiating' = Negotiate(p, e, n)
  PROVE  /\ negotiating' \in [Peer \X Directions -> Ids \cup {None}]
         /\ \A q \in Peer, f \in Directions : q # p => negotiating'[q, f] = negotiating[q, f]
         /\ e = Outbound => negotiating'[p, Outbound] = n /\ negotiating'[p, Inbound] = negotiating[p, Inbound]
         /\ e = Inbound => negotiating'[p, Inbound] = n /\ negotiating'[p, Outbound] = negotiating[p, Outbound]
<1>1. /\ negotiating' \in [Peer \X Directions -> Ids \cup {None}]
      /\ negotiating'[p, e] = n
      /\ \A q \in Peer, f \in Directions : q # p \/ f # e => negotiating'[q, f] = negotiating[q, f]
  BY NegotiateEffect, Zenon
<1>2. Outbound \in Directions /\ Inbound \in Directions /\ Inbound # Outbound
  BY NoneApart, Zenon DEF Directions
<1> QED BY <1>1, <1>2, Zenon

(* The state that on_handshake_event computes for a peer whose substream of *)
(* direction e was being negotiated.                                        *)
NegotiatedState(p, e) == IF e = Outbound THEN OutboundNegotiated(p) ELSE InboundNegotiated(p)

(* What is known of the state that on_handshake_event computes. *)
NegotiatedAs(p, e, s, in, out) ==
  /\ NegotiatedState(p, e) = Validating(in, out, s)
  /\ e = Outbound => out = "open" /\ (negotiating[p, Inbound] # None <=> in \in {"reading", "sending"})
  /\ e = Inbound => /\ in \in {"sending", "validating", "open"} /\ inbound[p] # None
                    /\ negotiating[p, Outbound] # None <=> out = "negotiating"
  /\ (out # "closed" => s # None) /\ (in # "closed" => inbound[p] # None)
  /\ \A u \in SubstreamId : requested[u] = p /\ answers[u] = 0 => s = u /\ out = "initiated"
  /\ config.auto_accept => (p \in owed => out # "closed") /\ (in = "validating" => out = "closed")

HasFields(c, in, out, s) ==
  c.kind = "validating" /\ c.inbound = in /\ c.outbound = out /\ c.substream = s

(* What on_handshake_event leaves alone. *)
HandshakeFrame ==
  /\ ready' \in Seq(Peer \X Directions \X Ids)
  /\ UNCHANGED <<sessions, requested, answers, pending_outbound, received, asked, config,
                 shutdowns, commands, handle_peers, to_validate>>

(* on_handshake_event keeps the invariant, for a handshake that has ended  *)
(* well and for one that has failed.                                       *)
LEMMA HandshakeEventSteps ==
  ASSUME Constants, Whole
  PROVE  \A p \in Peer, e \in Directions :
           negotiating[p, e] # None /\ HandshakeFrame =>
             /\ \A id : Negotiated(p, e, id) => Whole'
             /\ NegotiationError(p) => Whole'
<1>OutboundCase.
  ASSUME NEW p \in Peer, negotiating[p, Outbound] # None, NEW c, c = peers[p]
  PROVE  /\ c.kind = "validating" /\ c.outbound = "negotiating" /\ sessions[p] = 1
         /\ NegotiatedState(p, Outbound) = Validating(c.inbound, "open", c.substream)
  <2> USE <1>OutboundCase
  <2>1. /\ Agrees(c, sessions[p], negotiating[p, Outbound], negotiating[p, Inbound], inbound[p])
        /\ sessions[p] \in {0, 1}
    BY PeerAgrees, PeerTypes, Zenon
  <2>2. c.kind = "validating" /\ c.outbound = "negotiating"
    BY <2>1, Zenon DEF Agrees
  <2>3. c.kind \notin {"absent", "dialing", "pending"}
    BY <2>2, Zenon
  <2>4. sessions[p] = 1
    BY <2>1, <2>3, Zenon DEF Agrees
  <2> QED BY <2>2, <2>4, Zenon DEF NegotiatedState, OutboundNegotiated
<1>InboundCase.
  ASSUME NEW p \in Peer, negotiating[p, Inbound] # None, NEW c, c = peers[p]
  PROVE  /\ c.kind = "validating" /\ c.inbound \in {"reading", "sending"} /\ sessions[p] = 1
         /\ inbound[p] # None
         /\ NegotiatedState(p, Inbound) =
              IF c.inbound = "reading"
                THEN Validating(IF AutoAccepts(c) THEN "sending" ELSE "validating", c.outbound, c.substream)
                ELSE Validating("open", c.outbound, c.substream)
  <2> USE <1>InboundCase
  <2>1. /\ Agrees(c, sessions[p], negotiating[p, Outbound], negotiating[p, Inbound], inbound[p])
        /\ sessions[p] \in {0, 1}
    BY PeerAgrees, PeerTypes, Zenon
  <2>2. c.kind = "validating" /\ c.inbound \in {"reading", "sending"}
    BY <2>1, Zenon DEF Agrees
  <2>3. c.kind \notin {"absent", "dialing", "pending"} /\ c.inbound # "closed"
    BY <2>2, Zenon
  <2>4. sessions[p] = 1 /\ inbound[p] # None
    BY <2>1, <2>3, Zenon DEF Agrees
  <2>5. "reading" # "sending" /\ Inbound # Outbound
    BY NoneApart, Zenon
  <2>6. CASE c.inbound = "reading"
    BY <2>2, <2>4, <2>5, <2>6, Zenon DEF NegotiatedState, InboundNegotiated
  <2>7. CASE c.inbound = "sending"
    BY <2>2, <2>4, <2>5, <2>7, Zenon DEF NegotiatedState, InboundNegotiated
  <2> QED BY <2>2, <2>6, <2>7, Zenon
<1>NegotiatedFields.
  ASSUME NEW p, NEW e, NEW s, NEW in, NEW out, NegotiatedAs(p, e, s, in, out)
  PROVE  \E c : c = NegotiatedState(p, e) /\ HasFields(c, in, out, s)
  <2> USE <1>NegotiatedFields
  <2>1. PICK c : c = Validating(in, out, s)
    BY Zenon
  <2>2. c.kind = "validating" /\ c.inbound = in /\ c.outbound = out /\ c.substream = s
    BY <2>1, ValidatingFields
  <2>3. HasFields(c, in, out, s)
    BY <2>2, Zenon DEF HasFields
  <2> QED BY <2>1, <2>3, Zenon DEF NegotiatedAs
<1>NegotiatedFacts.
  ASSUME NEW p \in Peer, NEW e \in Directions, negotiating[p, e] # None,
         NEW s, s = peers[p].substream
  PROVE  \E in \in InboundState, out \in OutboundState : NegotiatedAs(p, e, s, in, out)
  <2> USE <1>NegotiatedFacts
  <2>1. PICK c : c = peers[p]
    BY Zenon
  <2>2. /\ c.inbound \in InboundState /\ c.outbound \in OutboundState
        /\ Agrees(c, sessions[p], negotiating[p, Outbound], negotiating[p, Inbound], inbound[p])
    BY <2>1, PeerTypes, PeerAgrees, Zenon
  <2>3. ASSUME c.kind = "validating" PROVE
          /\ negotiating[p, Inbound] # None <=> c.inbound \in {"reading", "sending"}
          /\ negotiating[p, Outbound] # None <=> c.outbound = "negotiating"
          /\ (c.outbound # "closed" => s # None) /\ (c.inbound # "closed" => inbound[p] # None)
          /\ \A u \in SubstreamId : requested[u] = p /\ answers[u] = 0 => s = u /\ c.outbound = "initiated"
          /\ config.auto_accept =>
               (p \in owed => c.outbound # "closed") /\ (c.inbound = "validating" => c.outbound = "closed")
    <3>1. "validating" \notin {"closed", "initiated", "dialing"}
      BY Zenon
    <3>2. \A u \in SubstreamId : requested[u] = p /\ answers[u] = 0 => s = u /\ c.outbound = "initiated"
      <4>1. \A u \in SubstreamId : requested[u] = p /\ answers[u] = 0 => Awaits(c, u)
        BY <2>1, PeerAwaits, Zenon
      <4> QED BY <2>1, <2>3, <3>1, <4>1, Zenon DEF Awaits
    <3>3. config.auto_accept =>
            (p \in owed => c.outbound # "closed") /\ (c.inbound = "validating" => c.outbound = "closed")
      <4>1. config.auto_accept =>
              (p \in owed => Owing(c)) /\ (c.inbound = "validating" => c.outbound = "closed")
        BY <2>1, PeerOwes, Zenon
      <4> QED BY <2>3, <3>1, <4>1, Zenon DEF Owing
    <3> QED BY <2>1, <2>2, <2>3, <3>2, <3>3, Zenon DEF Agrees
  <2>4. CASE e = Outbound
    <3>1. /\ c.kind = "validating" /\ c.outbound = "negotiating"
          /\ NegotiatedState(p, e) = Validating(c.inbound, "open", s)
      BY <2>1, <2>4, <1>OutboundCase, Zenon
    <3>2. /\ "open" \in OutboundState /\ "open" # "closed" /\ "negotiating" # "initiated"
          /\ "negotiating" # "closed" /\ Outbound # Inbound
      BY NoneApart, Zenon DEF OutboundState
    <3>3. /\ negotiating[p, Inbound] # None <=> c.inbound \in {"reading", "sending"}
          /\ s # None /\ (c.inbound # "closed" => inbound[p] # None)
          /\ \A u \in SubstreamId : ~(requested[u] = p /\ answers[u] = 0)
          /\ config.auto_accept => c.inbound # "validating"
      BY <2>3, <3>1, <3>2, Zenon
    <3>4. NegotiatedAs(p, e, s, c.inbound, "open")
      BY <2>4, <3>1, <3>2, <3>3, Zenon DEF NegotiatedAs
    <3> QED BY <2>2, <3>2, <3>4, Zenon
  <2>5. CASE e = Inbound
    <3>1. /\ c.kind = "validating" /\ c.inbound \in {"reading", "sending"} /\ inbound[p] # None
          /\ NegotiatedState(p, e) =
               IF c.inbound = "reading"
                 THEN Validating(IF AutoAccepts(c) THEN "sending" ELSE "validating", c.outbound, s)
                 ELSE Validating("open", c.outbound, s)
      BY <2>1, <2>5, <1>InboundCase, Zenon
    <3>2. PICK in : in = IF c.inbound = "reading" THEN IF AutoAccepts(c) THEN "sending" ELSE "validating"
                                                  ELSE "open"
      BY Zenon
    <3>3. NegotiatedState(p, e) = Validating(in, c.outbound, s)
      BY <3>1, <3>2, Zenon
    <3>4. in \in {"sending", "validating", "open"} /\ (config.auto_accept /\ in = "validating" => c.outbound = "closed")
      BY <3>2, Zenon DEF AutoAccepts
    <3>5. in \in InboundState /\ Outbound # Inbound
      BY <3>4, NoneApart, Zenon DEF InboundState
    <3>6. /\ negotiating[p, Outbound] # None <=> c.outbound = "negotiating"
          /\ c.outbound # "closed" => s # None
          /\ \A u \in SubstreamId : requested[u] = p /\ answers[u] = 0 => s = u /\ c.outbound = "initiated"
          /\ config.auto_accept => (p \in owed => c.outbound # "closed")
      BY <2>3, <3>1, Zenon
    <3>7. NegotiatedAs(p, e, s, in, c.outbound)
      BY <2>5, <3>1, <3>3, <3>4, <3>5, <3>6, Zenon DEF NegotiatedAs
    <3> QED BY <2>2, <3>5, <3>7, Zenon
  <2> QED BY <2>4, <2>5, Zenon DEF Directions
(* A stream opens: no task has said that it has ended. *)
<1>StreamOpens.
  ASSUME NEW p \in Peer, NEW s \in SubstreamId, requested[s] = p, peers[p].kind # "open",
         tasks' = [tasks EXCEPT ![s] = "running"], UNCHANGED <<requested, shutdowns>>,
         \A q \in Peer : q # p => peers'[q] = peers[q]
  PROVE  ShutdownIsOpen' /\ tasks' \in [SubstreamId -> {"none", "running", "closing", "reporting"}]
  <2> USE <1>StreamOpens
  <2>0. TypeOK /\ ShutdownIsOpen /\ Settled(p)
    BY NotOpenSettled, Zenon DEF Whole
  <2>1. /\ tasks' \in [SubstreamId -> {"none", "running", "closing", "reporting"}] /\ tasks'[s] = "running"
        /\ \A u \in SubstreamId : u # s => tasks'[u] = tasks[u]
    BY <2>0, Zenon DEF TypeOK
  <2>2. ASSUME NEW u \in SubstreamId
        PROVE  /\ tasks'[u] # "none" => requested'[u] # None
               /\ tasks'[u] = "closing" =>
                    /\ peers'[requested'[u]] = Open(u)
                    /\ \A k \in 1 .. Len(shutdowns') : shutdowns'[k] # requested'[u]
    <3>1. CASE u = s
      BY <2>1, <3>1, NoneApart, Zenon
    <3>2. CASE u # s
      <4>1. /\ tasks[u] # "none" => requested[u] # None
            /\ tasks[u] = "closing" =>
                 /\ peers[requested[u]] = Open(u)
                 /\ \A k \in 1 .. Len(shutdowns) : shutdowns[k] # requested[u]
        BY <2>0, Zenon DEF ShutdownIsOpen
      <4>2. requested[u] \in Peer \cup {None} /\ (tasks[u] = "closing" => requested[u] # p)
        BY <2>0, Zenon DEF TypeOK, Settled
      <4>3. "closing" # "none" /\ tasks'[u] = tasks[u]
        BY <2>1, <3>2, Zenon
      <4>4. tasks[u] = "closing" => requested[u] \in Peer /\ peers'[requested[u]] = peers[requested[u]]
        BY <4>1, <4>2, <4>3, Zenon
      <4> QED BY <4>1, <4>3, <4>4, Zenon
    <3> QED BY <3>1, <3>2, Zenon
  <2>3. ASSUME NEW k \in 1 .. Len(shutdowns)
        PROVE  /\ peers'[shutdowns[k]].kind = "open" /\ tasks'[peers'[shutdowns[k]].substream] # "running"
               /\ \A j \in 1 .. Len(shutdowns) : shutdowns[j] = shutdowns[k] => j = k
    <3>1. PICK q \in Peer : q = shutdowns[k] /\ q # p
      <4>1. shutdowns \in Seq(Peer)
        BY <2>0, Zenon DEF TypeOK
      <4>2. shutdowns[k] \in Peer
        BY <4>1
      <4> QED BY <2>0, <4>2, Zenon DEF Settled
    <3>2. /\ peers[q].kind = "open" /\ tasks[peers[q].substream] # "running"
          /\ \A j \in 1 .. Len(shutdowns) : shutdowns[j] = shutdowns[k] => j = k
      BY <2>0, <3>1, Zenon DEF ShutdownIsOpen
    <3>3. peers[q].substream \in SubstreamId /\ requested[peers[q].substream] = q
      <4>1. peers[q].substream # None
        BY <2>0, <3>2, Zenon DEF TypeOK
      <4>2. PICK c : c = peers[q]
        BY Zenon
      <4>3. c.substream \in SubstreamId \cup {None}
        BY <4>2, PeerTypes, Zenon
      <4>4. c.substream # None => requested[c.substream] = q
        BY <4>2, PeerAgrees, Zenon
      <4> QED BY <4>1, <4>2, <4>3, <4>4, Zenon
    <3>4. peers[q].substream # s
      BY <3>1, <3>3, Zenon
    <3> QED BY <2>1, <3>1, <3>2, <3>3, <3>4, Zenon
  <2>4. \A k \in 1 .. Len(shutdowns') :
          /\ peers'[shutdowns'[k]].kind = "open" /\ tasks'[peers'[shutdowns'[k]].substream] # "running"
          /\ \A j \in 1 .. Len(shutdowns') : shutdowns'[j] = shutdowns'[k] => j = k
    BY <2>3, Zenon
  <2>5. ShutdownIsOpen'
    BY <2>2, <2>4, Zenon DEF ShutdownIsOpen
  <2> QED BY <2>1, <2>5, Zenon
<1>1.
  ASSUME NEW p \in Peer, NEW e \in Directions, negotiating[p, e] # None,
         NEW id, Negotiated(p, e, id), HandshakeFrame
  PROVE  Whole'
  <2> USE <1>1
  <2>0. TypeOK /\ ValidationIsAsked /\ ShutdownIsOpen
    BY Zenon DEF Whole
  <2>1. PICK s : s = peers[p].substream
    BY Zenon
  <2>2. PICK in \in InboundState, out \in OutboundState : NegotiatedAs(p, e, s, in, out)
    BY <2>1, <1>NegotiatedFacts, Zenon
  <2>3. PICK c : c = NegotiatedState(p, e) /\ HasFields(c, in, out, s)
    BY <2>2, <1>NegotiatedFields, Zenon
  <2>4. c.kind = "validating" /\ c.inbound = in /\ c.outbound = out /\ c.substream = s
    BY <2>3, Zenon DEF HasFields
  <2>5. /\ negotiating' = Negotiate(p, e, IF e = Inbound /\ c.inbound = "sending" THEN inbound[p] ELSE None)
        /\ Become(p, IF FullyOpen(c) THEN Open(c.substream) ELSE c)
        /\ timers' = IF FullyOpen(c) \/ (e = Inbound /\ c.inbound = "sending") THEN timers ELSE timers \cup {p}
    BY <2>3, Zenon DEF Negotiated, NegotiatedState
  <2>6. /\ IF FullyOpen(c)
             THEN /\ tasks' = [tasks EXCEPT ![c.substream] = "running"]
                  /\ inbound' = NoInbound(p)
             ELSE UNCHANGED <<tasks, inbound>>
        /\ owed' = IF FullyOpen(c) THEN owed \ {p} ELSE owed
        /\ IF e = Inbound /\ c.inbound = "validating"
             THEN validations' = [validations EXCEPT ![inbound[p]] = "queued"]
             ELSE UNCHANGED validations
    BY <2>3, Zenon DEF Negotiated, NegotiatedState
  <2>7. IF e = Inbound /\ c.inbound = "validating"
          THEN Report("validate", p, inbound[p])
          ELSE IF FullyOpen(c) THEN Report("opened", p, c.substream) ELSE UNCHANGED events
    <3>1. FullyOpen(c) => ~(e = Inbound /\ c.inbound = "validating")
      BY Zenon DEF FullyOpen
    <3>2. (CASE e = Inbound /\ c.inbound = "validating" -> Report("validate", p, inbound[p])
             [] FullyOpen(c) -> Report("opened", p, c.substream)
             [] OTHER -> UNCHANGED events)
      BY <2>3, Zenon DEF Negotiated, NegotiatedState
    <3> QED BY <3>1, <3>2, Zenon
  <2>8. FullyOpen(c) <=> in = "open" /\ out = "open"
    BY <2>4, Zenon DEF FullyOpen
  <2>9. /\ inbound[p] \in InboundId \cup {None} /\ s \in SubstreamId \cup {None}
        /\ sessions[p] = 1 /\ peers[p].kind # "open"
    <3>1. inbound[p] \in InboundId \cup {None} /\ s \in SubstreamId \cup {None}
      BY <2>1, PeerTypes, Zenon
    <3>2. e \in {Inbound, Outbound}
      BY Zenon DEF Directions
    <3>3. sessions[p] = 1 /\ peers[p].kind = "validating"
      <4>1. CASE e = Outbound
        BY <4>1, <1>OutboundCase, Zenon
      <4>2. CASE e = Inbound
        BY <4>2, <1>InboundCase, Zenon
      <4> QED BY <3>2, <4>1, <4>2, Zenon
    <3> QED BY <3>1, <3>3, Zenon
  <2>10. /\ negotiating' \in [Peer \X Directions -> Ids \cup {None}]
         /\ \A q \in Peer, f \in Directions : q # p => negotiating'[q, f] = negotiating[q, f]
         /\ negotiating'[p, Outbound] # None <=> out = "negotiating"
         /\ negotiating'[p, Inbound] # None <=> in \in {"reading", "sending"}
    <3>1. PICK n : n = IF e = Inbound /\ in = "sending" THEN inbound[p] ELSE None
      BY Zenon
    <3>2. n \in Ids \cup {None}
      BY <2>9, <3>1, Zenon DEF Ids
    <3>3. negotiating' = Negotiate(p, e, n)
      BY <2>4, <2>5, <3>1, Zenon
    <3>4. /\ negotiating' \in [Peer \X Directions -> Ids \cup {None}]
          /\ \A q \in Peer, f \in Directions : q # p => negotiating'[q, f] = negotiating[q, f]
          /\ e = Outbound => negotiating'[p, Outbound] = n /\ negotiating'[p, Inbound] = negotiating[p, Inbound]
          /\ e = Inbound => negotiating'[p, Inbound] = n /\ negotiating'[p, Outbound] = negotiating[p, Outbound]
      BY <2>0, <3>2, <3>3, DirectionEffect, Zenon
    <3>5. CASE e = Outbound
      <4>1. n = None /\ out = "open" /\ (negotiating[p, Inbound] # None <=> in \in {"reading", "sending"})
        BY <2>2, <3>1, <3>5, NoneApart, Zenon DEF NegotiatedAs
      <4> QED BY <3>4, <3>5, <4>1, Zenon
    <3>6. CASE e = Inbound
      <4>1. /\ in \in {"sending", "validating", "open"} /\ inbound[p] # None
            /\ negotiating[p, Outbound] # None <=> out = "negotiating"
        BY <2>2, <3>6, Zenon DEF NegotiatedAs
      <4>2. n # None <=> in = "sending"
        BY <3>1, <3>6, <4>1, Zenon
      <4>3. in = "sending" <=> in \in {"reading", "sending"}
        BY <4>1, Zenon
      <4> QED BY <3>4, <3>6, <4>1, <4>2, <4>3, Zenon
    <3> QED BY <3>4, <3>5, <3>6, Zenon DEF Directions
  <2>11. /\ (out # "closed" => s # None) /\ (in # "closed" => inbound[p] # None)
         /\ \A u \in SubstreamId : requested[u] = p /\ answers[u] = 0 => s = u /\ out = "initiated"
         /\ config.auto_accept => (p \in owed => out # "closed") /\ (in = "validating" => out = "closed")
    BY <2>2, Zenon DEF NegotiatedAs
  <2>12. s # None => requested[s] = p
    BY <2>1, PeerAgrees, Zenon
  <2>13. RequestsKept(p)
    BY Zenon DEF HandshakeFrame, RequestsKept
  <2>14. CASE FullyOpen(c)
    <3>1. in = "open" /\ out = "open" /\ s \in SubstreamId /\ s # None
      <4>1. in = "open" /\ out = "open"
        BY <2>8, <2>14, Zenon
      <4>2. out # "closed"
        BY <4>1, Zenon
      <4> QED BY <2>9, <2>11, <4>1, <4>2, Zenon
    <3>2. PICK d : d = Open(s) /\ Become(p, d)
      BY <2>4, <2>5, <2>14, Zenon
    <3>3. /\ Agrees(d, 1, None, None, None) /\ d.substream = s /\ d.inbound # "validating"
      BY <3>1, <3>2, OpenAgrees, OpenFields, Zenon
    <3>4. negotiating'[p, Outbound] = None /\ negotiating'[p, Inbound] = None
      BY <2>10, <3>1, Zenon
    <3>5. /\ inbound' \in [Peer -> InboundId \cup {None}] /\ inbound'[p] = None
          /\ \A q \in Peer : q # p => inbound'[q] = inbound[q]
      BY <2>0, <2>6, <2>14, NoInboundEffect, Zenon
    <3>6. owed' \subseteq owed /\ p \notin owed' /\ timers' = timers
      BY <2>5, <2>6, <2>14, Zenon
    <3>7. Report("opened", p, s) /\ UNCHANGED validations
      <4>1. ~(e = Inbound /\ c.inbound = "validating")
        BY <2>4, <3>1, Zenon
      <4> QED BY <2>4, <2>6, <2>7, <2>14, <4>1, Zenon
    <3>8. Reported("opened", s)
      <4>1. "opened" \in {"validate", "opened", "closed"} /\ s \in Ids
        BY <3>1, Zenon DEF Ids
      <4> QED BY <2>0, <3>7, <4>1, ReportEffect, Zenon
    <3>9. ValidationIsAsked'
      <4>1. \A k \in 1 .. Len(events') : \/ k \in 1 .. Len(events) /\ events'[k] = events[k]
                                         \/ events'[k].kind # "validate"
        BY <3>8, Zenon DEF Reported
      <4>2. \A q \in Peer : inbound'[q] \in {None, inbound[q]}
        BY <3>5, Zenon
      <4> QED BY <2>0, <3>7, <4>1, <4>2, AskedReported, Zenon DEF HandshakeFrame
    <3>10. tasks' = [tasks EXCEPT ![s] = "running"] /\ requested[s] = p
      BY <2>4, <2>6, <2>12, <2>14, <3>1, Zenon
    <3>11. /\ peers' \in [Peer -> PeerState]
           /\ \A q \in Peer : q # p => peers'[q] = peers[q]
           /\ \A q \in Peer : peers'[q].kind \in {"initiated", "open"} => peers'[q].substream # None
      BY <2>0, <3>2, <3>3, NewState, Zenon
    <3>12. ShutdownIsOpen' /\ tasks' \in [SubstreamId -> {"none", "running", "closing", "reporting"}]
      BY <2>9, <3>1, <3>10, <3>11, <1>StreamOpens, Zenon DEF HandshakeFrame
    <3>13. TypeOK'
      BY <2>0, <2>10, <3>5, <3>6, <3>7, <3>8, <3>11, <3>12, Zenon DEF TypeOK, HandshakeFrame, Event, Reported
    <3>14. Others(p)
      BY <2>10, <3>5, <3>6, Zenon DEF Others, Directions, HandshakeFrame
    <3>15. Fits(p, d)
      <4>1. \A u \in SubstreamId : ~(requested[u] = p /\ answers[u] = 0)
        BY <2>11, <3>1, Zenon
      <4> QED BY <2>9, <3>3, <3>4, <3>5, <3>10, <4>1, Zenon DEF Fits, HandshakeFrame
    <3>16. Owes(p, d)
      BY <3>3, <3>6, Zenon DEF Owes
    <3>17. PeersAgree' /\ RequestsExpected'
      BY <2>13, <3>2, <3>13, <3>14, <3>15, <3>16, StateStep, Zenon DEF HandshakeFrame
    <3> QED BY <3>9, <3>12, <3>13, <3>17, Zenon DEF Whole
  <2>15. CASE ~FullyOpen(c)
    <3>1. Become(p, c) /\ UNCHANGED <<tasks, inbound, owed>>
      BY <2>5, <2>6, <2>15, Zenon
    <3>2. Agrees(c, 1, negotiating'[p, Outbound], negotiating'[p, Inbound], inbound[p])
      <4>1. Agrees(Validating(in, out, s), 1, negotiating'[p, Outbound], negotiating'[p, Inbound], inbound[p])
        BY <2>9, <2>10, <2>11, ValidatingAgrees, Zenon
      <4> QED BY <2>2, <2>3, <4>1, Zenon DEF NegotiatedAs
    <3>3. /\ validations' \in [InboundId -> {"none", "queued", "held"} \cup Result] /\ events' \in Seq(Event)
          /\ ValidationIsAsked'
      <4>1. /\ validations \in [InboundId -> {"none", "queued", "held"} \cup Result]
            /\ events \in Seq(Event)
        BY <2>0, Zenon DEF TypeOK, Event
      <4>2. CASE e = Inbound /\ in = "validating"
        <5>1. inbound[p] \in InboundId /\ asked[inbound[p]] # None
          <6>1. inbound[p] # None
            BY <2>2, <4>2, Zenon DEF NegotiatedAs
          <6> QED BY <2>0, <2>9, <6>1, Zenon DEF ValidationIsAsked
        <5>2. validations' = [validations EXCEPT ![inbound[p]] = "queued"] /\ Report("validate", p, inbound[p])
          BY <2>4, <2>6, <2>7, <2>15, <4>2, Zenon
        <5>3. /\ validations' \in [InboundId -> {"none", "queued", "held"} \cup Result]
              /\ \A i \in InboundId : validations'[i] # "none" => validations[i] # "none" \/ asked[i] # None
          BY <4>1, <5>1, <5>2, Zenon
        <5>4. Reported("validate", inbound[p])
          <6>1. "validate" \in {"validate", "opened", "closed"} /\ inbound[p] \in Ids
            BY <5>1, Zenon DEF Ids
          <6> QED BY <2>0, <5>2, <6>1, ReportEffect, Zenon
        <5>5. \A k \in 1 .. Len(events') :
                \/ k \in 1 .. Len(events) /\ events'[k] = events[k]
                \/ events'[k].id \in InboundId /\ asked[events'[k].id] # None
          BY <5>1, <5>4, Zenon DEF Reported
        <5>6. ValidationIsAsked'
          BY <2>0, <3>1, <5>3, <5>5, AskedReported, Zenon DEF HandshakeFrame
        <5> QED BY <5>3, <5>4, <5>6, Zenon DEF Reported
      <4>3. CASE ~(e = Inbound /\ in = "validating")
        <5>1. UNCHANGED <<validations, events>>
          BY <2>4, <2>6, <2>7, <2>15, <4>3, Zenon
        <5> QED BY <2>0, <3>1, <4>1, <5>1, AskedKept, Zenon DEF HandshakeFrame
      <4> QED BY <4>2, <4>3, Zenon
    <3>4. TypeOK'
      <4>1. /\ peers' \in [Peer -> PeerState]
            /\ \A q \in Peer : peers'[q].kind \in {"initiated", "open"} => peers'[q].substream # None
        BY <2>0, <3>1, <3>2, NewState, Zenon
      <4>2. timers' \subseteq Peer
        BY <2>0, <2>5, Zenon DEF TypeOK
      <4> QED BY <2>0, <2>10, <3>1, <3>3, <4>1, <4>2, Zenon DEF TypeOK, HandshakeFrame, Event
    <3>5. Others(p)
      BY <2>10, <3>1, Zenon DEF Others, Directions, HandshakeFrame
    <3>6. Fits(p, c)
      <4>1. \A u \in SubstreamId : requested[u] = p /\ answers[u] = 0 => Awaits(c, u)
        BY <2>4, <2>11, Zenon DEF Awaits
      <4> QED BY <2>4, <2>9, <2>12, <3>1, <3>2, <4>1, Zenon DEF Fits, HandshakeFrame
    <3>7. Owes(p, c)
      <4>1. out # "closed" => Owing(c)
        BY <2>4, Zenon DEF Owing
      <4> QED BY <2>4, <2>11, <3>1, <4>1, Zenon DEF Owes
    <3>8. Settled(p)
      BY <2>0, <2>9, NotOpenSettled, Zenon
    <3> QED BY <2>13, <3>1, <3>3, <3>4, <3>5, <3>6, <3>7, <3>8, HandlerStep, Zenon DEF HandshakeFrame
  <2> QED BY <2>14, <2>15, Zenon
<1>2.
  ASSUME NEW p \in Peer, NEW e \in Directions, negotiating[p, e] # None,
         NegotiationError(p), HandshakeFrame
  PROVE  Whole'
  <2> USE <1>2
  <2>0. TypeOK /\ ValidationIsAsked
    BY Zenon DEF Whole
  <2>1. PICK c : c = peers[p]
    BY Zenon
  <2>2. c.kind = "validating" /\ sessions[p] = 1
    <3>1. CASE e = Outbound
      BY <2>1, <3>1, <1>OutboundCase, Zenon
    <3>2. CASE e = Inbound
      BY <2>1, <3>2, <1>InboundCase, Zenon
    <3> QED BY <3>1, <3>2, Zenon DEF Directions
  <2>3. /\ negotiating' = RemoveBoth(p) /\ inbound' = NoInbound(p)
        /\ Become(p, Closed(pending_open(c))) /\ UNCHANGED <<tasks, validations, events>>
        /\ IF UserAwaits(c) THEN Fails(p) /\ UNCHANGED timers ELSE timers' = timers \cup {p} /\ UNCHANGED owed
    BY <2>1, <2>2, Zenon DEF NegotiationError
  <2>4. PICK u : u = pending_open(c)
    BY Zenon
  <2>5. Opening(p, u) /\ Settled(p)
    BY <2>1, <2>2, <2>4, StillOpening, Zenon
  <2>6. owed' \subseteq owed /\ (config.auto_accept => p \notin owed') /\ timers' \subseteq Peer
    <3>1. timers \subseteq Peer
      BY <2>0, Zenon DEF TypeOK
    <3>2. CASE UserAwaits(c)
      BY <2>3, <3>1, <3>2, Zenon DEF Fails
    <3>3. CASE ~UserAwaits(c)
      <4>1. ~Owing(c)
        BY <2>2, <3>3, Zenon DEF Owing, UserAwaits
      <4>2. config.auto_accept => p \notin owed
        BY <2>1, <4>1, NotOwed, Zenon
      <4> QED BY <2>3, <3>1, <3>3, <4>2, Zenon
    <3> QED BY <3>2, <3>3, Zenon
  <2>7. /\ negotiating' \in [Peer \X Directions -> Ids \cup {None}]
        /\ negotiating'[p, Inbound] = None /\ negotiating'[p, Outbound] = None
        /\ \A q \in Peer, f \in Directions : q # p => negotiating'[q, f] = negotiating[q, f]
    BY <2>0, <2>3, RemoveEffect, Zenon
  <2>8. /\ inbound' \in [Peer -> InboundId \cup {None}] /\ inbound'[p] = None
        /\ \A q \in Peer : q # p => inbound'[q] = inbound[q]
    BY <2>0, <2>3, NoInboundEffect, Zenon
  <2>9. Detached(p)
    BY <2>6, <2>7, <2>8, Zenon DEF Detached
  <2>10. CloseFrame
    BY <2>0, <2>3, <2>6, Zenon DEF CloseFrame, HandshakeFrame, TypeOK
  <2>11. ValidationIsAsked'
    BY <2>0, <2>3, <2>8, AskedKept, Zenon DEF HandshakeFrame
  <2>12. Become(p, Closed(u))
    BY <2>3, <2>4, Zenon
  <2> QED BY <2>2, <2>5, <2>9, <2>10, <2>11, <2>12, CloseStep, Zenon
<1> QED BY <1>1, <1>2, Zenon

(* The HandshakeService keeps the invariant, with the handshakes it finds  *)
(* ready and those it keeps for later.                                     *)
LEMMA HandshakeSteps ==
  ASSUME Constants, Whole
  PROVE  PopEvent \/ PollHandshakes => Whole'
<1>SuffixInSeq.
  ASSUME NEW S, NEW q \in Seq(S), NEW n \in 1 .. Len(q)
  PROVE  q[n] \in S /\ SubSeq(q, n + 1, Len(q)) \in Seq(S)
  BY <1>SuffixInSeq
<1>TripleFields.
  ASSUME NEW A, NEW B, NEW C, NEW x \in A \X B \X C
  PROVE  x[1] \in A /\ x[2] \in B /\ x[3] \in C
  BY <1>TripleFields, Zenon
<1>1.
  ASSUME PopEvent
  PROVE  Whole'
  <2> USE <1>1
  <2>1. PICK n \in 1 .. Len(ready) :
          /\ Live(ready[n]) /\ ready' = SubSeq(ready, n + 1, Len(ready))
          /\ Negotiated(ready[n][1], ready[n][2], ready[n][3])
    BY Zenon DEF PopEvent
  <2>2. ready \in Seq(Peer \X Directions \X Ids)
    BY Zenon DEF Whole, TypeOK
  <2>3. ready[n] \in Peer \X Directions \X Ids /\ ready' \in Seq(Peer \X Directions \X Ids)
    BY <2>1, <2>2, <1>SuffixInSeq, Zenon
  <2>4. PICK p, e, id : p = ready[n][1] /\ e = ready[n][2] /\ id = ready[n][3]
    BY Zenon
  <2>5. p \in Peer /\ e \in Directions
    BY <2>3, <2>4, <1>TripleFields, Zenon
  <2>6. negotiating[p, e] # None /\ Negotiated(p, e, id)
    BY <2>1, <2>4, Zenon DEF Live
  <2>7. HandshakeFrame
    BY <2>3, Zenon DEF HandshakeFrame, PopEvent, service, arrivals
  <2> QED BY <2>5, <2>6, <2>7, HandshakeEventSteps, Zenon
(* The entries of the substreams that are polled. *)
<1>OrderedEntries.
  ASSUME NEW S, NEW done \in Orders(S)
  PROVE  /\ Len(done) \in Nat /\ done \in [1 .. Len(done) -> S]
         /\ done # <<>> => 1 \in 1 .. Len(done)
  <2> USE <1>OrderedEntries
  <2>1. PICK n \in 0 .. Cardinality(S) : done \in [1 .. n -> S]
    BY Zenon DEF Orders
  <2>2. n \in Nat
    BY <2>1
  <2>3. done \in Seq(S) /\ Len(done) = n
    BY <2>1, <2>2
  <2> QED BY <2>1, <2>2, <2>3
<1>PairFields.
  ASSUME NEW A, NEW B, NEW k \in A \X B
  PROVE  k[1] \in A /\ k[2] \in B /\ k = <<k[1], k[2]>>
  BY <1>PairFields
<1>EntryTyped.
  ASSUME TypeOK, NEW k \in DOMAIN negotiating, negotiating[k] # None
  PROVE  /\ k[1] \in Peer /\ k[2] \in Directions /\ negotiating[k[1], k[2]] # None
         /\ Entry(k) \in Peer \X Directions \X Ids
  <2> USE <1>EntryTyped
  <2>1. negotiating \in [Peer \X Directions -> Ids \cup {None}]
    BY Zenon DEF TypeOK
  <2>2. k \in Peer \X Directions /\ negotiating[k] \in Ids
    BY <2>1, Zenon
  <2>3. k[1] \in Peer /\ k[2] \in Directions /\ k = <<k[1], k[2]>>
    BY <2>2, <1>PairFields, ZenonT(30)
  <2>4. Entry(k) \in Peer \X Directions \X Ids
    BY <2>2, <2>3, Zenon DEF Entry
  <2>5. negotiating[k[1], k[2]] # None
    BY <2>3, Zenon
  <2> QED BY <2>3, <2>4, <2>5, Zenon
<1>MappedSeq.
  ASSUME NEW S, NEW n \in Nat, NEW f, \A a \in 1 .. n : f[a] \in S, f = [a \in 1 .. n |-> f[a]]
  PROVE  f \in Seq(S)
  BY <1>MappedSeq
<1>Predecessor.
  ASSUME NEW m \in Nat, 1 \in 1 .. m
  PROVE  \E n \in Nat : n = m - 1 /\ \A a \in 1 .. n : a + 1 \in 1 .. m
  <2> USE <1>Predecessor
  <2>1. m - 1 \in Nat /\ \A a \in 1 .. m - 1 : a + 1 \in 1 .. m
    OBVIOUS
  <2> QED BY <2>1, Zenon
<1>2.
  ASSUME PollHandshakes
  PROVE  Whole'
  <2> USE <1>2
  <2>0. TypeOK
    BY Zenon DEF Whole
  <2> DEFINE K == {k \in DOMAIN negotiating : negotiating[k] # None}
  <2>1. PICK done \in Orders(K) :
          \/ /\ done # <<>>
             /\ ready' = [a \in 1 .. Len(done) - 1 |-> Entry(done[a + 1])]
             /\ Negotiated(done[1][1], done[1][2], negotiating[done[1]])
          \/ \E k \in DOMAIN negotiating :
               /\ negotiating[k] # None
               /\ ready' = [a \in 1 .. Len(done) |-> Entry(done[a])]
               /\ NegotiationError(k[1])
    BY Zenon DEF PollHandshakes
  <2>2. \A k \in K : k \in DOMAIN negotiating /\ negotiating[k] # None
    BY Zenon
  <2> HIDE DEF K
  <2>3. /\ Len(done) \in Nat /\ done \in [1 .. Len(done) -> K]
        /\ done # <<>> => 1 \in 1 .. Len(done)
    BY <1>OrderedEntries, Zenon
  <2>4. \A a \in 1 .. Len(done) : Entry(done[a]) \in Peer \X Directions \X Ids
    BY <2>0, <2>2, <2>3, <1>EntryTyped, Zenon
  <2>5. UNCHANGED <<sessions, requested, answers, pending_outbound, received, asked, config, shutdowns,
                    commands, handle_peers, to_validate>>
    BY Zenon DEF PollHandshakes, service, arrivals
  <2>6. ASSUME done # <<>>, ready' = [a \in 1 .. Len(done) - 1 |-> Entry(done[a + 1])],
               Negotiated(done[1][1], done[1][2], negotiating[done[1]])
        PROVE  Whole'
    <3>1. PICK k \in K : k = done[1]
      BY <2>3, <2>6, Zenon
    <3>2. /\ k[1] \in Peer /\ k[2] \in Directions /\ negotiating[k[1], k[2]] # None
      BY <2>0, <2>2, <1>EntryTyped, Zenon
    <3>3. PICK p, e, id : p = k[1] /\ e = k[2] /\ id = negotiating[k]
      BY Zenon
    <3>4. p \in Peer /\ e \in Directions /\ negotiating[p, e] # None /\ Negotiated(p, e, id)
      <4>1. Negotiated(k[1], k[2], negotiating[k])
        BY <2>6, <3>1, Zenon
      <4> QED BY <3>2, <3>3, <4>1, Zenon
    <3>5. PICK n \in Nat : n = Len(done) - 1 /\ \A a \in 1 .. n : a + 1 \in 1 .. Len(done)
      BY <2>3, <2>6, <1>Predecessor, Zenon
    <3>6. ready' = [a \in 1 .. n |-> Entry(done[a + 1])]
      BY <2>6, <3>5, Zenon
    <3>7. \A a \in 1 .. n : ready'[a] \in Peer \X Directions \X Ids
      BY <2>4, <3>5, <3>6, Zenon
    <3>8. ready' = [a \in 1 .. n |-> ready'[a]]
      BY <3>6, Zenon
    <3>9. ready' \in Seq(Peer \X Directions \X Ids)
      BY <3>5, <3>7, <3>8, <1>MappedSeq, Zenon
    <3>10. HandshakeFrame
      BY <2>5, <3>9, Zenon DEF HandshakeFrame
    <3> QED BY <3>4, <3>10, HandshakeEventSteps, Zenon
  <2>7. ASSUME NEW k \in DOMAIN negotiating, negotiating[k] # None,
               ready' = [a \in 1 .. Len(done) |-> Entry(done[a])], NegotiationError(k[1])
        PROVE  Whole'
    <3>1. /\ k[1] \in Peer /\ k[2] \in Directions /\ negotiating[k[1], k[2]] # None
      BY <2>0, <2>7, <1>EntryTyped, Zenon
    <3>2. PICK p, e : p = k[1] /\ e = k[2]
      BY Zenon
    <3>3. p \in Peer /\ e \in Directions /\ negotiating[p, e] # None /\ NegotiationError(p)
      BY <2>7, <3>1, <3>2, Zenon
    <3>4. \A a \in 1 .. Len(done) : ready'[a] \in Peer \X Directions \X Ids
      BY <2>4, <2>7, Zenon
    <3>5. ready' = [a \in 1 .. Len(done) |-> ready'[a]]
      BY <2>7, Zenon
    <3>6. ready' \in Seq(Peer \X Directions \X Ids)
      BY <2>3, <3>4, <3>5, <1>MappedSeq, Zenon
    <3>7. HandshakeFrame
      BY <2>5, <3>6, Zenon DEF HandshakeFrame
    <3> QED BY <3>3, <3>7, HandshakeEventSteps, Zenon
  <2> QED BY <2>1, <2>6, <2>7, Zenon
<1> QED BY <1>1, <1>2, Zenon

-----------------------------------------------------------------------------
(* The user's answers *)

(* The user has accepted, and our handshake is sent. *)
Sending(c) == [c EXCEPT !.inbound = "sending"]

(* What on_validation_result leaves alone. *)
AnswerFrame ==
  /\ UNCHANGED <<sessions, answers, ready, timers, received, asked, config, tasks, shutdowns,
                 commands, events, handle_peers, to_validate>>
  /\ validations' \in [InboundId -> {"none", "queued", "held"} \cup Result]
  /\ \A i \in InboundId : validations'[i] # "none" => validations[i] # "none"

(* on_validation_result keeps the invariant. *)
LEMMA ValidationResultSteps ==
  ASSUME Constants, Whole
  PROVE  \A i \in InboundId : ValidationResult(i) => Whole'
<1>SendingFields.
  ASSUME NEW c \in PeerState
  PROVE  /\ Sending(c) \in PeerState /\ Sending(c).kind = c.kind /\ Sending(c).inbound = "sending"
         /\ Sending(c).outbound = c.outbound /\ Sending(c).substream = c.substream
  <2> USE <1>SendingFields
  <2>1. "sending" \in InboundState
    BY Zenon DEF InboundState
  <2> QED BY <2>1, Zenon DEF PeerState, Sending
<1>SendingAgrees.
  ASSUME NEW d \in PeerState, d.kind = "validating", d.inbound = "sending", NEW o, NEW i, i # None,
         o # None <=> d.outbound = "negotiating", d.outbound # "closed" => d.substream # None
  PROVE  Agrees(d, 1, o, i, i)
  <2> USE <1>SendingAgrees
  <2>1. d.kind # "poisoned" /\ d.kind \notin {"initiated", "open"} /\ d.kind \notin {"absent", "dialing"}
        /\ d.kind # "pending" /\ d.inbound \in {"reading", "sending"}
    BY Zenon
  <2>2. 1 # 0
    OBVIOUS
  <2> QED BY <2>1, <2>2, Zenon DEF Agrees
<1>AnsweredAsked.
  ASSUME ValidationIsAsked, AnswerFrame, \A p \in Peer : inbound'[p] \in {None, inbound[p]}
  PROVE  ValidationIsAsked'
  <2> USE <1>AnsweredAsked
  <2>1. \A i \in InboundId : validations'[i] # "none" => validations[i] # "none" \/ asked[i] # None
    BY Zenon DEF AnswerFrame
  <2>2. \A k \in 1 .. Len(events') : k \in 1 .. Len(events) /\ events'[k] = events[k]
    BY Zenon DEF AnswerFrame
  <2>3. UNCHANGED <<asked, to_validate>>
    BY Zenon DEF AnswerFrame
  <2> QED BY <2>1, <2>2, <2>3, AskedReported, Zenon
(* What is negotiated with a peer whose inbound substream the user judges. *)
<1>JudgedPeer.
  ASSUME NEW p \in Peer, NEW c, c = peers[p], c.kind = "validating", c.inbound = "validating"
  PROVE  /\ negotiating[p, Inbound] = None /\ (c.outbound = "closed" => negotiating[p, Outbound] = None)
         /\ inbound[p] # None /\ inbound[p] \in InboundId
         /\ config.auto_accept => p \notin owed
         /\ Agrees(c, 1, negotiating[p, Outbound], negotiating[p, Inbound], inbound[p])
  <2> USE <1>JudgedPeer
  <2>1. PICK u : u = pending_open(c)
    BY Zenon
  <2>2. sessions[p] = 1
    BY <2>1, StillOpening, Zenon
  <2>3. Agrees(c, 1, negotiating[p, Outbound], negotiating[p, Inbound], inbound[p])
    BY <2>2, PeerAgrees, Zenon
  <2>4. "validating" \notin {"reading", "sending"} /\ "closed" # "negotiating" /\ "validating" # "closed"
    BY Zenon
  <2>5. negotiating[p, Inbound] = None /\ (c.outbound = "closed" => negotiating[p, Outbound] = None)
        /\ inbound[p] # None
    BY <2>3, <2>4, Zenon DEF Agrees
  <2>6. inbound[p] \in InboundId
    BY <2>5, PeerTypes, Zenon
  <2>7. ASSUME config.auto_accept PROVE p \notin owed
    <3>1. c.outbound = "closed"
      BY <2>7, PeerOwes, Zenon
    <3>2. ~Owing(c)
      BY <3>1, Zenon DEF Owing
    <3> QED BY <2>7, <3>2, NotOwed, Zenon
  <2> QED BY <2>3, <2>5, <2>6, <2>7, Zenon
(* The user rejects, or the stream cannot be opened. *)
<1>RejectStep.
  ASSUME NEW p \in Peer, NEW c, c = peers[p], c.kind = "validating",
         c.inbound = "validating", NEW u, u = pending_open(c), Become(p, Closed(u)),
         \/ negotiating' = RemoveBoth(p)
         \/ c.outbound = "closed" /\ UNCHANGED negotiating,
         inbound' = NoInbound(p), owed' \in {owed, owed \ {p}},
         AnswerFrame, UNCHANGED <<requested, pending_outbound>>
  PROVE  Whole'
  <2> USE <1>RejectStep
  <2>0. TypeOK /\ ValidationIsAsked
    BY Zenon DEF Whole
  <2>1. Opening(p, u) /\ sessions[p] = 1 /\ Settled(p)
    BY StillOpening, Zenon
  <2>2. /\ negotiating[p, Inbound] = None /\ (c.outbound = "closed" => negotiating[p, Outbound] = None)
        /\ config.auto_accept => p \notin owed
    BY <1>JudgedPeer, Zenon
  <2>3. /\ negotiating' \in [Peer \X Directions -> Ids \cup {None}]
        /\ negotiating'[p, Inbound] = None /\ negotiating'[p, Outbound] = None
        /\ \A q \in Peer, f \in Directions : q # p => negotiating'[q, f] = negotiating[q, f]
    <3>1. CASE negotiating' = RemoveBoth(p)
      BY <2>0, <3>1, RemoveEffect, Zenon
    <3>2. CASE c.outbound = "closed" /\ UNCHANGED negotiating
      BY <2>0, <2>2, <3>2, Zenon DEF TypeOK
    <3> QED BY <3>1, <3>2, Zenon
  <2>4. /\ inbound' \in [Peer -> InboundId \cup {None}] /\ inbound'[p] = None
        /\ \A q \in Peer : q # p => inbound'[q] = inbound[q]
    BY <2>0, NoInboundEffect, Zenon
  <2>5. owed' \subseteq owed /\ (config.auto_accept => p \notin owed')
    BY <2>2, Zenon
  <2>6. Detached(p)
    BY <2>3, <2>4, <2>5, Zenon DEF Detached
  <2>7. CloseFrame
    BY <2>0, Zenon DEF CloseFrame, AnswerFrame, TypeOK
  <2>8. ValidationIsAsked'
    BY <2>0, <2>4, <1>AnsweredAsked, Zenon
  <2> QED BY <2>1, <2>6, <2>7, <2>8, CloseStep, Zenon
(* The user accepts. *)
<1>AcceptStep.
  ASSUME NEW p \in Peer, NEW d, Become(p, d), peers[p].kind = "validating",
         peers[p].inbound = "validating", negotiating' = Negotiate(p, Inbound, inbound[p]),
         Agrees(d, 1, negotiating[p, Outbound], inbound[p], inbound[p]), Owing(d), d.inbound # "validating",
         owed' = owed \cup {p}, AnswerFrame, UNCHANGED inbound, RequestsKept(p),
         requested' \in [SubstreamId -> Peer \cup {None}],
         pending_outbound' \in [SubstreamId -> Peer \cup {None}],
         d.substream # None => requested'[d.substream] = p,
         \A s \in SubstreamId : requested'[s] = p /\ answers'[s] = 0 => Awaits(d, s)
  PROVE  Whole'
  <2> USE <1>AcceptStep
  <2>0. TypeOK /\ ValidationIsAsked
    BY Zenon DEF Whole
  <2>1. PICK c, u : c = peers[p] /\ u = pending_open(c)
    BY Zenon
  <2>2. sessions[p] = 1 /\ Settled(p)
    BY <2>1, StillOpening, Zenon
  <2>3. inbound[p] \in Ids \cup {None} /\ Inbound \in Directions
    <3>1. inbound[p] \in InboundId
      BY <2>1, <1>JudgedPeer, Zenon
    <3> QED BY <3>1, Zenon DEF Ids, Directions
  <2>4. /\ negotiating' \in [Peer \X Directions -> Ids \cup {None}]
        /\ \A q \in Peer, f \in Directions : q # p => negotiating'[q, f] = negotiating[q, f]
        /\ negotiating'[p, Inbound] = inbound[p] /\ negotiating'[p, Outbound] = negotiating[p, Outbound]
    BY <2>0, <2>3, DirectionEffect, Zenon
  <2>5. TypeOK'
    <3>1. /\ peers' \in [Peer -> PeerState]
          /\ \A q \in Peer : peers'[q].kind \in {"initiated", "open"} => peers'[q].substream # None
      BY <2>0, NewState, Zenon
    <3>2. owed' \subseteq Peer
      BY <2>0, Zenon DEF TypeOK
    <3> QED BY <2>0, <2>4, <3>1, <3>2, Zenon DEF TypeOK, AnswerFrame
  <2>6. ValidationIsAsked'
    BY <2>0, <1>AnsweredAsked, Zenon
  <2>7. UNCHANGED <<sessions, answers, config, tasks, shutdowns>>
    BY Zenon DEF AnswerFrame
  <2>8. Others(p)
    BY <2>4, <2>7, Zenon DEF Others, Directions
  <2>9. Fits(p, d)
    BY <2>2, <2>4, <2>7, Zenon DEF Fits
  <2>10. Owes(p, d)
    BY Zenon DEF Owes
  <2> QED BY <2>2, <2>5, <2>6, <2>7, <2>8, <2>9, <2>10, HandlerStep, Zenon
(* ... a stream that is being opened already. *)
<1>AcceptAskedStep.
  ASSUME NEW p \in Peer, NEW c, c = peers[p], c.kind = "validating",
         c.inbound = "validating", c.outbound # "closed", Become(p, [c EXCEPT !.inbound = "sending"]),
         negotiating' = Negotiate(p, Inbound, inbound[p]), owed' = owed \cup {p}, AnswerFrame,
         UNCHANGED <<requested, pending_outbound, inbound>>
  PROVE  Whole'
  <2> USE <1>AcceptAskedStep
  <2>0. TypeOK
    BY Zenon DEF Whole
  <2>1. PICK d : d = Sending(c) /\ Become(p, d)
    BY Zenon DEF Sending
  <2>2. /\ inbound[p] # None
        /\ Agrees(c, 1, negotiating[p, Outbound], negotiating[p, Inbound], inbound[p])
    BY <1>JudgedPeer, Zenon
  <2>3. c \in PeerState
    BY <2>2, Zenon DEF Agrees
  <2>4. /\ Agrees(d, 1, negotiating[p, Outbound], inbound[p], inbound[p]) /\ d.kind = "validating"
        /\ d.inbound = "sending" /\ d.outbound = c.outbound /\ d.substream = c.substream
    <3>1. /\ d \in PeerState /\ d.kind = "validating"
          /\ d.inbound = "sending" /\ d.outbound = c.outbound /\ d.substream = c.substream
      BY <2>1, <2>3, <1>SendingFields, Zenon
    <3>2. /\ negotiating[p, Outbound] # None <=> d.outbound = "negotiating"
          /\ d.outbound # "closed" => d.substream # None
      BY <2>2, <3>1, Zenon DEF Agrees
    <3>3. Agrees(d, 1, negotiating[p, Outbound], inbound[p], inbound[p])
      BY <2>2, <3>1, <3>2, <1>SendingAgrees, Zenon
    <3> QED BY <3>1, <3>3, Zenon
  <2>5. Owing(d) /\ d.inbound # "validating"
    BY <2>4, Zenon DEF Owing
  <2>6. /\ RequestsKept(p) /\ requested' \in [SubstreamId -> Peer \cup {None}]
        /\ pending_outbound' \in [SubstreamId -> Peer \cup {None}]
    BY <2>0, Zenon DEF RequestsKept, TypeOK, AnswerFrame
  <2>7. d.substream # None => requested'[d.substream] = p
    <3>1. c.substream # None => requested[c.substream] = p
      BY PeerAgrees, Zenon
    <3> QED BY <2>4, <3>1, Zenon
  <2>8. ASSUME NEW s \in SubstreamId, requested'[s] = p, answers'[s] = 0 PROVE Awaits(d, s)
    <3>1. Awaits(c, s)
      BY <2>8, PeerAwaits, Zenon DEF AnswerFrame
    <3>2. c.kind \notin {"closed", "initiated"}
      BY Zenon
    <3> QED BY <2>4, <3>1, <3>2, Zenon DEF Awaits
  <2>9. peers[p].kind = "validating" /\ peers[p].inbound = "validating"
    BY Zenon
  <2> QED BY <2>1, <2>4, <2>5, <2>6, <2>7, <2>8, <2>9, <1>AcceptStep, Zenon
(* ... a stream that nobody has asked for: a substream is opened. *)
<1>AcceptNewStep.
  ASSUME NEW p \in Peer, NEW c, c = peers[p], c.kind = "validating",
         c.inbound = "validating", c.outbound = "closed", NEW s \in SubstreamId, OpenSubstream(p, s),
         Become(p, Validating("sending", "initiated", s)),
         negotiating' = Negotiate(p, Inbound, inbound[p]), owed' = owed \cup {p}, AnswerFrame,
         UNCHANGED inbound
  PROVE  Whole'
  <2> USE <1>AcceptNewStep
  <2>0. TypeOK
    BY Zenon DEF Whole
  <2>1. PICK d : d = Validating("sending", "initiated", s)
    BY Zenon
  <2>2. d.kind = "validating" /\ d.inbound = "sending" /\ d.outbound = "initiated" /\ d.substream = s
    BY <2>1, ValidatingFields
  <2>3. /\ inbound[p] # None /\ negotiating[p, Outbound] = None
    BY <1>JudgedPeer, Zenon
  <2>4. Agrees(d, 1, negotiating[p, Outbound], inbound[p], inbound[p])
    <3>1. "sending" \in InboundState /\ "initiated" \in OutboundState /\ "initiated" # "negotiating"
          /\ "sending" \in {"reading", "sending"} /\ s # None /\ s \in SubstreamId \cup {None}
      BY NoneApart, Zenon DEF InboundState, OutboundState
    <3>2. Agrees(Validating("sending", "initiated", s), 1, negotiating[p, Outbound], inbound[p], inbound[p])
      BY <2>3, <3>1, ValidatingAgrees, Zenon
    <3> QED BY <2>1, <3>2, Zenon
  <2>5. Owing(d) /\ d.inbound # "validating" /\ Awaits(d, s)
    BY <2>2, Zenon DEF Owing, Awaits
  <2>6. \A u \in SubstreamId : requested[u] = p => answers[u] # 0
    <3>1. c.kind \notin {"closed", "initiated"} /\ c.outbound # "initiated"
      BY Zenon
    <3>2. \A u : ~Awaits(c, u)
      BY <3>1, Zenon DEF Awaits
    <3> QED BY <3>2, PeerAwaits, Zenon
  <2>7. /\ RequestsKept(p) /\ requested'[s] = p
        /\ \A u \in SubstreamId : requested'[u] = p /\ answers'[u] = 0 => u = s
        /\ requested' \in [SubstreamId -> Peer \cup {None}]
        /\ pending_outbound' \in [SubstreamId -> Peer \cup {None}]
    BY <2>0, <2>6, NewRequest, Zenon DEF AnswerFrame
  <2>8. /\ d.substream # None => requested'[d.substream] = p
        /\ \A u \in SubstreamId : requested'[u] = p /\ answers'[u] = 0 => Awaits(d, u)
    BY <2>2, <2>5, <2>7, Zenon
  <2>9. peers[p].kind = "validating" /\ peers[p].inbound = "validating" /\ Become(p, d)
    BY <2>1, Zenon
  <2> QED BY <2>4, <2>5, <2>7, <2>8, <2>9, <1>AcceptStep, Zenon
(* An answer to a validation whose substream is gone. *)
<1>LateAnswerStep.
  ASSUME NEW p \in Peer, NEW c, c = peers[p], c.kind = "pending",
         Become(p, IF c.connected THEN Closed(None) ELSE Absent), owed' \in {owed, owed \ {p}}, AnswerFrame,
         UNCHANGED <<requested, pending_outbound, negotiating, inbound>>
  PROVE  Whole'
  <2> USE <1>LateAnswerStep
  <2>0. TypeOK /\ ValidationIsAsked /\ ShutdownIsOpen
    BY Zenon DEF Whole
  <2>1. PICK d : d = (IF c.connected THEN Closed(None) ELSE Absent) /\ Become(p, d)
    BY Zenon
  <2>2. /\ Agrees(c, sessions[p], negotiating[p, Outbound], negotiating[p, Inbound], inbound[p])
        /\ sessions[p] \in {0, 1}
    BY PeerAgrees, PeerTypes, Zenon
  <2>3. /\ c.kind \notin {"absent", "dialing", "validating", "closed", "initiated", "open"}
        /\ "closed" # "initiated" /\ "closed" # "validating"
    BY Zenon
  <2>4. /\ negotiating[p, Outbound] = None /\ negotiating[p, Inbound] = None /\ c.outbound = "closed"
        /\ sessions[p] = 0 <=> ~c.connected
    BY <2>2, <2>3, Zenon DEF Agrees
  <2>5. Agrees(d, sessions[p], None, None, inbound[p]) /\ d.substream = None /\ d.inbound = "closed"
    <3>1. CASE c.connected
      <4>1. sessions[p] = 1 /\ d = Closed(None)
        BY <2>1, <2>2, <2>4, <3>1, Zenon
      <4> QED BY <4>1, ClosedAgrees, ClosedFields, Zenon
    <3>2. CASE ~c.connected
      <4>1. sessions[p] = 0 /\ d = Absent
        BY <2>1, <2>4, <3>2, Zenon
      <4> QED BY <4>1, AbsentAgrees, StateFields, Zenon DEF Absent
    <3> QED BY <3>1, <3>2, Zenon
  <2>6. ~Owing(c) /\ \A s : ~Awaits(c, s)
    BY <2>3, <2>4, Zenon DEF Owing, Awaits
  <2>7. \A s \in SubstreamId : ~(requested[s] = p /\ answers[s] = 0)
    BY <2>6, PeerAwaits, Zenon
  <2>8. owed' \subseteq owed /\ (config.auto_accept => p \notin owed')
    BY <2>6, NotOwed, Zenon
  <2>9. Detached(p)
    BY <2>0, <2>4, <2>8, Zenon DEF Detached, TypeOK
  <2>10. CloseFrame
    BY <2>0, Zenon DEF CloseFrame, AnswerFrame, TypeOK
  <2>11. ValidationIsAsked'
    BY <2>0, <1>AnsweredAsked, Zenon
  <2>12. Settled(p) /\ d.inbound # "validating"
    BY <2>0, <2>3, <2>5, NotOpenSettled, Zenon
  <2> QED BY <2>1, <2>5, <2>7, <2>9, <2>10, <2>11, <2>12, EndStep, Zenon
<1>1.
  ASSUME NEW i \in InboundId, ValidationResult(i)
  PROVE  Whole'
  <2> USE <1>1
  <2>0. TypeOK /\ ValidationIsAsked
    BY Zenon DEF Whole
  <2>1. PICK p : p = asked[i]
    BY Zenon
  <2>2. PICK c : c = peers[p]
    BY Zenon
  <2>3. /\ validations[i] \in Result /\ validations' = [validations EXCEPT ![i] = "none"]
        /\ UNCHANGED <<sessions, answers, ready, timers, received, asked, config, tasks, shutdowns,
                       commands, events, handle_peers, to_validate>>
    BY Zenon DEF ValidationResult, arrivals, user
  <2>4. p \in Peer
    <3>1. validations[i] # "none"
      BY <2>3, Zenon DEF Result
    <3> QED BY <2>0, <2>1, <3>1, Zenon DEF ValidationIsAsked, TypeOK
  <2>5. AnswerFrame
    <3>1. validations \in [InboundId -> {"none", "queued", "held"} \cup Result]
      BY <2>0, Zenon DEF TypeOK
    <3>2. /\ validations' \in [InboundId -> {"none", "queued", "held"} \cup Result]
          /\ \A j \in InboundId : validations'[j] # "none" => validations[j] # "none"
      BY <2>3, <3>1, Zenon
    <3> QED BY <2>3, <3>2, Zenon DEF AnswerFrame
  <2>6. ASSUME c.kind = "validating", c.inbound = "validating", Become(p, Closed(pending_open(c))),
               negotiating' = RemoveBoth(p), inbound' = NoInbound(p), owed' \in {owed, owed \ {p}},
               UNCHANGED <<requested, pending_outbound>>
        PROVE  Whole'
    BY <2>2, <2>4, <2>5, <2>6, <1>RejectStep, Zenon
  <2>7. ASSUME c.kind = "validating", c.inbound = "validating", c.outbound # "closed",
               Become(p, [c EXCEPT !.inbound = "sending"]),
               negotiating' = Negotiate(p, Inbound, inbound[p]), owed' = owed \cup {p},
               UNCHANGED <<requested, pending_outbound, inbound>>
        PROVE  Whole'
    BY <2>2, <2>4, <2>5, <2>7, <1>AcceptAskedStep, Zenon
  <2>8. ASSUME c.kind = "validating", c.inbound = "validating", c.outbound = "closed",
               NEW s \in SubstreamId, OpenSubstream(p, s), Become(p, Validating("sending", "initiated", s)),
               negotiating' = Negotiate(p, Inbound, inbound[p]), owed' = owed \cup {p}, UNCHANGED inbound
        PROVE  Whole'
    BY <2>2, <2>4, <2>5, <2>8, <1>AcceptNewStep, Zenon
  <2>9. ASSUME c.kind = "validating", c.inbound = "validating", c.outbound = "closed",
               Become(p, Closed(None)), inbound' = NoInbound(p), Fails(p),
               UNCHANGED <<requested, pending_outbound, negotiating>>
        PROVE  Whole'
    <3>1. pending_open(c) = None /\ owed' \in {owed, owed \ {p}}
      BY <2>9, Zenon DEF pending_open, Fails
    <3> QED BY <2>2, <2>4, <2>5, <2>9, <3>1, <1>RejectStep, Zenon
  <2>10. ASSUME c.kind = "pending", Become(p, IF c.connected THEN Closed(None) ELSE Absent),
                owed' \in {owed, owed \ {p}},
                UNCHANGED <<requested, pending_outbound, negotiating, inbound>>
         PROVE  Whole'
    BY <2>2, <2>4, <2>5, <2>10, <1>LateAnswerStep, Zenon
  <2>11. ASSUME UNCHANGED <<requested, pending_outbound, peers, negotiating, inbound, owed>> PROVE Whole'
    <3>1. TypeOK'
      BY <2>0, <2>5, <2>11, Zenon DEF TypeOK, AnswerFrame
    <3>2. ValidationIsAsked'
      BY <2>0, <2>5, <2>11, <1>AnsweredAsked, Zenon
    <3> QED BY <2>3, <2>11, <3>1, <3>2, QuietStep, Zenon
  <2>12. \A accept : (IF accept THEN Fails(p) ELSE UNCHANGED owed) => owed' \in {owed, owed \ {p}}
    BY Zenon DEF Fails
  <2> QED BY <2>1, <2>2, <2>6, <2>7, <2>8, <2>9, <2>10, <2>11, <2>12, Zenon DEF ValidationResult
<1> QED BY <1>1, Zenon

-----------------------------------------------------------------------------
(* The protocol *)

(* Every step keeps the invariant. *)
LEMMA NextWhole ==
  ASSUME Constants, LateShutdown = FALSE, Whole, [Next]_vars
  PROVE  Whole'
<1>1. ASSUME Step PROVE Whole'
  <2>1. CASE PopEvent \/ PollHandshakes \/ Shutdown
    BY <2>1, HandshakeSteps, ShutdownStep, Zenon
  <2>2. ASSUME NEW p \in Peer, Quiet, ServiceEvent(p) PROVE Whole'
    BY <2>2, ConnectionEstablishedStep, DialedSteps, ConnectionClosedStep, InboundSubstreamSteps, Zenon DEF ServiceEvent
  <2>3. ASSUME NEW p \in Peer, TimerFires(p) PROVE Whole'
    BY <2>3, TimerFiresStep, Zenon
  <2>4. ASSUME NEW s \in SubstreamId, OutboundSubstream(s) \/ SubstreamOpenFailure(s) PROVE Whole'
    BY <2>4, AnswerSteps, Zenon
  <2>5. ASSUME NEW i \in InboundId, ValidationResult(i) PROVE Whole'
    BY <2>5, ValidationResultSteps, Zenon
  <2>6. ASSUME NEW p \in Peer, Quiet, OnOpenSubstream(p) \/ OnCloseSubstream(p) PROVE Whole'
    BY <2>6, OpenSubstreamSteps, OnCloseSubstreamStep, Zenon
  <2> QED BY <1>1, <2>1, <2>2, <2>3, <2>4, <2>5, <2>6, Zenon DEF Step
<1>2. ASSUME UserStep PROVE Whole'
  <2>1. CASE poll_next
    BY <2>1, PollNextStep, Zenon
  <2>2. ASSUME NEW p \in Peer, open_substream(p) \/ close_substream(p) PROVE Whole'
    <3>1. Send("open", p) \/ Send("close", p)
      BY <2>2, Zenon DEF open_substream, close_substream
    <3> QED BY <3>1, SendStep, Zenon
  <2>3. ASSUME NEW p \in Peer, NEW r \in {"accept", "reject"}, send_validation_result(p, r) PROVE Whole'
    BY <2>3, SendValidationResultStep, Zenon
  <2> QED BY <1>2, <2>1, <2>2, <2>3, Zenon DEF UserStep
<1>3. ASSUME NEW s \in SubstreamId, TaskStep(s) PROVE Whole'
  BY <1>3, TaskSteps, Zenon
<1>4. ASSUME UNCHANGED vars PROVE Whole'
  <2>1. UNCHANGED <<sessions, requested, answers, peers, pending_outbound, negotiating, ready, inbound, timers,
                    validations, received, asked, config, tasks, shutdowns, commands, events, handle_peers,
                    to_validate, owed>>
    BY <1>4, Zenon DEF vars, service, handshakes, arrivals, user
  <2>2. TypeOK /\ ValidationIsAsked
    BY Zenon DEF Whole
  <2>3. TypeOK'
    BY <2>1, <2>2, Zenon DEF TypeOK
  <2>4. ValidationIsAsked'
    BY <2>1, <2>2, AskedKept, Zenon
  <2>5. \A s \in SubstreamId : pending_outbound'[s] \in {None, pending_outbound[s]}
    BY <2>1, Zenon
  <2> QED BY <2>1, <2>3, <2>4, <2>5, QuietStep, Zenon
<1> QED BY <1>1, <1>2, <1>3, <1>4, Zenon DEF Next

(* The states of the peers agree with the connections, with the handshakes *)
(* and the substreams on their way and with what the user waits for, and   *)
(* no handler of NotificationProtocol leaves a peer Poisoned, whatever     *)
(* order the events, the timers, the answers and the commands come in, for *)
(* any peers and any numbers of substreams, commands and reports, provided *)
(* the word of a stream's task comes before the connection is closed and   *)
(* before the user closes the stream (LateShutdown).                       *)
THEOREM NotificationSafety ==
  ASSUME Constants, LateShutdown = FALSE
  PROVE  Spec => []NotificationInv
<1>1. Init => Whole
  BY InitWhole, Zenon
<1>2. Whole /\ [Next]_vars => Whole'
  BY NextWhole, Zenon
<1>3. Whole => NotificationInv
  BY InvParts, Zenon
<1> QED BY <1>1, <1>2, <1>3, PTL DEF Spec
=============================================================================
