----------------------- MODULE TransportServiceProofs -----------------------
(***************************************************************************)
(* Proofs about TransportService: the channels, the initial state, and the *)
(* steps of the tasks of connections, of the service and of its protocol   *)
(* preserve the inductive invariant; the safety invariants that follow;    *)
(* and the service implements SubstreamService.                            *)
(***************************************************************************)
EXTENDS TransportService, TLAPS

-----------------------------------------------------------------------------
(* The channels *)

(* A number of sessions, of which there is at most one, and one less. *)
LEMMA OneLess ==
  /\ \A n \in {0, 1} : n - 1 \in {0, 1} => n = 1 /\ n - 1 = 0
  /\ 0 # 1 /\ 0 + 1 = 1 /\ 1 - 1 = 0
OBVIOUS

(* What is in a channel after something is appended to it. *)
LEMMA AppendOccurs ==
  ASSUME NEW S, NEW seq \in Seq(S), NEW e \in S
  PROVE  /\ Append(seq, e) \in Seq(S)
         /\ \A x : Occurs(x, Append(seq, e)) <=> Occurs(x, seq) \/ x = e
         /\ \A x, y : Precedes(x, y, Append(seq, e))
                        <=> Precedes(x, y, seq) \/ (Occurs(x, seq) /\ y = e)
<1> DEFINE a == Append(seq, e)
<1>1. /\ Len(seq) \in Nat /\ Len(a) = Len(seq) + 1 /\ a[Len(seq) + 1] = e
      /\ \A i \in 1 .. Len(seq) : a[i] = seq[i]
      /\ a \in Seq(S)
  OBVIOUS
<1> HIDE DEF a
<1>2. \A x : Occurs(x, a) <=> Occurs(x, seq) \/ x = e
  <2> TAKE x
  <2>1. ASSUME Occurs(x, a) PROVE Occurs(x, seq) \/ x = e
    BY <1>1, <2>1 DEF Occurs
  <2>2. ASSUME Occurs(x, seq) PROVE Occurs(x, a)
    BY <1>1, <2>2 DEF Occurs
  <2>3. Occurs(e, a)
    BY <1>1 DEF Occurs
  <2> QED BY <2>1, <2>2, <2>3, Zenon
<1>3. \A x, y : Precedes(x, y, a) <=> Precedes(x, y, seq) \/ (Occurs(x, seq) /\ y = e)
  <2> TAKE x, y
  <2>1. ASSUME Precedes(x, y, a) PROVE Precedes(x, y, seq) \/ (Occurs(x, seq) /\ y = e)
    BY <1>1, <2>1 DEF Occurs, Precedes
  <2>2. ASSUME Precedes(x, y, seq) PROVE Precedes(x, y, a)
    BY <1>1, <2>2 DEF Precedes
  <2>3. ASSUME Occurs(x, seq), y = e PROVE Precedes(x, y, a)
    <3>1. PICK i \in 1 .. Len(seq) : seq[i] = x
      BY <2>3, Zenon DEF Occurs
    <3> QED BY <1>1, <2>3, <3>1 DEF Precedes
  <2> QED BY <2>1, <2>2, <2>3, Zenon
<1> QED BY <1>1, <1>2, <1>3, Zenon DEF a

(* What was in a channel before its head was taken. *)
LEMMA TailOccurs ==
  ASSUME NEW S, NEW seq \in Seq(S), seq # <<>>
  PROVE  /\ Tail(seq) \in Seq(S) /\ Head(seq) \in S
         /\ \A x : Occurs(x, seq) <=> Occurs(x, Tail(seq)) \/ x = Head(seq)
         /\ \A x, y : Precedes(x, y, seq)
                        <=> \/ Precedes(x, y, Tail(seq))
                            \/ x = Head(seq) /\ Occurs(y, Tail(seq))
<1> DEFINE t == Tail(seq)  h == Head(seq)
<1>1. /\ Len(seq) \in Nat \ {0} /\ Len(t) = Len(seq) - 1 /\ seq[1] = h
      /\ \A i \in 1 .. Len(t) : t[i] = seq[i + 1]
      /\ t \in Seq(S) /\ h \in S
  OBVIOUS
<1> HIDE DEF t, h
<1>2. \A x : Occurs(x, seq) <=> Occurs(x, t) \/ x = h
  <2> TAKE x
  <2>1. ASSUME Occurs(x, seq) PROVE Occurs(x, t) \/ x = h
    <3>1. PICK i \in 1 .. Len(seq) : seq[i] = x
      BY <2>1, Zenon DEF Occurs
    <3>2. CASE i = 1
      BY <1>1, <3>1, <3>2, Zenon
    <3>3. CASE i # 1
      <4>1. i - 1 \in 1 .. Len(t) /\ t[i - 1] = x
        BY <1>1, <3>1, <3>3
      <4> QED BY <4>1, Zenon DEF Occurs
    <3> QED BY <3>2, <3>3, Zenon
  <2>2. ASSUME Occurs(x, t) PROVE Occurs(x, seq)
    <3>1. PICK i \in 1 .. Len(t) : t[i] = x
      BY <2>2, Zenon DEF Occurs
    <3>2. i + 1 \in 1 .. Len(seq) /\ seq[i + 1] = x
      BY <1>1, <3>1
    <3> QED BY <3>2, Zenon DEF Occurs
  <2>3. Occurs(h, seq)
    BY <1>1 DEF Occurs
  <2> QED BY <2>1, <2>2, <2>3, Zenon
<1>3. \A x, y : Precedes(x, y, seq) <=> Precedes(x, y, t) \/ (x = h /\ Occurs(y, t))
  <2> TAKE x, y
  <2>1. ASSUME Precedes(x, y, seq) PROVE Precedes(x, y, t) \/ (x = h /\ Occurs(y, t))
    <3>1. PICK i, j \in 1 .. Len(seq) : i < j /\ seq[i] = x /\ seq[j] = y
      BY <2>1, Zenon DEF Precedes
    <3>2. j - 1 \in 1 .. Len(t) /\ t[j - 1] = y
      BY <1>1, <3>1
    <3>3. CASE i = 1
      BY <1>1, <3>1, <3>2, <3>3, Zenon DEF Occurs
    <3>4. CASE i # 1
      <4>1. i - 1 \in 1 .. Len(t) /\ t[i - 1] = x /\ i - 1 < j - 1
        BY <1>1, <3>1, <3>4
      <4> QED BY <3>2, <4>1, Zenon DEF Precedes
    <3> QED BY <3>3, <3>4, Zenon
  <2>2. ASSUME Precedes(x, y, t) PROVE Precedes(x, y, seq)
    <3>1. PICK i, j \in 1 .. Len(t) : i < j /\ t[i] = x /\ t[j] = y
      BY <2>2, Zenon DEF Precedes
    <3>2. /\ i + 1 \in 1 .. Len(seq) /\ j + 1 \in 1 .. Len(seq) /\ i + 1 < j + 1
          /\ seq[i + 1] = x /\ seq[j + 1] = y
      BY <1>1, <3>1
    <3> QED BY <3>2, Zenon DEF Precedes
  <2>3. ASSUME x = h, Occurs(y, t) PROVE Precedes(x, y, seq)
    <3>1. PICK i \in 1 .. Len(t) : t[i] = y
      BY <2>3, Zenon DEF Occurs
    <3>2. /\ i + 1 \in 1 .. Len(seq) /\ 1 \in 1 .. Len(seq) /\ 1 < i + 1
          /\ seq[1] = x /\ seq[i + 1] = y
      BY <1>1, <2>3, <3>1
    <3> QED BY <3>2, Zenon DEF Precedes
  <2> QED BY <2>1, <2>2, <2>3, Zenon
<1> QED BY <1>1, <1>2, <1>3, Zenon DEF t, h

(* What precedes something, and what it precedes, occurs. *)
LEMMA PrecedesOccurs ==
  ASSUME NEW seq, NEW x, NEW y, Precedes(x, y, seq)
  PROVE  Occurs(x, seq) /\ Occurs(y, seq)
BY Zenon DEF Precedes, Occurs

(* An empty channel holds nothing. *)
LEMMA EmptyOccurs == \A x, y : ~Occurs(x, <<>>) /\ ~Precedes(x, y, <<>>)
BY DEF Occurs, Precedes

(* Events of connections and of substreams. *)
LEMMA EventType ==
  \A k, x : [kind |-> k, id |-> x] \in Event
              <=> \/ k \in {"established", "closed"} /\ x \in ConnectionId
                  \/ k \in {"opened", "failure"} /\ x \in SubstreamId
BY Zenon DEF Event

(* The channel after a task has sent an event. *)
LEMMA SendEffect ==
  ASSUME TypeOK, NEW k, NEW x, [kind |-> k, id |-> x] \in Event,
         Send([kind |-> k, id |-> x])
  PROVE  /\ rx' \in Seq(Event)
         /\ \A l, y : InEvents(l, y)' <=> InEvents(l, y) \/ (l = k /\ y = x)
         /\ \A l, y, m, z : Before(l, y, m, z)'
                              <=> Before(l, y, m, z) \/ (InEvents(l, y) /\ m = k /\ z = x)
<1>1. rx \in Seq(Event) /\ rx' = Append(rx, [kind |-> k, id |-> x])
  BY Zenon DEF TypeOK, Send
<1>2. \A l, y : [kind |-> l, id |-> y] = [kind |-> k, id |-> x] <=> l = k /\ y = x
  BY Zenon
<1> QED BY <1>1, <1>2, AppendOccurs DEF InEvents, Before

(* What is in the channel before and after its first event is received. *)
Received(k, x) ==
  /\ rx' \in Seq(Event) /\ [kind |-> k, id |-> x] \in Event
  /\ \A l, y : InEvents(l, y) <=> InEvents(l, y)' \/ (l = k /\ y = x)
  /\ \A l, y, m, z : Before(l, y, m, z)
                       <=> Before(l, y, m, z)' \/ (l = k /\ y = x /\ InEvents(m, z)')
  /\ \A l, y, m, z : Before(l, y, m, z)' => InEvents(l, y)' /\ InEvents(m, z)'

(* The channel before the service received an event. *)
LEMMA ReceiveEffect ==
  ASSUME TypeOK, NEW k, Receive(k), NEW x, x = Head(rx).id
  PROVE  Received(k, x)
<1>1. rx \in Seq(Event) /\ rx # <<>> /\ rx' = Tail(rx) /\ Head(rx).kind = k
  BY Zenon DEF TypeOK, Receive
<1>2. Head(rx) \in Event
  BY <1>1, TailOccurs, Zenon
<1>3. Head(rx) = [kind |-> k, id |-> x]
  BY <1>1, <1>2, Zenon DEF Event
<1>4. \A l, y : [kind |-> l, id |-> y] = [kind |-> k, id |-> x] <=> l = k /\ y = x
  BY Zenon
<1>5. \A l, y, m, z : Before(l, y, m, z)' => InEvents(l, y)' /\ InEvents(m, z)'
  BY PrecedesOccurs, Zenon DEF InEvents, Before
<1>6. QED BY <1>1, <1>2, <1>3, <1>4, <1>5, TailOccurs DEF Received, InEvents, Before

-----------------------------------------------------------------------------
(* What a step leaves alone *)

(* The order of the events is kept by a step that sends none. *)
LEMMA EventsOrderedKept ==
  ASSUME EventsOrdered, on' = on, \A l, y, m, z : Before(l, y, m, z)' => Before(l, y, m, z)
  PROVE  EventsOrdered'
<1>1. ASSUME NEW d \in ConnectionId
      PROVE  /\ ~Before("established", d, "established", d)'
             /\ ~Before("closed", d, "established", d)' /\ ~Before("closed", d, "closed", d)'
  BY Zenon DEF EventsOrdered
<1>2. ASSUME NEW s \in SubstreamId, NEW kind \in {"opened", "failure"},
             NEW kind2 \in {"opened", "failure"}
      PROVE  (~Before(kind, s, kind2, s) /\ ~Before("closed", on[s], kind, s))'
  <2>1. ~Before(kind, s, kind2, s) /\ ~Before("closed", on[s], kind, s)
    BY DEF EventsOrdered
  <2> QED BY <2>1, Zenon
<1> QED BY <1>1, <1>2, Zenon DEF EventsOrdered

(* Facts about connections, about substreams and about the protocol. *)
ConnectionInv == ContextsAgree /\ Lifecycle /\ EventsOrdered /\ OneAhead
SubstreamInv == SubstreamsAllocated /\ InOnePlace /\ PendingAgree
ProtocolInv == RequestsAgree /\ SessionsAgree

(* What the invariant says of connections depends on these variables only. *)
LEMMA ConnectionFrame ==
  ASSUME ConnectionInv, UNCHANGED <<task, remote, rx, primary, secondary, on>>
  PROVE  ConnectionInv'
<1>1. /\ \A c : (Known(c)' <=> Known(c)) /\ (Tracked(c)' <=> Tracked(c))
      /\ \A k, x, l, y : (InEvents(k, x)' <=> InEvents(k, x))
                         /\ (Before(k, x, l, y)' <=> Before(k, x, l, y))
  BY Zenon DEF Known, Tracked, InEvents, Before
<1>2. \A c, d : Ahead(c, d)' <=> Ahead(c, d)
  BY <1>1, Zenon DEF Ahead
<1>3. ContextsAgree' /\ Lifecycle'
  BY <1>1, Zenon DEF ConnectionInv, ContextsAgree, Lifecycle
<1>4. EventsOrdered'
  BY <1>1 DEF ConnectionInv, EventsOrdered
<1>5. OneAhead'
  BY <1>1, <1>2, Zenon DEF ConnectionInv, OneAhead
<1> QED BY <1>3, <1>4, <1>5, Zenon DEF ConnectionInv

(* ... of substreams ... *)
LEMMA SubstreamFrame ==
  ASSUME SubstreamInv,
         UNCHANGED <<task, remote, rx, primary, secondary, substreams, commands, opening,
                     pending_outbound>>
  PROVE  SubstreamInv'
BY Zenon DEF SubstreamInv, SubstreamsAllocated, InOnePlace, OnePlace, PendingAgree, PendingRequest, Told,
       Waiting, InChannel, Known, InEvents, substreams

(* ... of what the protocol is told ... *)
LEMMA ProtocolFrame ==
  ASSUME ProtocolInv,
         UNCHANGED <<remote, on, inbound, primary, pending_outbound, pending_events, outcome>>
  PROVE  ProtocolInv'
BY Zenon DEF ProtocolInv, RequestsAgree, RequestAnswer, SessionsAgree, outcome

(* ... and of the timers. *)
LEMMA TimersFrame ==
  ASSUME TimersAgree, UNCHANGED <<remote, contexts, tracker>>
  PROVE  TimersAgree'
BY Zenon DEF TimersAgree, Known, contexts, tracker

(* None is not an id and not a peer. *)
LEMMA NoneApart ==
  /\ \A c \in ConnectionId : c # None
  /\ \A s \in SubstreamId : s # None
  /\ \A p \in Peer : p # None
BY ServiceBounds, NoneNeither DEF ConnectionId, SubstreamId

(* A step of the task of a connection that tells of a substream only if it *)
(* waited, and forgets none while it runs.                                 *)
RequestKept(s) ==
  on[s] # None /\ s \notin inbound =>
    /\ Known(on[s]) => Known(on[s])'
    /\ Told(s)' => Told(s) \/ (task[on[s]] = "running" /\ Waiting(s))
    /\ task'[on[s]] = "running" =>
         /\ task[on[s]] = "running"
         /\ Waiting(s)' => Waiting(s)
         /\ Waiting(s) \/ Told(s) => Waiting(s)' \/ Told(s)'

(* A request that a step does not touch stays pending. *)
LEMMA PendingKept ==
  ASSUME NEW s \in SubstreamId, PendingRequest(s),
         on'[s] = on[s], s \in inbound' <=> s \in inbound,
         pending_outbound'[s] = pending_outbound[s], RequestKept(s)
  PROVE  PendingRequest(s)'
BY Zenon DEF PendingRequest, RequestKept

(* A step that puts a substream in no new place. *)
LEMMA OnePlaceKept ==
  ASSUME NEW s \in SubstreamId, OnePlace(s),
         on'[s] = on[s], s \in inbound' <=> s \in inbound,
         Told(s)' => Told(s), InEvents("failure", s)' => InEvents("failure", s),
         \A c \in ConnectionId : /\ Occurs(s, commands'[c]) => Occurs(s, commands[c])
                                 /\ Precedes(s, s, commands'[c]) => Precedes(s, s, commands[c])
                                 /\ s \in opening'[c] => s \in opening[c]
  PROVE  OnePlace(s)'
BY Zenon DEF OnePlace

(* The invariant is the conjunction of its parts. *)
LEMMA IInvParts == IInv <=> TypeOK /\ ConnectionInv /\ SubstreamInv /\ ProtocolInv /\ TimersAgree
BY Zenon DEF IInv, ConnectionInv, SubstreamInv, ProtocolInv

-----------------------------------------------------------------------------
(* The initial state *)

(* The invariant holds initially. *)
LEMMA InitIInv == Init => IInv
<1> SUFFICES ASSUME Init PROVE IInv
  BY Zenon
<1> USE ServiceBounds, NoneNeither
<1>1. TypeOK
  BY DEF Init, Service!Init, TypeOK, ForceClose, SubstreamId, ConnectionId
<1>2. \A k, x, l, y : ~InEvents(k, x) /\ ~Before(k, x, l, y)
  BY EmptyOccurs, Zenon DEF Init, InEvents, Before
<1>3. \A c \in ConnectionId : ~Known(c)
  BY Zenon DEF Init, Known
<1>4. ConnectionInv
  BY <1>2, <1>3, Zenon DEF Init, ConnectionInv, ContextsAgree, Lifecycle, EventsOrdered, OneAhead, Tracked
<1>5. SubstreamInv
  BY <1>2, EmptyOccurs, Zenon DEF Init, SubstreamInv, SubstreamsAllocated, InOnePlace, OnePlace,
                              PendingAgree, PendingRequest, Told
<1>6. ProtocolInv
  BY Zenon DEF Init, Service!Init, ProtocolInv, RequestsAgree, RequestAnswer, SessionsAgree
<1>7. TimersAgree
  BY Zenon DEF Init, TimersAgree
<1> QED BY <1>1, <1>4, <1>5, <1>6, <1>7, Zenon DEF IInv, ConnectionInv, SubstreamInv, ProtocolInv

-----------------------------------------------------------------------------
(* The task of a connection *)

(* A connection that is accepted keeps the invariant. *)
LEMMA AcceptStep ==
  ASSUME IInv, NEW c \in ConnectionId, NEW p \in Peer, Accept(c, p)
  PROVE  IInv'
<1> USE ServiceBounds, NoneNeither
<1>0. TypeOK /\ ConnectionInv /\ SubstreamInv /\ ProtocolInv /\ TimersAgree
  BY IInvParts, Zenon
<1>e. [kind |-> "established", id |-> c] \in Event
  BY Zenon DEF Event
<1>1. /\ rx' \in Seq(Event)
      /\ \A l, y : InEvents(l, y)' <=> InEvents(l, y) \/ (l = "established" /\ y = c)
      /\ \A l, y, m, z : Before(l, y, m, z)'
           <=> Before(l, y, m, z) \/ (InEvents(l, y) /\ m = "established" /\ z = c)
  BY <1>0, <1>e, SendEffect DEF Accept
<1>2. TypeOK'
  BY <1>0, <1>1, Zenon DEF Accept, TypeOK, substreams, contexts, tracker, outcome
<1>3. /\ remote[c] = None /\ ~Known(c) /\ ~InEvents("established", c) /\ ~InEvents("closed", c)
      /\ \A d \in ConnectionId : Known(d)' <=> Known(d)
      /\ \A d \in ConnectionId : d # c => remote'[d] = remote[d] /\ task'[d] = task[d]
      /\ remote'[c] = p /\ task'[c] = "running"
      /\ \A q \in Peer : primary'[q] # c /\ secondary'[q] # c
  <2>1. remote[c] = None /\ ~Known(c) /\ ~InEvents("established", c) /\ ~InEvents("closed", c)
    BY <1>0, Zenon DEF Accept, ConnectionInv, ContextsAgree, Lifecycle, Tracked, Known
  <2>2. \A q \in Peer : primary[q] # c /\ secondary[q] # c
    BY <1>0, <2>1, NoneApart DEF ConnectionInv, ContextsAgree
  <2>3. /\ \A d \in ConnectionId : d # c => remote'[d] = remote[d] /\ task'[d] = task[d]
        /\ remote'[c] = p /\ task'[c] = "running"
        /\ primary' = primary /\ secondary' = secondary
    BY <1>0, Zenon DEF Accept, TypeOK, contexts
  <2> QED BY <2>1, <2>2, <2>3, Zenon DEF Known
<1>4. ConnectionInv'
  <2>1. ContextsAgree'
    BY <1>0, <1>3 DEF ConnectionInv, ContextsAgree, Accept, contexts, TypeOK
  <2>2. Lifecycle'
    BY <1>0, <1>1, <1>3 DEF ConnectionInv, Lifecycle, Tracked, Accept, TypeOK
  <2>3. EventsOrdered'
    BY <1>0, <1>1, <1>3 DEF ConnectionInv, EventsOrdered, Accept, substreams
  <2>4. ASSUME NEW d \in ConnectionId, NEW e \in ConnectionId, NEW f \in ConnectionId,
               InEvents("established", f)', Ahead(d, f)', Ahead(e, f)'
        PROVE  d = e
    <3>1. CASE f = c
      <4>1. ASSUME NEW g \in ConnectionId, Ahead(g, f)'
            PROVE  g \in ManagerCounts(p)
        BY <1>0, <1>1, <1>3, <3>1, <4>1, PrecedesOccurs
           DEF Ahead, ConnectionInv, Lifecycle, Tracked, ManagerCounts, TypeOK, Before, InEvents
      <4> QED BY <2>4, <3>1, <4>1, Zenon DEF Accept
    <3>2. CASE f # c
      <4>1. ASSUME NEW g \in ConnectionId, Ahead(g, f)'
            PROVE  Ahead(g, f)
        BY <1>0, <1>1, <1>3, <3>2, <4>1, PrecedesOccurs DEF Ahead, InEvents, Before
      <4> QED BY <1>0, <1>1, <2>4, <3>2, <4>1, Zenon DEF ConnectionInv, OneAhead
    <3> QED BY <3>1, <3>2, Zenon
  <2>5. OneAhead'
    BY <2>4, Zenon DEF OneAhead
  <2> QED BY <2>1, <2>2, <2>3, <2>5, Zenon DEF ConnectionInv
<1>5. SubstreamInv'
  <2>1. \A s \in SubstreamId : on[s] # c
    BY <1>0, NoneApart, Zenon DEF SubstreamInv, SubstreamsAllocated, Accept
  <2>2. \A s \in SubstreamId : (Told(s)' <=> Told(s)) /\ (InChannel(s)' <=> InChannel(s))
    BY <1>1 DEF Told, InChannel, Accept, substreams
  <2>3. (SubstreamsAllocated /\ InOnePlace)'
    BY <1>0, <1>1, <1>3, <2>1, <2>2 DEF SubstreamInv, SubstreamsAllocated, InOnePlace, OnePlace, Accept, substreams, TypeOK
  <2>4. ASSUME NEW s \in SubstreamId PROVE PendingRequest(s)'
    <3>1. RequestKept(s)
      BY <1>0, <1>3, <2>1, <2>2 DEF RequestKept, Waiting, Accept, substreams, TypeOK
    <3> QED BY <1>0, <3>1, PendingKept, Zenon DEF SubstreamInv, PendingAgree, Accept, substreams
  <2>5. PendingAgree'
    BY <2>4, Zenon DEF PendingAgree
  <2> QED BY <2>3, <2>5, Zenon DEF SubstreamInv
<1>6. ProtocolInv'
  <2>1. \A s \in SubstreamId : on[s] # c
    BY <1>0, NoneApart, Zenon DEF SubstreamInv, SubstreamsAllocated, Accept
  <2> QED BY <1>0, <1>3, <2>1
          DEF ProtocolInv, RequestsAgree, RequestAnswer, SessionsAgree, Accept, substreams, contexts, outcome, TypeOK
<1>7. TimersAgree'
  BY <1>0, <1>3, Zenon DEF TimersAgree, Accept, contexts, tracker, TypeOK
<1> QED BY <1>2, <1>4, <1>5, <1>6, <1>7, Zenon DEF IInv, ConnectionInv, SubstreamInv, ProtocolInv

(* Other protocols that hold or release the connection keep the invariant. *)
LEMMA OthersStep ==
  ASSUME IInv, NEW c \in ConnectionId, OthersRelease(c) \/ OthersAcquire(c)
  PROVE  IInv'
<1>0. TypeOK /\ ConnectionInv /\ SubstreamInv /\ ProtocolInv /\ TimersAgree
  BY IInvParts, Zenon
<1>1. /\ UNCHANGED <<task, remote, commands, opening, substreams, rx, contexts, tracker,
                     pending_outbound, pending_events, open, outcome>>
      /\ others' \in {others \ {c}, others \cup {c}}
  BY Zenon DEF OthersRelease, OthersAcquire
<1>2. TypeOK'
  BY <1>0, <1>1, Zenon DEF TypeOK, substreams, contexts, tracker, outcome
<1>3. ConnectionInv' /\ SubstreamInv'
  BY <1>0, <1>1, ConnectionFrame, SubstreamFrame, Zenon DEF substreams, contexts
<1>4. ProtocolInv' /\ TimersAgree'
  BY <1>0, <1>1, ProtocolFrame, TimersFrame, Zenon DEF substreams, contexts
<1> QED BY <1>2, <1>3, <1>4, Zenon DEF IInv, ConnectionInv, SubstreamInv, ProtocolInv

(* Leaving the loop of the task, whatever is left in its channel. *)
LEMMA LeavesLoopStep ==
  ASSUME IInv, NEW c \in ConnectionId, task[c] = "running", LeavesLoop(c),
         commands' \in [ConnectionId -> Seq(SubstreamId \cup {ForceClose})],
         \A d \in ConnectionId : d # c => commands'[d] = commands[d],
         \A s \in SubstreamId : /\ Occurs(s, commands'[c]) => Occurs(s, commands[c])
                                /\ Precedes(s, s, commands'[c]) => Precedes(s, s, commands[c])
  PROVE  IInv'
<1>0. TypeOK /\ ConnectionInv /\ SubstreamInv /\ ProtocolInv /\ TimersAgree
  BY IInvParts, Zenon
<1>1. /\ task'[c] = "closing" /\ \A d \in ConnectionId : d # c => task'[d] = task[d]
      /\ UNCHANGED <<remote, rx, primary, secondary, on, inbound, opening, pending_outbound>>
  BY <1>0, Zenon DEF LeavesLoop, TypeOK, substreams, contexts
<1>2. TypeOK'
  BY <1>0, Zenon DEF LeavesLoop, TypeOK, substreams, contexts, tracker, outcome
<1>3. /\ \A d : (Known(d)' <=> Known(d)) /\ (Tracked(d)' <=> Tracked(d))
      /\ \A k, x, l, y : (InEvents(k, x)' <=> InEvents(k, x))
                         /\ (Before(k, x, l, y)' <=> Before(k, x, l, y))
      /\ \A s : Told(s)' <=> Told(s)
  BY <1>1, Zenon DEF Known, Tracked, InEvents, Before, Told
<1>4. ConnectionInv'
  <2>1. ContextsAgree' /\ Lifecycle'
    BY <1>0, <1>1, <1>3, Zenon DEF ConnectionInv, ContextsAgree, Lifecycle
  <2>2. EventsOrdered'
    BY <1>0, <1>1, <1>3 DEF ConnectionInv, EventsOrdered
  <2>3. \A d, e : Ahead(d, e)' <=> Ahead(d, e)
    BY <1>1, <1>3, Zenon DEF Ahead
  <2>4. OneAhead'
    BY <1>0, <1>3, <2>3, Zenon DEF ConnectionInv, OneAhead
  <2> QED BY <2>1, <2>2, <2>4, Zenon DEF ConnectionInv
<1>5. SubstreamInv'
  <2>1. SubstreamsAllocated'
    BY <1>0, <1>1 DEF SubstreamInv, SubstreamsAllocated, LeavesLoop, substreams
  <2>2. InOnePlace'
    BY <1>0, <1>1, <1>3, Zenon DEF SubstreamInv, InOnePlace, OnePlace
  <2>3. ASSUME NEW s \in SubstreamId, on[s] \notin {c, None}
        PROVE  InChannel(s)' <=> InChannel(s)
    BY <1>0, <1>1, <2>3 DEF InChannel, TypeOK
  <2>4. PendingAgree'
    <3>1. ASSUME NEW s \in SubstreamId PROVE PendingRequest(s)'
      <4>1. RequestKept(s)
        BY <1>0, <1>1, <1>3, <2>3, Zenon DEF RequestKept, Waiting, TypeOK
      <4> QED BY <1>0, <1>1, <4>1, PendingKept, Zenon DEF SubstreamInv, PendingAgree
    <3> QED BY <3>1, Zenon DEF PendingAgree
  <2> QED BY <2>1, <2>2, <2>4, Zenon DEF SubstreamInv
<1>6. ProtocolInv' /\ TimersAgree'
  BY <1>0, ProtocolFrame, TimersFrame, Zenon DEF LeavesLoop, substreams, contexts
<1> QED BY <1>2, <1>4, <1>5, <1>6, Zenon DEF IInv, ConnectionInv, SubstreamInv, ProtocolInv

(* The end of the connection's loop keeps the invariant. *)
LEMMA ConnectionLostStep ==
  ASSUME IInv, NEW c \in ConnectionId, ConnectionLost(c) \/ ProtocolsDisconnected(c)
  PROVE  IInv'
<1>1. task[c] = "running" /\ LeavesLoop(c) /\ UNCHANGED commands
  BY Zenon DEF ConnectionLost, ProtocolsDisconnected
<1> QED BY <1>1, LeavesLoopStep, Zenon DEF IInv, TypeOK

(* A command that the task takes keeps the invariant. *)
LEMMA HandleCommandStep ==
  ASSUME IInv, NEW c \in ConnectionId, HandleCommand(c)
  PROVE  IInv'
<1>0. TypeOK /\ ConnectionInv /\ SubstreamInv /\ ProtocolInv /\ TimersAgree
  BY IInvParts, Zenon
<1> DEFINE h == Head(commands[c])
           S == SubstreamId \cup {ForceClose}
<1>1. commands[c] \in Seq(S) /\ commands[c] # <<>> /\ task[c] = "running"
  BY <1>0, Zenon DEF HandleCommand, TypeOK
<1>2. /\ h \in S /\ Tail(commands[c]) \in Seq(S)
      /\ \A x : Occurs(x, commands[c]) <=> Occurs(x, Tail(commands[c])) \/ x = h
      /\ \A x, y : Precedes(x, y, commands[c])
           <=> Precedes(x, y, Tail(commands[c])) \/ (x = h /\ Occurs(y, Tail(commands[c])))
  BY <1>1, TailOccurs, Zenon
<1>3. /\ commands' \in [ConnectionId -> Seq(S)]
      /\ commands'[c] = Tail(commands[c])
      /\ \A d \in ConnectionId : d # c => commands'[d] = commands[d]
  BY <1>0, <1>2, Zenon DEF HandleCommand, TypeOK
<1>6. \A s \in SubstreamId :
        /\ Occurs(s, commands[c]) <=> Occurs(s, commands'[c]) \/ s = h
        /\ Precedes(s, s, commands[c])
             <=> Precedes(s, s, commands'[c]) \/ (s = h /\ Occurs(s, commands'[c]))
  BY <1>2, <1>3, Zenon
<1>7. \A d \in ConnectionId : d # c => commands'[d] = commands[d]
  BY <1>3, Zenon
<1>4. CASE h = ForceClose
  <2>1. LeavesLoop(c)
    BY <1>4, Zenon DEF HandleCommand
  <2> QED BY <1>1, <1>3, <1>6, <2>1, LeavesLoopStep, Zenon
<1>5. CASE h # ForceClose
  <2>1. h \in SubstreamId
    BY <1>2, <1>5, Zenon
  <2>2. /\ opening' = [opening EXCEPT ![c] = @ \cup {h}]
        /\ UNCHANGED <<tasks, substreams, rx, contexts, tracker,
                       pending_outbound, pending_events, open, outcome>>
    BY <1>5, Zenon DEF HandleCommand
  <2> HIDE DEF h, S
  <2>3. TypeOK'
    BY <1>0, <1>3, <2>1, <2>2, Zenon DEF TypeOK, tasks, substreams, contexts, tracker, outcome, S
  <2>4. ConnectionInv' /\ ProtocolInv' /\ TimersAgree'
    BY <1>0, <2>2, ConnectionFrame, ProtocolFrame, TimersFrame, Zenon DEF tasks, substreams, contexts
  <2>5. /\ opening'[c] = opening[c] \cup {h}
        /\ \A d \in ConnectionId : d # c => opening'[d] = opening[d]
        /\ UNCHANGED <<task, remote, rx, primary, secondary, on, inbound, next_substream_id,
                       pending_outbound>>
    BY <1>0, <2>2, Zenon DEF TypeOK, tasks, substreams, contexts
  <2>6. /\ \A d : Known(d)' <=> Known(d)
        /\ \A k, x : InEvents(k, x)' <=> InEvents(k, x)
        /\ \A s : Told(s)' <=> Told(s)
    BY <2>5, Zenon DEF Known, InEvents, Told
  <2>7. SubstreamsAllocated'
    BY <1>0, <2>5, Zenon DEF SubstreamInv, SubstreamsAllocated
  <2>8. on[h] = c /\ ~Told(h) /\  ~Occurs(h, commands'[c]) /\ h \notin inbound
    BY <1>0, <1>6, <2>1, Zenon DEF SubstreamInv, InOnePlace, OnePlace
  <2>9. InOnePlace'
    BY <1>0, <1>6, <1>7, <2>5, <2>6, <2>8 DEF SubstreamInv, InOnePlace, OnePlace
  <2>10. ASSUME NEW s \in SubstreamId, on[s] # None PROVE Waiting(s) <=> Waiting(s)'
    <3>1. on[s] \in ConnectionId
      BY <1>0, <2>10, Zenon DEF TypeOK
    <3>2. CASE on[s] = c
      BY <1>6, <2>5, <2>8, <3>2, Zenon DEF Waiting, InChannel
    <3>3. CASE on[s] # c
      BY <1>7, <2>5, <2>8, <3>1, <3>3, Zenon DEF Waiting, InChannel
    <3> QED BY <3>2, <3>3, Zenon
  <2>11. PendingAgree'
    <3>1. ASSUME NEW s \in SubstreamId PROVE PendingRequest(s)'
      <4>1. RequestKept(s)
        BY <2>5, <2>6, <2>10, Zenon DEF RequestKept
      <4> QED BY <1>0, <2>5, <4>1, PendingKept, Zenon DEF SubstreamInv, PendingAgree
    <3> QED BY <3>1, Zenon DEF PendingAgree
  <2> QED BY <2>3, <2>4, <2>7, <2>9, <2>11, Zenon DEF IInv, ConnectionInv, SubstreamInv, ProtocolInv
<1> QED BY <1>4, <1>5, Zenon

(* A substream id that is allocated has not been told of, so the order of  *)
(* events does not depend on its connection.                               *)
LEMMA AllocateOrder ==
  ASSUME ConnectionInv, SubstreamInv, NEW s \in SubstreamId, on[s] = None,
         \A t \in SubstreamId : t # s => on'[t] = on[t],
         UNCHANGED <<task, remote, rx, primary, secondary>>
  PROVE  ConnectionInv'
<1>1. /\ \A c : (Known(c)' <=> Known(c)) /\ (Tracked(c)' <=> Tracked(c))
      /\ \A k, x, l, y : (InEvents(k, x)' <=> InEvents(k, x))
                         /\ (Before(k, x, l, y)' <=> Before(k, x, l, y))
  BY Zenon DEF Known, Tracked, InEvents, Before
<1>2. \A c, d : Ahead(c, d)' <=> Ahead(c, d)
  BY <1>1, Zenon DEF Ahead
<1>3. ContextsAgree' /\ Lifecycle'
  BY <1>1, Zenon DEF ConnectionInv, ContextsAgree, Lifecycle
<1>4. ~InEvents("opened", s) /\ ~InEvents("failure", s)
  BY Zenon DEF SubstreamInv, InOnePlace, OnePlace, Told
<1>5. \A k \in {"opened", "failure"} : \A l, y : ~Before(l, y, k, s)
  BY <1>4, PrecedesOccurs, Zenon DEF Before, InEvents
<1>6. EventsOrdered'
  BY <1>1, <1>5 DEF ConnectionInv, EventsOrdered
<1>7. OneAhead'
  BY <1>1, <1>2, Zenon DEF ConnectionInv, OneAhead
<1> QED BY <1>3, <1>6, <1>7, Zenon DEF ConnectionInv

(* An id that has not been allocated is nowhere. *)
LEMMA FreshNowhere ==
  ASSUME TypeOK, SubstreamInv, next_substream_id < MaxSubstreams
  PROVE  LET s == next_substream_id IN
         /\ s \in SubstreamId /\ on[s] = None /\ s \notin inbound
         /\ pending_outbound[s] = None /\ ~Told(s)
         /\ \A c \in ConnectionId : ~Occurs(s, commands[c]) /\ s \notin opening[c]
<1> DEFINE s == next_substream_id
<1>1. s \in SubstreamId /\ s >= next_substream_id
  BY ServiceBounds DEF TypeOK, SubstreamId
<1>2. on[s] = None /\ s \notin inbound
  BY <1>1, Zenon DEF SubstreamInv, SubstreamsAllocated
<1> HIDE DEF s
<1>3. pending_outbound[s] = None
  BY <1>1, <1>2, Zenon DEF SubstreamInv, PendingAgree, PendingRequest
<1>4. ~Told(s) /\ \A c \in ConnectionId : ~Occurs(s, commands[c]) /\ s \notin opening[c]
  BY <1>1, <1>2, NoneApart, Zenon DEF SubstreamInv, InOnePlace, OnePlace
<1> QED BY <1>1, <1>2, <1>3, <1>4, Zenon DEF s

(* A substream of the remote keeps the invariant. *)
LEMMA InboundSubstreamStep ==
  ASSUME IInv, NEW c \in ConnectionId, InboundSubstream(c)
  PROVE  IInv'
<1>0. TypeOK /\ ConnectionInv /\ SubstreamInv /\ ProtocolInv /\ TimersAgree
  BY IInvParts, Zenon
<1> DEFINE s == next_substream_id
<1>1. /\ s \in SubstreamId /\ on[s] = None /\ s \notin inbound
      /\ pending_outbound[s] = None /\ ~Told(s)
      /\ \A d \in ConnectionId : ~Occurs(s, commands[d]) /\ s \notin opening[d]
  BY <1>0, FreshNowhere, Zenon DEF InboundSubstream
<1>2. /\ on'[s] = c /\ \A t \in SubstreamId : t # s => on'[t] = on[t]
      /\ \A t \in SubstreamId : t # s => (t \in inbound' <=> t \in inbound)
      /\ s \in inbound'
      /\ opening'[c] = opening[c] \cup {s}
      /\ \A d \in ConnectionId : d # c => opening'[d] = opening[d]
      /\ UNCHANGED <<task, remote, commands, rx, primary, secondary, pending_outbound>>
  BY <1>0, <1>1, Zenon DEF InboundSubstream, TypeOK, tasks, contexts
<1>3. TypeOK'
  BY <1>0, <1>1, ServiceBounds
     DEF InboundSubstream, TypeOK, tasks, contexts, tracker, outcome
<1>a. next_substream_id' = s + 1 /\ s \in Nat /\ SubstreamId \subseteq Nat /\ task[c] = "running"
  BY <1>0 DEF InboundSubstream, TypeOK, SubstreamId
<1>b. SubstreamsAllocated'
  <2>1. ASSUME NEW t \in SubstreamId, t >= next_substream_id'
        PROVE  on'[t] = None /\ t \notin inbound'
    <3>1. t # s /\ t >= next_substream_id
      BY <1>a, <2>1
    <3> QED BY <1>0, <1>2, <3>1, Zenon DEF SubstreamInv, SubstreamsAllocated
  <2>2. ASSUME NEW t \in SubstreamId, on'[t] # None
        PROVE  task'[on'[t]] # "none"
    BY <1>0, <1>a, <1>2, <2>2, Zenon DEF SubstreamInv, SubstreamsAllocated
  <2> QED BY <2>1, <2>2, Zenon DEF SubstreamsAllocated
<1> HIDE DEF s
<1>4. ConnectionInv'
  BY <1>0, <1>1, <1>2, AllocateOrder, Zenon
<1>5. /\ \A d : Known(d)' <=> Known(d)
      /\ \A k, x : InEvents(k, x)' <=> InEvents(k, x)
      /\ \A t : Told(t)' <=> Told(t)
  BY <1>2, Zenon DEF Known, InEvents, Told
<1>6. ASSUME NEW t \in SubstreamId PROVE OnePlace(t)'
  <2>1. CASE t = s
    BY <1>1, <1>2, <1>5, <2>1, Zenon DEF OnePlace, Told
  <2>2. CASE t # s
    <3>1. OnePlace(t)
      BY <1>0, Zenon DEF SubstreamInv, InOnePlace
    <3>2. \A d \in ConnectionId : t \in opening'[d] => t \in opening[d]
      BY <1>2, <2>2, Zenon
    <3> QED BY <1>2, <1>5, <2>2, <3>1, <3>2, OnePlaceKept, Zenon
  <2> QED BY <2>1, <2>2, Zenon
<1>7. ASSUME NEW t \in SubstreamId PROVE PendingRequest(t)'
  <2>1. CASE t = s
    BY <1>1, <1>2, <2>1, Zenon DEF PendingRequest
  <2>2. CASE t # s
    <3>1. on[t] # None => (Waiting(t)' <=> Waiting(t))
      <4>1. on'[t] = on[t] /\ commands' = commands
        BY <1>2, <2>2, Zenon
      <4>2. \A d \in ConnectionId : t \in opening'[d] <=> t \in opening[d]
        BY <1>2, <2>2, Zenon
      <4>3. on[t] # None => on[t] \in ConnectionId
        BY <1>0, Zenon DEF TypeOK
      <4> QED BY <4>1, <4>2, <4>3, Zenon DEF Waiting, InChannel
    <3>2. RequestKept(t)
      BY <1>2, <1>5, <2>2, <3>1, Zenon DEF RequestKept
    <3> QED BY <1>0, <1>2, <2>2, <3>2, PendingKept, Zenon DEF SubstreamInv, PendingAgree
  <2> QED BY <2>1, <2>2, Zenon
<1>8. SubstreamInv'
  BY <1>b, <1>6, <1>7, Zenon DEF SubstreamInv, InOnePlace, PendingAgree
<1>9. ProtocolInv'
  <2>1. UNCHANGED <<pending_events, sessions, requested, answers>>
    BY Zenon DEF InboundSubstream, outcome
  <2>2. ASSUME NEW t \in SubstreamId PROVE RequestAnswer(t)'
    BY <1>0, <1>1, <1>2, <2>1 DEF ProtocolInv, RequestsAgree, RequestAnswer
  <2>3. SessionsAgree'
    BY <1>0, <1>2, <2>1, Zenon DEF ProtocolInv, SessionsAgree
  <2> QED BY <2>2, <2>3, Zenon DEF ProtocolInv, RequestsAgree
<1>10. TimersAgree'
  BY <1>0, TimersFrame, Zenon DEF InboundSubstream, tasks
<1> QED BY <1>3, <1>4, <1>8, <1>9, <1>10, Zenon DEF IInv, ConnectionInv, SubstreamInv, ProtocolInv

(* The end of a negotiation keeps the invariant. *)
LEMMA NegotiatedSubstreamStep ==
  ASSUME IInv, NEW c \in ConnectionId, NEW s \in SubstreamId, NegotiatedSubstream(c, s)
  PROVE  IInv'
<1>0. TypeOK /\ ConnectionInv /\ SubstreamInv /\ ProtocolInv /\ TimersAgree
  BY IInvParts, Zenon
<1>1. /\ task[c] = "running" /\ s \in opening[c]
      /\ opening'[c] = opening[c] \ {s}
      /\ \A d \in ConnectionId : d # c => opening'[d] = opening[d]
      /\ UNCHANGED <<task, remote, commands, on, inbound, next_substream_id, primary, secondary,
                     pending_outbound>>
  BY <1>0, Zenon DEF NegotiatedSubstream, TypeOK, tasks, substreams, contexts
<1>2. /\ on[s] = c /\ ~Told(s)
      /\ \A d \in ConnectionId : ~Occurs(s, commands[d]) /\ s \notin opening'[d]
  <2>1. on[s] = c /\ ~Told(s)
    BY <1>0, <1>1, Zenon DEF SubstreamInv, InOnePlace, OnePlace
  <2>2. ASSUME NEW d \in ConnectionId PROVE ~Occurs(s, commands[d]) /\ s \notin opening'[d]
    BY <1>0, <1>1, <2>1 DEF SubstreamInv, InOnePlace, OnePlace
  <2> QED BY <2>1, <2>2, Zenon
<1>3. \A d : Known(d)' <=> Known(d)
  BY <1>1, Zenon DEF Known
<1>4. ProtocolInv' /\ TimersAgree'
  BY <1>0, ProtocolFrame, TimersFrame, Zenon DEF NegotiatedSubstream, tasks, substreams, contexts
<1>5. SubstreamsAllocated'
  BY <1>0, <1>1, Zenon DEF SubstreamInv, SubstreamsAllocated
<1>6. opening' \in [ConnectionId -> SUBSET SubstreamId]
  BY <1>0, Zenon DEF NegotiatedSubstream, TypeOK
<1>7. ASSUME NEW t \in SubstreamId, t # s, on[t] # None
      PROVE  Waiting(t)' <=> Waiting(t)
  <2>1. on[t] \in ConnectionId
    BY <1>0, <1>7, Zenon DEF TypeOK
  <2> QED BY <1>1, <1>7, <2>1, Zenon DEF Waiting, InChannel
<1>8. Waiting(s) /\ ~Waiting(s)'
  BY <1>1, <1>2, Zenon DEF Waiting, InChannel
<1>9. ASSUME NEW k \in {"opened", "failure"}, k = "failure" => s \notin inbound,
             Send([kind |-> k, id |-> s])
      PROVE  IInv'
  <2>1. /\ rx' \in Seq(Event)
        /\ \A l, y : InEvents(l, y)' <=> InEvents(l, y) \/ (l = k /\ y = s)
        /\ \A l, y, m, z : Before(l, y, m, z)'
                             <=> Before(l, y, m, z) \/ (InEvents(l, y) /\ m = k /\ z = s)
    <3>1. [kind |-> k, id |-> s] \in Event
      BY Zenon DEF Event
    <3> QED BY <1>0, <1>9, <3>1, SendEffect
  <2>2. TypeOK'
    BY <1>0, <1>6, <2>1, Zenon DEF NegotiatedSubstream, TypeOK, tasks, substreams, contexts, tracker, outcome
  <2>3. \A t \in SubstreamId : Told(t)' <=> Told(t) \/ t = s
    BY <2>1, Zenon DEF Told
  <2>4. \A d : Tracked(d)' <=> Tracked(d)
    BY <1>3, <2>1 DEF Tracked
  <2>5. ContextsAgree' /\ Lifecycle'
    BY <1>0, <1>1, <1>3, <2>1, <2>4, ZenonT(30) DEF ConnectionInv, ContextsAgree, Lifecycle
  <2>6. EventsOrdered'
    BY <1>0, <1>1, <1>2, <2>1 DEF ConnectionInv, EventsOrdered, Lifecycle, Told
  <2>7. \A d, e : Ahead(d, e)' <=> Ahead(d, e)
    BY <1>1, <1>3, <2>1 DEF Ahead
  <2>8. OneAhead'
    BY <1>0, <2>1, <2>7 DEF ConnectionInv, OneAhead
  <2>9. ASSUME NEW t \in SubstreamId PROVE OnePlace(t)' /\ PendingRequest(t)'
    <3>1. OnePlace(t) /\ PendingRequest(t)
      BY <1>0, Zenon DEF SubstreamInv, InOnePlace, PendingAgree
    <3>2. OnePlace(t)'
      <4>1. CASE t = s
        BY <1>0, <1>1, <1>2, <1>9, <2>1, <3>1, <4>1, NoneApart, Zenon DEF OnePlace
      <4>2. CASE t # s
        <5>1. \A d \in ConnectionId : t \in opening'[d] => t \in opening[d]
          BY <1>1, Zenon
        <5>2. (Told(t)' => Told(t)) /\ (InEvents("failure", t)' => InEvents("failure", t))
          BY <2>1, <2>3, <4>2, Zenon
        <5> QED BY <1>1, <3>1, <5>1, <5>2, OnePlaceKept, Zenon
      <4> QED BY <4>1, <4>2, Zenon
    <3>3. RequestKept(t)
      BY <1>1, <1>2, <1>3, <1>7, <1>8, <2>3, Zenon DEF RequestKept
    <3>4. PendingRequest(t)'
      BY <1>1, <3>1, <3>3, PendingKept, Zenon
    <3> QED BY <3>2, <3>4, Zenon
  <2> QED BY <1>4, <1>5, <2>2, <2>5, <2>6, <2>8, <2>9, Zenon
          DEF IInv, ConnectionInv, SubstreamInv, ProtocolInv, InOnePlace, PendingAgree
<1>10. ASSUME s \in inbound, UNCHANGED rx
       PROVE  IInv'
  <2>1. TypeOK'
    BY <1>0, <1>6, <1>10, Zenon DEF NegotiatedSubstream, TypeOK, tasks, substreams, contexts, tracker, outcome
  <2>2. ConnectionInv'
    BY <1>0, <1>1, <1>10, ConnectionFrame, Zenon
  <2>3. /\ \A k, x : InEvents(k, x)' <=> InEvents(k, x)
        /\ \A t : Told(t)' <=> Told(t)
    BY <1>10, Zenon DEF InEvents, Told
  <2>4. ASSUME NEW t \in SubstreamId PROVE OnePlace(t)' /\ PendingRequest(t)'
    <3>1. OnePlace(t) /\ PendingRequest(t)
      BY <1>0, Zenon DEF SubstreamInv, InOnePlace, PendingAgree
    <3>2. \A d \in ConnectionId : t \in opening'[d] => t \in opening[d]
      BY <1>1, Zenon
    <3>3. OnePlace(t)'
      BY <1>1, <2>3, <3>1, <3>2, OnePlaceKept, Zenon
    <3>4. RequestKept(t)
      BY <1>1, <1>3, <1>7, <1>10, <2>3, Zenon DEF RequestKept
    <3>5. PendingRequest(t)'
      BY <1>1, <3>1, <3>4, PendingKept, Zenon
    <3> QED BY <3>3, <3>5, Zenon
  <2> QED BY <1>4, <1>5, <2>1, <2>2, <2>4, Zenon
          DEF IInv, ConnectionInv, SubstreamInv, ProtocolInv, InOnePlace, PendingAgree
<1> QED BY <1>9, <1>10, Zenon DEF NegotiatedSubstream

(* The task tells the protocol that the connection has closed. *)
LEMMA ReportToProtocolsStep ==
  ASSUME IInv, NEW c \in ConnectionId, ReportToProtocols(c)
  PROVE  IInv'
<1>0. TypeOK /\ ConnectionInv /\ SubstreamInv /\ ProtocolInv /\ TimersAgree
  BY IInvParts, Zenon
<1>1. /\ task[c] = "closing" /\ task'[c] = "reported"
      /\ \A d \in ConnectionId : d # c => task'[d] = task[d]
      /\ UNCHANGED <<remote, commands, opening, on, inbound, next_substream_id, primary, secondary,
                     pending_outbound>>
  BY <1>0, Zenon DEF ReportToProtocols, TypeOK, substreams, contexts
<1>2. /\ rx' \in Seq(Event)
      /\ \A l, y : InEvents(l, y)' <=> InEvents(l, y) \/ (l = "closed" /\ y = c)
      /\ \A l, y, m, z : Before(l, y, m, z)'
                           <=> Before(l, y, m, z) \/ (InEvents(l, y) /\ m = "closed" /\ z = c)
  <2>1. [kind |-> "closed", id |-> c] \in Event
    BY Zenon DEF Event
  <2> QED BY <1>0, <2>1, SendEffect DEF ReportToProtocols
<1>3. TypeOK'
  BY <1>0, <1>2, Zenon DEF ReportToProtocols, TypeOK, substreams, contexts, tracker, outcome
<1>4. /\ \A d : (Known(d)' <=> Known(d)) /\ (Tracked(d)' <=> Tracked(d))
      /\ \A s : (Told(s)' <=> Told(s)) /\ (Waiting(s)' <=> Waiting(s))
  <2>1. \A k, y : k # "closed" => (InEvents(k, y)' <=> InEvents(k, y))
    BY <1>2, Zenon
  <2>2. \A d : InEvents("established", d)' <=> InEvents("established", d)
    BY <2>1
  <2>3. \A s : /\ InEvents("opened", s)' <=> InEvents("opened", s)
               /\ InEvents("failure", s)' <=> InEvents("failure", s)
    BY <2>1
  <2>4. \A d : Known(d)' <=> Known(d)
    BY <1>1, Zenon DEF Known
  <2>5. \A s : Waiting(s)' <=> Waiting(s)
    BY <1>1, Zenon DEF Waiting, InChannel
  <2> QED BY <2>2, <2>3, <2>4, <2>5, Zenon DEF Tracked, Told
<1>5. ContextsAgree' /\ Lifecycle'
  <2>1. task[c] # "none" /\ task'[c] # "none"
    BY <1>1
  <2>2. ContextsAgree'
    BY <1>0, <1>1, <2>1, Zenon DEF ConnectionInv, ContextsAgree
  <2>3. Lifecycle'
    BY <1>0, <1>1, <1>2, <1>4 DEF ConnectionInv, Lifecycle
  <2> QED BY <2>2, <2>3, Zenon
<1>6. EventsOrdered'
  BY <1>0, <1>1, <1>2 DEF ConnectionInv, EventsOrdered, Lifecycle
<1>7. \A d, e : Ahead(d, e)' <=> Ahead(d, e)
  BY <1>1, <1>2, <1>4, Zenon DEF Ahead
<1>8. OneAhead'
  BY <1>0, <1>2, <1>7 DEF ConnectionInv, OneAhead
<1>9. SubstreamInv'
  <2>1. SubstreamsAllocated'
    BY <1>0, <1>1, Zenon DEF SubstreamInv, SubstreamsAllocated, TypeOK
  <2>2. ASSUME NEW s \in SubstreamId PROVE OnePlace(s)' /\ PendingRequest(s)'
    <3>1. OnePlace(s) /\ PendingRequest(s)
      BY <1>0, Zenon DEF SubstreamInv, InOnePlace, PendingAgree
    <3>2. InEvents("failure", s)' => InEvents("failure", s)
      BY <1>2
    <3>3. OnePlace(s)'
      BY <1>1, <1>4, <3>1, <3>2, OnePlaceKept, Zenon
    <3>4. RequestKept(s)
      BY <1>0, <1>1, <1>4, Zenon DEF RequestKept, TypeOK
    <3>5. PendingRequest(s)'
      BY <1>1, <3>1, <3>4, PendingKept, Zenon
    <3> QED BY <3>3, <3>5, Zenon
  <2> QED BY <2>1, <2>2, Zenon DEF SubstreamInv, InOnePlace, PendingAgree
<1>10. ProtocolInv' /\ TimersAgree'
  BY <1>0, ProtocolFrame, TimersFrame, Zenon DEF ReportToProtocols, substreams, contexts
<1> QED BY <1>3, <1>5, <1>6, <1>8, <1>9, <1>10, Zenon DEF IInv, ConnectionInv, SubstreamInv, ProtocolInv

(* ... and then the manager. *)
LEMMA ReportToManagerStep ==
  ASSUME IInv, NEW c \in ConnectionId, ReportToManager(c)
  PROVE  IInv'
<1>0. TypeOK /\ ConnectionInv /\ SubstreamInv /\ ProtocolInv /\ TimersAgree
  BY IInvParts, Zenon
<1>1. /\ task[c] = "reported" /\ task'[c] = "closed"
      /\ \A d \in ConnectionId : d # c => task'[d] = task[d]
      /\ commands'[c] = <<>> /\ opening'[c] = {}
      /\ \A d \in ConnectionId : d # c => commands'[d] = commands[d] /\ opening'[d] = opening[d]
      /\ UNCHANGED <<remote, on, inbound, next_substream_id, rx, primary, secondary,
                     pending_outbound>>
  BY <1>0, Zenon DEF ReportToManager, TypeOK, substreams, contexts
<1>2. TypeOK'
  BY <1>0 DEF ReportToManager, TypeOK, substreams, contexts, tracker, outcome
<1>3. /\ \A d : (Known(d)' <=> Known(d)) /\ (Tracked(d)' <=> Tracked(d))
      /\ \A k, x, l, y : (InEvents(k, x)' <=> InEvents(k, x))
                         /\ (Before(k, x, l, y)' <=> Before(k, x, l, y))
      /\ \A s : Told(s)' <=> Told(s)
  BY <1>1, Zenon DEF Known, Tracked, Told, InEvents, Before
<1>4. ContextsAgree' /\ Lifecycle'
  BY <1>0, <1>1, <1>3, Zenon DEF ConnectionInv, ContextsAgree, Lifecycle
<1>5. EventsOrdered'
  BY <1>0, <1>1, <1>3 DEF ConnectionInv, EventsOrdered
<1>6. \A d, e : Ahead(d, e)' <=> Ahead(d, e)
  BY <1>1, <1>3, Zenon DEF Ahead
<1>7. OneAhead'
  BY <1>0, <1>3, <1>6, Zenon DEF ConnectionInv, OneAhead
<1>8. SubstreamInv'
  <2>1. SubstreamsAllocated'
    BY <1>0, <1>1, ZenonT(30) DEF SubstreamInv, SubstreamsAllocated, TypeOK
  <2>2. ASSUME NEW s \in SubstreamId PROVE OnePlace(s)' /\ PendingRequest(s)'
    <3>1. OnePlace(s) /\ PendingRequest(s)
      BY <1>0, Zenon DEF SubstreamInv, InOnePlace, PendingAgree
    <3>2. \A d \in ConnectionId : /\ Occurs(s, commands'[d]) => Occurs(s, commands[d])
                                  /\ Precedes(s, s, commands'[d]) => Precedes(s, s, commands[d])
                                  /\ s \in opening'[d] => s \in opening[d]
      BY <1>1, EmptyOccurs, Zenon
    <3>3. OnePlace(s)'
      BY <1>1, <1>3, <3>1, <3>2, OnePlaceKept, Zenon
    <3>4. RequestKept(s)
      BY <1>0, <1>1, <1>3, Zenon DEF RequestKept, TypeOK, Waiting, InChannel
    <3>5. PendingRequest(s)'
      BY <1>1, <3>1, <3>4, PendingKept, Zenon
    <3> QED BY <3>3, <3>5, Zenon
  <2> QED BY <2>1, <2>2, Zenon DEF SubstreamInv, InOnePlace, PendingAgree
<1>9. ProtocolInv' /\ TimersAgree'
  BY <1>0, ProtocolFrame, TimersFrame, Zenon DEF ReportToManager, substreams, contexts
<1> QED BY <1>2, <1>4, <1>5, <1>7, <1>8, <1>9, Zenon DEF IInv, ConnectionInv, SubstreamInv, ProtocolInv

-----------------------------------------------------------------------------
(* The steps of the service and of its protocol *)

(* Nothing is ahead of the first event. *)
LEMMA HeadFirst ==
  ASSUME TypeOK, rx # <<>>, NEW k, k = Head(rx).kind, NEW x, x = Head(rx).id
  PROVE  /\ [kind |-> k, id |-> x] \in Event /\ InEvents(k, x)
         /\ \A m, z : InEvents(m, z) => (m = k /\ z = x) \/ Before(k, x, m, z)
         /\ \A l, y : Before(l, y, k, x) => Before(k, x, k, x)
<1>1. rx \in Seq(Event)
  BY Zenon DEF TypeOK
<1>2. /\ Head(rx) \in Event
      /\ \A e : Occurs(e, rx) <=> Occurs(e, Tail(rx)) \/ e = Head(rx)
      /\ \A e, f : Precedes(e, f, rx)
                     <=> Precedes(e, f, Tail(rx)) \/ (e = Head(rx) /\ Occurs(f, Tail(rx)))
  BY <1>1, TailOccurs, Zenon
<1>3. Head(rx) = [kind |-> k, id |-> x]
  BY <1>2, Zenon DEF Event
<1>4. \A l, y : [kind |-> l, id |-> y] = [kind |-> k, id |-> x] <=> l = k /\ y = x
  BY Zenon
<1>5. \A e, f : Precedes(e, f, Tail(rx)) => Occurs(f, Tail(rx))
  BY PrecedesOccurs, Zenon
<1> QED BY <1>2, <1>3, <1>4, <1>5 DEF InEvents, Before

(* A third connection of a peer is never received. *)
LEMMA EstablishedHead ==
  ASSUME IInv, rx # <<>>, Head(rx).kind = "established",
         NEW c, c = Head(rx).id, NEW p, p = remote[c]
  PROVE  /\ c \in ConnectionId /\ p \in Peer /\ ~Known(c) /\ InEvents("established", c)
         /\ primary[p] = None \/ secondary[p] = None
<1>0. TypeOK /\ ConnectionInv
  BY IInvParts, Zenon
<1>1. /\ [kind |-> "established", id |-> c] \in Event /\ InEvents("established", c)
      /\ \A m, z : InEvents(m, z) => (m = "established" /\ z = c) \/ Before("established", c, m, z)
      /\ \A l, y : Before(l, y, "established", c) => Before("established", c, "established", c)
  BY <1>0, HeadFirst, Zenon
<1>2. c \in ConnectionId
  BY <1>1, EventType, Zenon
<1>3. p \in Peer /\ ~Known(c)
  BY <1>0, <1>1, <1>2 DEF ConnectionInv, Lifecycle, ContextsAgree, Tracked, TypeOK
<1>4. ASSUME primary[p] # None, secondary[p] # None PROVE FALSE
  <2>1. \A d : ~Before("closed", d, "established", c)
    BY <1>0, <1>1, <1>2, Zenon DEF ConnectionInv, EventsOrdered
  <2>2. primary[p] \in ConnectionId /\ secondary[p] \in ConnectionId
    BY <1>0, <1>3, <1>4, Zenon DEF TypeOK
  <2>3. remote[primary[p]] = p /\ remote[secondary[p]] = p /\ primary[p] # secondary[p]
    BY <1>0, <1>3, <1>4, Zenon DEF ConnectionInv, ContextsAgree
  <2>4. Ahead(primary[p], c) /\ Ahead(secondary[p], c)
    BY <1>3, <2>1, <2>3, NoneApart, Zenon DEF Ahead, Known
  <2> QED BY <1>0, <1>1, <1>2, <2>2, <2>3, <2>4, Zenon DEF ConnectionInv, OneAhead
<1> QED BY <1>1, <1>2, <1>3, <1>4, Zenon

(* The debug_assert of on_connection_closed; and all that was told of      *)
(* substreams of the connection has been received.                         *)
LEMMA ClosedHead ==
  ASSUME IInv, rx # <<>>, Head(rx).kind = "closed",
         NEW c, c = Head(rx).id, NEW p, p = remote[c]
  PROVE  /\ c \in ConnectionId /\ p \in Peer /\ Known(c)
         /\ task[c] \in {"reported", "closed"} /\ ~InEvents("established", c)
         /\ \A s \in SubstreamId : on[s] = c => ~Told(s)
<1>0. TypeOK /\ ConnectionInv
  BY IInvParts, Zenon
<1>1. /\ [kind |-> "closed", id |-> c] \in Event /\ InEvents("closed", c)
      /\ \A m, z : InEvents(m, z) => (m = "closed" /\ z = c) \/ Before("closed", c, m, z)
      /\ \A l, y : Before(l, y, "closed", c) => Before("closed", c, "closed", c)
  BY <1>0, HeadFirst, Zenon
<1>2. c \in ConnectionId
  BY <1>1, EventType, Zenon
<1>3. ~InEvents("established", c)
  BY <1>0, <1>1, <1>2, Zenon DEF ConnectionInv, EventsOrdered
<1>4. Known(c) /\ task[c] \in {"reported", "closed"}
  BY <1>0, <1>1, <1>2, <1>3, Zenon DEF ConnectionInv, Lifecycle, Tracked, TypeOK
<1>5. p \in Peer
  BY <1>0, <1>2, <1>4, Zenon DEF Known, TypeOK
<1>6. ASSUME NEW s \in SubstreamId, on[s] = c PROVE ~Told(s)
  BY <1>0, <1>1, <1>6, Zenon DEF ConnectionInv, EventsOrdered, Told
<1> QED BY <1>2, <1>3, <1>4, <1>5, <1>6, Zenon

(* ConnectionEstablished, as the service receives it, keeps the invariant. *)
LEMMA ReceiveEstablishedStep ==
  ASSUME IInv, ReceiveEstablished
  PROVE  IInv'
<1>c. PICK c : c = Head(rx).id
  BY Zenon
<1>p. PICK p : p = remote[c]
  BY Zenon
<1>0. TypeOK /\ ConnectionInv /\ SubstreamInv /\ ProtocolInv /\ TimersAgree
  BY IInvParts, Zenon
<1>r. Receive("established")
  BY Zenon DEF ReceiveEstablished
<1>1. /\ rx' \in Seq(Event) /\ [kind |-> "established", id |-> c] \in Event
      /\ \A l, y : InEvents(l, y) <=> InEvents(l, y)' \/ (l = "established" /\ y = c)
      /\ \A l, y, m, z : Before(l, y, m, z)
           <=> Before(l, y, m, z)' \/ (l = "established" /\ y = c /\ InEvents(m, z)')
      /\ \A l, y, m, z : Before(l, y, m, z)' => InEvents(l, y)' /\ InEvents(m, z)'
  <2>1. Received("established", c)
    BY <1>0, <1>c, <1>r, ReceiveEffect, Zenon
  <2> QED BY <2>1, Zenon DEF Received
<1>2. /\ c \in ConnectionId /\ p \in Peer /\ ~Known(c)
      /\ primary[p] # c /\ secondary[p] # c
      /\ ~InEvents("established", c)' /\ InEvents("established", c)
      /\ primary[p] = None \/ secondary[p] = None
  <2>1. /\ c \in ConnectionId /\ p \in Peer /\ ~Known(c) /\ InEvents("established", c)
        /\ primary[p] = None \/ secondary[p] = None
    BY <1>c, <1>p, <1>r, EstablishedHead, Zenon DEF Receive
  <2>2. ~InEvents("established", c)'
    BY <1>0, <1>1, <2>1, Zenon DEF ConnectionInv, EventsOrdered
  <2>3. primary[p] # c /\ secondary[p] # c
    BY <1>p, <2>1, NoneApart, Zenon DEF Known
  <2> QED BY <2>1, <2>2, <2>3, Zenon
<1>3. /\ substream_activity(c)
      /\ active' = active \cup {c}
      /\ IF primary[p] = None
           THEN primary' = [primary EXCEPT ![p] = c] /\ UNCHANGED secondary
           ELSE secondary' = [secondary EXCEPT ![p] = c] /\ UNCHANGED primary
      /\ sessions' = IF primary[p] = None THEN [sessions EXCEPT ![p] = @ + 1] ELSE sessions
      /\ UNCHANGED <<tasks, commands, opening, substreams, pending_outbound,
                     pending_events, open, requested, answers>>
  BY <1>c, <1>p, <1>2, Zenon DEF ReceiveEstablished, Reported
<1>q. pending_events.failures = {} /\ pending_events.closed = None
  BY <1>r, Zenon DEF Receive, QueueEmpty
<1>4. TypeOK'
  <2>1. primary[p] = None => sessions[p] = 0
    BY <1>0, <1>2, <1>q, NoneApart, Zenon DEF ProtocolInv, SessionsAgree
  <2>2. sessions' \in [Peer -> {0, 1}]
    BY <1>0, <1>2, <1>3, <2>1 DEF TypeOK
  <2>3. /\ primary' \in [Peer -> ConnectionId \cup {None}]
        /\ secondary' \in [Peer -> ConnectionId \cup {None}]
    BY <1>0, <1>2, <1>3, Zenon DEF TypeOK
  <2>4. /\ active' \subseteq ConnectionId /\ last_activity' \subseteq ConnectionId
        /\ pending_keep_alive_timeouts' \subseteq ConnectionId
    BY <1>0, <1>2, <1>3, Zenon DEF TypeOK, substream_activity
  <2> QED BY <1>0, <1>1, <1>3, <2>2, <2>3, <2>4, Zenon DEF TypeOK, tasks, substreams
<1>5. /\ p = remote[c] /\ remote' = remote /\ task' = task
      /\ \A q \in Peer : q # p => primary'[q] = primary[q] /\ secondary'[q] = secondary[q]
      /\ \/ primary[p] = None /\ primary'[p] = c /\ secondary'[p] = secondary[p]
         \/ primary[p] # None /\ primary'[p] = primary[p] /\ secondary[p] = None /\ secondary'[p] = c
  BY <1>0, <1>p, <1>2, <1>3, Zenon DEF TypeOK, tasks
<1>6. \A d \in ConnectionId : Known(d)' <=> Known(d) \/ d = c
  BY <1>0, <1>2, <1>5, NoneApart DEF Known, TypeOK
<1>7. \A d \in ConnectionId : Tracked(d)' <=> Tracked(d)
  BY <1>1, <1>2, <1>6, Zenon DEF Tracked
<1>8. ContextsAgree'
  <2>1. ASSUME NEW q \in Peer
        PROVE  /\ primary'[q] # None => remote'[primary'[q]] = q
               /\ secondary'[q] # None => /\ remote'[secondary'[q]] = q
                                         /\ primary'[q] \notin {None, secondary'[q]}
    <3>1. CASE q # p
      BY <1>0, <1>5, <3>1, Zenon DEF ConnectionInv, ContextsAgree
    <3>2. CASE q = p /\ primary[p] = None
      BY <1>0, <1>2, <1>5, <3>2, Zenon DEF ConnectionInv, ContextsAgree
    <3>3. CASE q = p /\ primary[p] # None
      BY <1>0, <1>2, <1>5, <3>3, NoneApart, Zenon DEF ConnectionInv, ContextsAgree
    <3> QED BY <3>1, <3>2, <3>3, Zenon
  <2> QED BY <1>0, <1>5, <2>1, Zenon DEF ConnectionInv, ContextsAgree
<1>9. Lifecycle'
  BY <1>0, <1>1, <1>2, <1>5, <1>6, <1>7, Zenon DEF ConnectionInv, Lifecycle
<1>10. EventsOrdered'
  <2>1. on' = on
    BY <1>3, Zenon DEF substreams
  <2>2. \A l, y, m, z : Before(l, y, m, z)' => Before(l, y, m, z)
    BY <1>1, Zenon
  <2> QED BY <1>0, <2>1, <2>2, EventsOrderedKept, Zenon DEF ConnectionInv
<1>11. ASSUME NEW f \in ConnectionId, InEvents("established", f)',
              NEW d \in ConnectionId, Ahead(d, f)'
       PROVE  Ahead(d, f)
  BY <1>1, <1>5, <1>6, <1>11, Zenon DEF Ahead
<1>12. OneAhead'
  BY <1>0, <1>1, <1>11, Zenon DEF ConnectionInv, OneAhead
<1>13. SubstreamInv'
  <2>1. UNCHANGED <<on, inbound, next_substream_id, commands, opening, pending_outbound>>
    BY <1>3, Zenon DEF substreams
  <2>2. SubstreamsAllocated'
    BY <1>0, <1>5, <2>1, Zenon DEF SubstreamInv, SubstreamsAllocated
  <2>3. ASSUME NEW s \in SubstreamId PROVE OnePlace(s)' /\ PendingRequest(s)'
    <3>1. OnePlace(s) /\ PendingRequest(s)
      BY <1>0, Zenon DEF SubstreamInv, InOnePlace, PendingAgree
    <3>2. (InEvents("failure", s)' <=> InEvents("failure", s)) /\ (Told(s)' <=> Told(s))
      BY <1>1 DEF Told
    <3>3. OnePlace(s)'
      BY <2>1, <3>1, <3>2, OnePlaceKept, Zenon
    <3>4. Waiting(s)' <=> Waiting(s)
      BY <2>1, Zenon DEF Waiting, InChannel
    <3>5. RequestKept(s)
      BY <1>0, <1>5, <1>6, <2>1, <3>2, <3>4, ZenonT(30) DEF RequestKept, TypeOK
    <3>6. PendingRequest(s)'
      BY <2>1, <3>1, <3>5, PendingKept, Zenon
    <3> QED BY <3>3, <3>6, Zenon
  <2> QED BY <2>2, <2>3, Zenon DEF SubstreamInv, InOnePlace, PendingAgree
<1>14. ProtocolInv'
  <2>1. ASSUME NEW s \in SubstreamId PROVE RequestAnswer(s)'
    BY <1>0, <1>3, <1>5, Zenon DEF ProtocolInv, RequestsAgree, RequestAnswer, substreams
  <2>2. ASSUME NEW q \in Peer
        PROVE  /\ sessions'[q] = IF primary'[q] # None \/ pending_events'.closed = q THEN 1 ELSE 0
               /\ pending_events'.closed = q => primary'[q] = None
    BY <1>0, <1>2, <1>3, <1>5, <1>q, NoneApart DEF ProtocolInv, SessionsAgree, TypeOK
  <2> QED BY <2>1, <2>2, Zenon DEF ProtocolInv, RequestsAgree, SessionsAgree
<1>15. TimersAgree'
  BY <1>0, <1>2, <1>3, <1>6, Zenon DEF TimersAgree, substream_activity, TypeOK
<1> QED BY <1>4, <1>8, <1>9, <1>10, <1>12, <1>13, <1>14, <1>15, Zenon
        DEF IInv, ConnectionInv, SubstreamInv, ProtocolInv

(* What the first of the queued events does to the account of the protocol. *)
LEMMA PopEventEffect ==
  ASSUME NEW queue \in [failures : SUBSET SubstreamId, closed : Peer \cup {None}],
         PopEvent(queue), TypeOK
  PROVE  \/ \E s \in queue.failures :
              /\ pending_events' = [failures |-> queue.failures \ {s}, closed |-> queue.closed]
              /\ answers' = [answers EXCEPT ![s] = @ + 1]
              /\ UNCHANGED <<sessions, requested>>
         \/ /\ queue.failures = {} /\ queue.closed \in Peer
            /\ pending_events' = [failures |-> {}, closed |-> None]
            /\ sessions' = [sessions EXCEPT ![queue.closed] = @ - 1]
            /\ UNCHANGED <<requested, answers>>
<1>1. ASSUME NEW s \in queue.failures, pending_events' = [queue EXCEPT !.failures = @ \ {s}]
      PROVE  pending_events' = [failures |-> queue.failures \ {s}, closed |-> queue.closed]
  BY <1>1, Zenon
<1>2. ASSUME queue.failures = {}, pending_events' = [queue EXCEPT !.closed = None]
      PROVE  pending_events' = [failures |-> {}, closed |-> None]
  BY <1>2, Zenon
<1>3. queue.closed # None => queue.closed \in Peer
  BY Zenon
<1> QED BY <1>1, <1>2, <1>3, Zenon DEF PopEvent

(* The account of the protocol when the events of the queue are, or begin  *)
(* to be, delivered.                                                       *)
LEMMA QueueStep ==
  ASSUME TypeOK, NEW queue \in [failures : SUBSET SubstreamId, closed : Peer \cup {None}],
         PopEvent(queue),
         \A s \in SubstreamId :
           /\ requested[s] = IF on[s] # None /\ s \notin inbound THEN remote[on[s]] ELSE None
           /\ requested[s] = None => answers[s] = 0
           /\ requested[s] # None /\ answers[s] = 0
                <=> pending_outbound'[s] # None \/ s \in queue.failures
           /\ s \in queue.failures => pending_outbound'[s] = None,
         \A p \in Peer :
           /\ sessions[p] = IF primary'[p] # None \/ queue.closed = p THEN 1 ELSE 0
           /\ queue.closed = p => primary'[p] = None,
         UNCHANGED <<on, inbound, remote>>
  PROVE  /\ pending_events' \in [failures : SUBSET SubstreamId, closed : Peer \cup {None}]
         /\ sessions' \in [Peer -> {0, 1}]
         /\ requested' \in [SubstreamId -> Peer \cup {None}]
         /\ answers' \in [SubstreamId -> {0, 1}]
         /\ ProtocolInv'
<1>1. /\ sessions \in [Peer -> {0, 1}] /\ requested \in [SubstreamId -> Peer \cup {None}]
      /\ answers \in [SubstreamId -> {0, 1}]
  BY Zenon DEF TypeOK
<1>2. CASE \E s \in queue.failures :
              /\ pending_events' = [failures |-> queue.failures \ {s}, closed |-> queue.closed]
              /\ answers' = [answers EXCEPT ![s] = @ + 1]
              /\ UNCHANGED <<sessions, requested>>
  <2>1. PICK s \in queue.failures :
              /\ pending_events' = [failures |-> queue.failures \ {s}, closed |-> queue.closed]
              /\ answers' = [answers EXCEPT ![s] = @ + 1]
              /\ UNCHANGED <<sessions, requested>>
    BY <1>2, Zenon
  <2>2. s \in SubstreamId /\ answers[s] = 0 /\ pending_outbound'[s] = None
    BY Zenon
  <2>3. /\ pending_events'.failures = queue.failures \ {s} /\ pending_events'.closed = queue.closed
        /\ pending_events' \in [failures : SUBSET SubstreamId, closed : Peer \cup {None}]
    BY <2>1, Zenon
  <2>4. /\ answers' \in [SubstreamId -> {0, 1}] /\ answers'[s] = 1
        /\ \A t \in SubstreamId : t # s => answers'[t] = answers[t]
    <3>1. answers' = [answers EXCEPT ![s] = 1]
      BY <2>1, <2>2, OneLess, Zenon
    <3> QED BY <1>1, <2>2, <3>1, Zenon
  <2>5. ASSUME NEW t \in SubstreamId PROVE RequestAnswer(t)'
    <3>1. CASE t = s
      BY <2>1, <2>2, <2>3, <2>4, <3>1, OneLess, Zenon DEF RequestAnswer
    <3>2. CASE t # s
      BY <2>1, <2>3, <2>4, <3>2, ZenonT(30) DEF RequestAnswer
    <3> QED BY <3>1, <3>2, Zenon
  <2>6. SessionsAgree'
    BY <2>1, <2>3, Zenon DEF SessionsAgree
  <2> QED BY <1>1, <2>1, <2>3, <2>4, <2>5, <2>6, Zenon DEF ProtocolInv, RequestsAgree
<1>3. CASE /\ queue.failures = {} /\ queue.closed \in Peer
           /\ pending_events' = [failures |-> {}, closed |-> None]
           /\ sessions' = [sessions EXCEPT ![queue.closed] = @ - 1]
           /\ UNCHANGED <<requested, answers>>
  <2>1. /\ pending_events'.failures = {} /\ pending_events'.closed = None
        /\ pending_events' \in [failures : SUBSET SubstreamId, closed : Peer \cup {None}]
    BY <1>3, Zenon
  <2>2. sessions[queue.closed] = 1 /\ primary'[queue.closed] = None
    BY <1>3, Zenon
  <2>3. /\ sessions' \in [Peer -> {0, 1}] /\ sessions'[queue.closed] = 0
        /\ \A p \in Peer : p # queue.closed => sessions'[p] = sessions[p]
    <3>1. sessions' = [sessions EXCEPT ![queue.closed] = 0]
      BY <1>3, <2>2, OneLess, Zenon
    <3> QED BY <1>1, <1>3, <3>1, Zenon
  <2>4. ASSUME NEW t \in SubstreamId PROVE RequestAnswer(t)'
    BY <1>3, <2>1, Zenon DEF RequestAnswer
  <2>5. SessionsAgree'
    <3>1. ASSUME NEW p \in Peer
          PROVE  /\ sessions'[p] = IF primary'[p] # None \/ pending_events'.closed = p
                                    THEN 1 ELSE 0
                 /\ pending_events'.closed = p => primary'[p] = None
      <4>1. pending_events'.closed # p
        BY <2>1, NoneApart, Zenon
      <4>2. CASE p = queue.closed
        BY <2>2, <2>3, <4>1, <4>2, Zenon
      <4>3. CASE p # queue.closed
        <5>1. sessions'[p] = sessions[p]
          BY <2>3, <4>3, Zenon
        <5>2. sessions[p] = IF primary'[p] # None THEN 1 ELSE 0
          BY <4>3, Zenon
        <5> QED BY <4>1, <5>1, <5>2, Zenon
      <4> QED BY <4>2, <4>3, Zenon
    <3> QED BY <3>1, Zenon DEF SessionsAgree
  <2> QED BY <1>1, <1>3, <2>1, <2>3, <2>4, <2>5, Zenon DEF ProtocolInv, RequestsAgree
<1> QED BY <1>2, <1>3, PopEventEffect, Zenon

(* An event that waits in pending_events is given to the protocol. *)
LEMMA DeliverPendingStep ==
  ASSUME IInv, DeliverPending
  PROVE  IInv'
<1>0. TypeOK /\ ConnectionInv /\ SubstreamInv /\ ProtocolInv /\ TimersAgree
  BY IInvParts, Zenon
<1>1. /\ PopEvent(pending_events)
      /\ UNCHANGED <<tasks, commands, opening, substreams, rx, contexts, tracker,
                     pending_outbound, open>>
  BY Zenon DEF DeliverPending
<1>2. /\ pending_events' \in [failures : SUBSET SubstreamId, closed : Peer \cup {None}]
      /\ sessions' \in [Peer -> {0, 1}]
      /\ requested' \in [SubstreamId -> Peer \cup {None}]
      /\ answers' \in [SubstreamId -> {0, 1}]
      /\ ProtocolInv'
  <2>1. pending_events \in [failures : SUBSET SubstreamId, closed : Peer \cup {None}]
    BY <1>0, Zenon DEF TypeOK
  <2>2. \A s \in SubstreamId :
           /\ requested[s] = IF on[s] # None /\ s \notin inbound THEN remote[on[s]] ELSE None
           /\ requested[s] = None => answers[s] = 0
           /\ requested[s] # None /\ answers[s] = 0
                <=> pending_outbound'[s] # None \/ s \in pending_events.failures
           /\ s \in pending_events.failures => pending_outbound'[s] = None
    BY <1>0, <1>1, Zenon DEF ProtocolInv, RequestsAgree, RequestAnswer
  <2>3. \A p \in Peer :
           /\ sessions[p] = IF primary'[p] # None \/ pending_events.closed = p THEN 1 ELSE 0
           /\ pending_events.closed = p => primary'[p] = None
    BY <1>0, <1>1, Zenon DEF ProtocolInv, SessionsAgree, contexts
  <2>4. UNCHANGED <<on, inbound, remote>>
    BY <1>1, Zenon DEF substreams, tasks
  <2> QED BY <1>0, <1>1, <2>1, <2>2, <2>3, <2>4, QueueStep, Zenon
<1>3. TypeOK'
  BY <1>0, <1>1, <1>2, Zenon DEF TypeOK, tasks, substreams, contexts, tracker
<1>4. ConnectionInv' /\ SubstreamInv' /\ TimersAgree'
  BY <1>0, <1>1, ConnectionFrame, SubstreamFrame, TimersFrame, Zenon DEF tasks, substreams, contexts
<1> QED BY <1>2, <1>3, <1>4, Zenon DEF IInv, ConnectionInv, SubstreamInv, ProtocolInv

(* ConnectionClosed keeps the invariant. *)
LEMMA ReceiveClosedStep ==
  ASSUME IInv, ReceiveClosed
  PROVE  IInv'
<1>c. PICK c : c = Head(rx).id
  BY Zenon
<1>p. PICK p : p = remote[c]
  BY Zenon
<1>0. TypeOK /\ ConnectionInv /\ SubstreamInv /\ ProtocolInv /\ TimersAgree
  BY IInvParts, Zenon
<1>r. Receive("closed")
  BY Zenon DEF ReceiveClosed
<1>q. pending_events.failures = {} /\ pending_events.closed = None
  BY <1>r, Zenon DEF Receive, QueueEmpty
<1>1. /\ rx' \in Seq(Event) /\ [kind |-> "closed", id |-> c] \in Event
      /\ \A l, y : InEvents(l, y) <=> InEvents(l, y)' \/ (l = "closed" /\ y = c)
      /\ \A l, y, m, z : Before(l, y, m, z)
           <=> Before(l, y, m, z)' \/ (l = "closed" /\ y = c /\ InEvents(m, z)')
      /\ \A l, y, m, z : Before(l, y, m, z)' => InEvents(l, y)' /\ InEvents(m, z)'
  <2>1. Received("closed", c)
    BY <1>0, <1>c, <1>r, ReceiveEffect, Zenon
  <2> QED BY <2>1, Zenon DEF Received
<1>2. /\ c \in ConnectionId /\ p \in Peer /\ Known(c)
      /\ task[c] \in {"reported", "closed"}
      /\ ~InEvents("established", c) /\ ~InEvents("closed", c)'
      /\ \A s \in SubstreamId : on[s] = c => ~Told(s)
  <2>1. /\ c \in ConnectionId /\ p \in Peer /\ Known(c)
        /\ task[c] \in {"reported", "closed"} /\ ~InEvents("established", c)
        /\ \A s \in SubstreamId : on[s] = c => ~Told(s)
    BY <1>c, <1>p, <1>r, ClosedHead, Zenon DEF Receive
  <2>2. ~InEvents("closed", c)'
    BY <1>0, <1>1, <2>1, Zenon DEF ConnectionInv, EventsOrdered
  <2> QED BY <2>1, <2>2, Zenon
<1>3. PICK kept : kept = Promoted(p, c)
  BY Zenon
<1>4. PICK queue : queue = [failures |-> FailedRequests(c),
                            closed |-> IF primary[p] = c /\ kept = None THEN p ELSE None]
  BY Zenon
<1>5. /\ last_activity' = last_activity \ {c}
      /\ pending_outbound' = [s \in SubstreamId |-> IF s \in FailedRequests(c) THEN None
                                                    ELSE pending_outbound[s]]
      /\ primary' = [primary EXCEPT ![p] = kept]
      /\ secondary' = [secondary EXCEPT ![p] = None]
      /\ active' = active \ ({primary[p], secondary[p]} \ {kept})
      /\ IF QueueEmpty(queue) THEN UNCHANGED <<pending_events, outcome>> ELSE PopEvent(queue)
      /\ UNCHANGED <<tasks, commands, opening, substreams, pending_keep_alive_timeouts, open>>
  BY <1>c, <1>p, <1>3, <1>4, Zenon DEF ReceiveClosed
<1>6. /\ UNCHANGED <<task, remote, commands, opening, on, inbound, next_substream_id>>
  BY <1>5, Zenon DEF tasks, substreams
<1>7. /\ c # None /\ remote[c] = p
      /\ \/ primary[p] = c /\ secondary[p] # c /\ kept = secondary[p]
         \/ primary[p] # c /\ primary[p] # None /\ secondary[p] = c /\ kept = primary[p]
  <2>1. c # None /\ remote[c] = p
    BY <1>2, <1>p, NoneApart, Zenon
  <2>2. c \in {primary[p], secondary[p]}
    BY <1>2, <1>p, Zenon DEF Known
  <2>3. secondary[p] # None => primary[p] # None /\ primary[p] # secondary[p]
    BY <1>0, <1>2, Zenon DEF ConnectionInv, ContextsAgree
  <2>4. CASE primary[p] = c
    <3>1. kept = secondary[p]
      BY <1>3, <2>4, Zenon DEF Promoted
    <3> QED BY <2>1, <2>3, <2>4, <3>1, Zenon
  <2>5. CASE primary[p] # c
    <3>1. kept = primary[p]
      BY <1>3, <2>5, Zenon DEF Promoted
    <3> QED BY <2>1, <2>2, <2>3, <2>5, <3>1, Zenon
  <2> QED BY <2>4, <2>5, Zenon
<1>8. /\ primary'[p] = kept /\ secondary'[p] = None
      /\ kept \in ConnectionId \cup {None} /\ kept # c
      /\ primary' \in [Peer -> ConnectionId \cup {None}]
      /\ secondary' \in [Peer -> ConnectionId \cup {None}]
      /\ \A q \in Peer : q # p => primary'[q] = primary[q] /\ secondary'[q] = secondary[q]
  <2>1. /\ primary \in [Peer -> ConnectionId \cup {None}]
        /\ secondary \in [Peer -> ConnectionId \cup {None}]
    BY <1>0, Zenon DEF TypeOK
  <2>2. kept \in ConnectionId \cup {None} /\ kept # c
    BY <1>2, <1>7, <2>1, Zenon
  <2> QED BY <1>2, <1>5, <2>1, <2>2, Zenon
<1>9. \A d \in ConnectionId : Known(d)' <=> Known(d) /\ d # c
  <2>1. ASSUME NEW d \in ConnectionId PROVE Known(d)' <=> Known(d) /\ d # c
    <3>1. d # None /\ remote'[d] = remote[d] /\ (remote[d] # None => remote[d] \in Peer)
      BY <1>0, <1>6, NoneApart, Zenon DEF TypeOK
    <3>2. CASE remote[d] = p
      BY <1>6, <1>7, <1>8, <3>1, <3>2, Zenon DEF Known
    <3>3. CASE remote[d] # p
      BY <1>7, <1>8, <3>1, <3>3, Zenon DEF Known
    <3> QED BY <3>2, <3>3, Zenon
  <2> QED BY <2>1, Zenon
<1>10. \A s \in SubstreamId :
         /\ pending_outbound[s] = c => pending_outbound'[s] = None
         /\ pending_outbound[s] # c => pending_outbound'[s] = pending_outbound[s]
  BY <1>5, Zenon DEF FailedRequests
<1>11. TypeOK' /\ ProtocolInv'
  <2>1. queue \in [failures : SUBSET SubstreamId, closed : Peer \cup {None}]
    BY <1>2, <1>4, Zenon DEF FailedRequests
  <2>2. /\ queue.closed = IF primary[p] = c /\ kept = None THEN p ELSE None
        /\ \A s \in SubstreamId : s \in queue.failures <=> pending_outbound[s] = c
    BY <1>4, Zenon DEF FailedRequests
  <2>3. \A s \in SubstreamId :
           /\ requested[s] = IF on[s] # None /\ s \notin inbound THEN remote[on[s]] ELSE None
           /\ requested[s] = None => answers[s] = 0
           /\ requested[s] # None /\ answers[s] = 0
                <=> pending_outbound'[s] # None \/ s \in queue.failures
           /\ s \in queue.failures => pending_outbound'[s] = None
    BY <1>0, <1>q, <1>7, <1>10, <2>2, Zenon DEF ProtocolInv, RequestsAgree, RequestAnswer
  <2>4. \A q \in Peer :
           /\ sessions[q] = IF primary'[q] # None \/ queue.closed = q THEN 1 ELSE 0
           /\ queue.closed = q => primary'[q] = None
    <3>1. ASSUME NEW q \in Peer
          PROVE  sessions[q] = IF primary[q] # None THEN 1 ELSE 0
      <4>1. pending_events.closed # q
        BY <1>q, NoneApart, Zenon
      <4> QED BY <1>0, <4>1, Zenon DEF ProtocolInv, SessionsAgree
    <3>2. ASSUME NEW q \in Peer, q # p
          PROVE  primary'[q] = primary[q] /\ queue.closed # q
      BY <1>8, <2>2, <3>2, NoneApart, Zenon
    <3>3. primary[p] # None /\ sessions[p] = 1
      BY <1>2, <1>7, <3>1, Zenon
    <3>4. /\ primary'[p] # None \/ queue.closed = p
          /\ queue.closed = p => primary'[p] = None
      <4>1. CASE primary[p] = c /\ kept = None
        BY <1>8, <2>2, <4>1, Zenon
      <4>2. CASE ~(primary[p] = c /\ kept = None)
        <5>1. kept # None
          BY <1>7, <4>2, Zenon
        <5>2. queue.closed # p
          BY <1>2, <2>2, <4>2, NoneApart, Zenon
        <5> QED BY <1>8, <5>1, <5>2, Zenon
      <4> QED BY <4>1, <4>2, Zenon
    <3>5. ASSUME NEW q \in Peer
          PROVE  /\ sessions[q] = IF primary'[q] # None \/ queue.closed = q THEN 1 ELSE 0
                 /\ queue.closed = q => primary'[q] = None
      <4>1. CASE q = p
        BY <3>3, <3>4, <4>1, Zenon
      <4>2. CASE q # p
        BY <3>1, <3>2, <4>2, Zenon
      <4> QED BY <4>1, <4>2, Zenon
    <3> QED BY <3>5, Zenon
  <2>5. /\ pending_events' \in [failures : SUBSET SubstreamId, closed : Peer \cup {None}]
        /\ sessions' \in [Peer -> {0, 1}]
        /\ requested' \in [SubstreamId -> Peer \cup {None}]
        /\ answers' \in [SubstreamId -> {0, 1}]
        /\ ProtocolInv'
    <3>1. CASE ~QueueEmpty(queue)
      BY <1>0, <1>5, <1>6, <2>1, <2>3, <2>4, <3>1, QueueStep, Zenon
    <3>2. CASE QueueEmpty(queue)
      <4>1. UNCHANGED <<pending_events, sessions, requested, answers>>
        BY <1>5, <3>2, Zenon DEF outcome
      <4>2. queue.failures = {} /\ queue.closed = None
        BY <3>2, Zenon DEF QueueEmpty
      <4>3. ASSUME NEW s \in SubstreamId PROVE RequestAnswer(s)'
        BY <1>6, <1>q, <2>3, <4>1, <4>2, Zenon DEF RequestAnswer
      <4>4. SessionsAgree'
        BY <1>q, <2>4, <4>1, <4>2, Zenon DEF SessionsAgree
      <4> QED BY <1>0, <4>1, <4>3, <4>4, Zenon DEF TypeOK, ProtocolInv, RequestsAgree
    <3> QED BY <3>1, <3>2, Zenon
  <2>6. pending_outbound' \in [SubstreamId -> ConnectionId \cup {None}]
    BY <1>0, <1>5, Zenon DEF TypeOK
  <2>7. active' \subseteq ConnectionId /\ last_activity' \subseteq ConnectionId
    BY <1>0, <1>5, Zenon DEF TypeOK
  <2> QED BY <1>0, <1>1, <1>5, <1>8, <2>5, <2>6, <2>7, Zenon DEF TypeOK, tasks, substreams
<1>12. \A d \in ConnectionId : Tracked(d)' <=> Tracked(d) /\ d # c
  BY <1>1, <1>2, <1>9, Zenon DEF Tracked
<1>13. ContextsAgree'
  <2>1. ASSUME NEW q \in Peer
        PROVE  /\ primary'[q] # None => remote'[primary'[q]] = q
               /\ secondary'[q] # None => /\ remote'[secondary'[q]] = q
                                         /\ primary'[q] \notin {None, secondary'[q]}
    <3>1. remote' = remote
      BY <1>6, Zenon
    <3>2. CASE q # p
      <4>1. primary'[q] = primary[q] /\ secondary'[q] = secondary[q]
        BY <1>8, <3>2, Zenon
      <4> QED BY <1>0, <3>1, <4>1, Zenon DEF ConnectionInv, ContextsAgree
    <3>3. CASE q = p
      <4>1. remote[kept] = p \/ kept = None
        BY <1>0, <1>2, <1>7, Zenon DEF ConnectionInv, ContextsAgree
      <4> QED BY <1>8, <3>1, <3>3, <4>1, Zenon
    <3> QED BY <3>2, <3>3, Zenon
  <2> QED BY <1>0, <1>6, <2>1, Zenon DEF ConnectionInv, ContextsAgree
<1>14. Lifecycle'
  BY <1>0, <1>1, <1>2, <1>6, <1>9, <1>12, Zenon DEF ConnectionInv, Lifecycle
<1>15. EventsOrdered'
  <2>1. on' = on
    BY <1>6, Zenon
  <2>2. \A l, y, m, z : Before(l, y, m, z)' => Before(l, y, m, z)
    BY <1>1, Zenon
  <2> QED BY <1>0, <2>1, <2>2, EventsOrderedKept, Zenon DEF ConnectionInv
<1>16. ASSUME NEW f \in ConnectionId, InEvents("established", f)',
              NEW d \in ConnectionId, Ahead(d, f)'
       PROVE  Ahead(d, f)
  <2>1. remote' = remote
    BY <1>6, Zenon
  <2>2. d # c
    <3>1. Known(d)' \/ Before("established", d, "established", f)'
      BY <1>16, Zenon DEF Ahead
    <3>2. CASE Known(d)'
      BY <1>9, <3>2, Zenon
    <3>3. CASE Before("established", d, "established", f)'
      <4>1. InEvents("established", d)
        BY <1>1, <3>3, Zenon
      <4> QED BY <1>2, <4>1, Zenon
    <3> QED BY <3>1, <3>2, <3>3, Zenon
  <2>3. Known(d) \/ Before("established", d, "established", f)
    BY <1>1, <1>9, <1>16, Zenon DEF Ahead
  <2>4. ~Before("closed", d, "established", f)
    BY <1>1, <1>16, <2>2, Zenon DEF Ahead
  <2> QED BY <1>16, <2>1, <2>3, <2>4, Zenon DEF Ahead
<1>17. OneAhead'
  BY <1>0, <1>1, <1>16, Zenon DEF ConnectionInv, OneAhead
<1>18. SubstreamInv'
  <2>1. SubstreamsAllocated'
    BY <1>0, <1>6, Zenon DEF SubstreamInv, SubstreamsAllocated
  <2>2. ASSUME NEW s \in SubstreamId PROVE OnePlace(s)' /\ PendingRequest(s)'
    <3>1. OnePlace(s) /\ PendingRequest(s)
      BY <1>0, Zenon DEF SubstreamInv, InOnePlace, PendingAgree
    <3>2. (InEvents("failure", s)' <=> InEvents("failure", s)) /\ (Told(s)' <=> Told(s))
      BY <1>1 DEF Told
    <3>3. OnePlace(s)'
      BY <1>6, <3>1, <3>2, OnePlaceKept, Zenon
    <3>4. Waiting(s)' <=> Waiting(s)
      BY <1>6, Zenon DEF Waiting, InChannel
    <3>5. on[s] # None => on[s] \in ConnectionId
      BY <1>0, Zenon DEF TypeOK
    <3>6. PendingRequest(s)'
      BY <1>2, <1>6, <1>7, <1>9, <1>10, <3>1, <3>2, <3>4, <3>5, Zenon DEF PendingRequest
    <3> QED BY <3>3, <3>6, Zenon
  <2> QED BY <2>1, <2>2, Zenon DEF SubstreamInv, InOnePlace, PendingAgree
<1>19. TimersAgree'
  <2>1. c \notin active'
    BY <1>5, <1>7, <1>8, Zenon
  <2> QED BY <1>0, <1>5, <1>9, <2>1, Zenon DEF TimersAgree, TypeOK
<1> QED BY <1>11, <1>13, <1>14, <1>15, <1>17, <1>18, <1>19, Zenon
        DEF IInv, ConnectionInv, SubstreamInv, ProtocolInv

(* What the service knows of a substream it is told of. *)
LEMMA ToldFacts ==
  ASSUME IInv, NEW k \in {"opened", "failure"}, Receive(k), NEW s, s = Head(rx).id
  PROVE  /\ s \in SubstreamId /\ on[s] \in ConnectionId /\ task[on[s]] # "none"
         /\ Told(s) /\ ~InEvents("opened", s)' /\ ~InEvents("failure", s)'
         /\ ~Waiting(s)
         /\ k = "failure" => s \notin inbound
         /\ s \notin inbound => requested[s] # None /\ answers[s] = 0
<1>0. TypeOK /\ ConnectionInv /\ SubstreamInv /\ ProtocolInv
  BY IInvParts, Zenon
<1>1. /\ rx' \in Seq(Event) /\ [kind |-> k, id |-> s] \in Event
      /\ \A l, y : InEvents(l, y) <=> InEvents(l, y)' \/ (l = k /\ y = s)
      /\ \A l, y, m, z : Before(l, y, m, z)
           <=> Before(l, y, m, z)' \/ (l = k /\ y = s /\ InEvents(m, z)')
      /\ \A l, y, m, z : Before(l, y, m, z)' => InEvents(l, y)' /\ InEvents(m, z)'
  <2>1. Received(k, s)
    BY <1>0, ReceiveEffect, Zenon
  <2> QED BY <2>1, Zenon DEF Received
<1>2. s \in SubstreamId
  BY <1>1, EventType, Zenon
<1>3. InEvents(k, s) /\ ~InEvents("opened", s)' /\ ~InEvents("failure", s)'
  BY <1>0, <1>1, <1>2, Zenon DEF ConnectionInv, EventsOrdered
<1>4. Told(s)
  BY <1>3, Zenon DEF Told
<1>5. on[s] \in ConnectionId /\ task[on[s]] # "none"
  BY <1>0, <1>2, <1>4
     DEF SubstreamInv, SubstreamsAllocated, InOnePlace, OnePlace, TypeOK
<1>6. ~Waiting(s)
  BY <1>0, <1>2, <1>4, <1>5, Zenon DEF SubstreamInv, InOnePlace, OnePlace, Waiting, InChannel
<1>7. k = "failure" => s \notin inbound
  BY <1>0, <1>2, <1>3, Zenon DEF SubstreamInv, InOnePlace, OnePlace
<1>8. s \notin inbound => requested[s] # None /\ answers[s] = 0
  <2>1. s \notin inbound => pending_outbound[s] # None
    BY <1>0, <1>2, <1>4, <1>5, NoneApart, Zenon DEF SubstreamInv, PendingAgree, PendingRequest
  <2> QED BY <1>0, <1>2, <2>1, Zenon DEF ProtocolInv, RequestsAgree, RequestAnswer
<1> QED BY <1>2, <1>3, <1>4, <1>5, <1>6, <1>7, <1>8, Zenon

(* Receiving what became of a substream ends its request. *)
LEMMA ToldStep ==
  ASSUME IInv, NEW k \in {"opened", "failure"}, Receive(k), NEW s, s = Head(rx).id,
         pending_outbound' = [pending_outbound EXCEPT ![s] = None],
         UNCHANGED <<task, remote, commands, opening, on, inbound, next_substream_id,
                     primary, secondary, pending_events, sessions, requested>>,
         answers' = IF s \in inbound THEN answers ELSE [answers EXCEPT ![s] = @ + 1]
  PROVE  /\ ConnectionInv' /\ SubstreamInv' /\ ProtocolInv'
         /\ rx' \in Seq(Event)
         /\ pending_outbound' \in [SubstreamId -> ConnectionId \cup {None}]
         /\ answers' \in [SubstreamId -> {0, 1}]
<1>0. TypeOK /\ ConnectionInv /\ SubstreamInv /\ ProtocolInv
  BY IInvParts, Zenon
<1>1. /\ rx' \in Seq(Event) /\ [kind |-> k, id |-> s] \in Event
      /\ \A l, y : InEvents(l, y) <=> InEvents(l, y)' \/ (l = k /\ y = s)
      /\ \A l, y, m, z : Before(l, y, m, z)
           <=> Before(l, y, m, z)' \/ (l = k /\ y = s /\ InEvents(m, z)')
      /\ \A l, y, m, z : Before(l, y, m, z)' => InEvents(l, y)' /\ InEvents(m, z)'
  <2>1. Received(k, s)
    BY <1>0, ReceiveEffect, Zenon
  <2> QED BY <2>1, Zenon DEF Received
<1>2. /\ s \in SubstreamId /\ on[s] \in ConnectionId /\ task[on[s]] # "none"
      /\ Told(s) /\ ~InEvents("opened", s)' /\ ~InEvents("failure", s)'
      /\ ~Waiting(s)
      /\ k = "failure" => s \notin inbound
      /\ s \notin inbound => requested[s] # None /\ answers[s] = 0
  BY ToldFacts, Zenon
<1>3. /\ pending_outbound' \in [SubstreamId -> ConnectionId \cup {None}]
      /\ pending_outbound'[s] = None
      /\ \A t \in SubstreamId : t # s => pending_outbound'[t] = pending_outbound[t]
  BY <1>0, <1>2, Zenon DEF TypeOK
<1>4. /\ answers' \in [SubstreamId -> {0, 1}]
      /\ s \notin inbound => answers'[s] = 1
      /\ \A t \in SubstreamId : t # s => answers'[t] = answers[t]
  BY <1>0, <1>2 DEF TypeOK
<1>5. /\ \A d : (Known(d)' <=> Known(d)) /\ (Tracked(d)' <=> Tracked(d))
      /\ \A d, e : Ahead(d, e)' <=> Ahead(d, e)
  <2>1. \A d : Known(d)' <=> Known(d)
    BY Zenon DEF Known
  <2>2. \A d : Tracked(d)' <=> Tracked(d)
    <3>1. \A d : InEvents("established", d)' <=> InEvents("established", d)
      BY <1>1
    <3> QED BY <2>1, <3>1, Zenon DEF Tracked
  <2>3. \A d, e : Ahead(d, e)' <=> Ahead(d, e)
    BY <1>1, <2>1 DEF Ahead
  <2> QED BY <2>1, <2>2, <2>3, Zenon
<1>6. ConnectionInv'
  <2>1. ContextsAgree' /\ Lifecycle'
    BY <1>0, <1>1, <1>5, Zenon DEF ConnectionInv, ContextsAgree, Lifecycle
  <2>2. EventsOrdered'
    BY <1>0, <1>1 DEF ConnectionInv, EventsOrdered
  <2>3. OneAhead'
    BY <1>0, <1>1, <1>5, Zenon DEF ConnectionInv, OneAhead
  <2> QED BY <2>1, <2>2, <2>3, Zenon DEF ConnectionInv
<1>7. SubstreamInv'
  <2>1. SubstreamsAllocated'
    BY <1>0, Zenon DEF SubstreamInv, SubstreamsAllocated
  <2>2. ASSUME NEW t \in SubstreamId PROVE OnePlace(t)' /\ PendingRequest(t)'
    <3>1. OnePlace(t) /\ PendingRequest(t)
      BY <1>0, Zenon DEF SubstreamInv, InOnePlace, PendingAgree
    <3>2. (InEvents("failure", t)' => InEvents("failure", t)) /\ (Told(t)' => Told(t))
      BY <1>1, Zenon DEF Told
    <3>3. OnePlace(t)'
      BY <3>1, <3>2, OnePlaceKept, Zenon
    <3>4. Waiting(t)' <=> Waiting(t)
      BY Zenon DEF Waiting, InChannel
    <3>5. PendingRequest(t)'
      <4>1. CASE t = s
        BY <1>2, <1>3, <3>4, <4>1, Zenon DEF PendingRequest, Told
      <4>2. CASE t # s
        <5>1. Told(t)' <=> Told(t)
          BY <1>1, <4>2, Zenon DEF Told
        <5>2. RequestKept(t)
          BY <1>5, <3>4, <5>1, Zenon DEF RequestKept
        <5> QED BY <1>3, <3>1, <4>2, <5>2, PendingKept, Zenon
      <4> QED BY <4>1, <4>2, Zenon
    <3> QED BY <3>3, <3>5, Zenon
  <2> QED BY <2>1, <2>2, Zenon DEF SubstreamInv, InOnePlace, PendingAgree
<1>8. ProtocolInv'
  <2>1. ASSUME NEW t \in SubstreamId PROVE RequestAnswer(t)'
    <3>1. RequestAnswer(t)
      BY <1>0, Zenon DEF ProtocolInv, RequestsAgree
    <3>2. pending_events.failures = {}
      BY Zenon DEF Receive, QueueEmpty
    <3>3. t \in inbound => requested[t] = None
      BY <3>1, Zenon DEF RequestAnswer
    <3> QED BY <1>2, <1>3, <1>4, <3>1, <3>2, <3>3 DEF RequestAnswer
  <2>2. SessionsAgree'
    BY <1>0, Zenon DEF ProtocolInv, SessionsAgree
  <2> QED BY <2>1, <2>2, Zenon DEF ProtocolInv, RequestsAgree
<1> QED BY <1>1, <1>3, <1>4, <1>6, <1>7, <1>8, Zenon

(* Activity of a connection, whose handle may be active from then on. *)
LEMMA ActivityStep ==
  ASSUME TypeOK, TimersAgree, NEW c \in ConnectionId,
         UNCHANGED <<remote, primary, secondary>>,
         \/ substream_activity(c) /\ active' \in {active, active \cup {c}}
         \/ UNCHANGED <<active, tracker>>,
         c \in active' => c \in active \/ Known(c)
  PROVE  /\ TimersAgree'
         /\ active' \subseteq ConnectionId /\ last_activity' \subseteq ConnectionId
         /\ pending_keep_alive_timeouts' \subseteq ConnectionId
<1>1. \A d : Known(d)' <=> Known(d)
  BY Zenon DEF Known
<1>2. CASE substream_activity(c) /\ active' \in {active, active \cup {c}}
  BY <1>1, <1>2 DEF TypeOK, TimersAgree, substream_activity
<1>3. CASE UNCHANGED <<active, tracker>>
  BY <1>1, <1>3, Zenon DEF TypeOK, TimersAgree, tracker
<1> QED BY <1>2, <1>3, Zenon

(* SubstreamOpened keeps the invariant. *)
LEMMA ReceiveOpenedStep ==
  ASSUME IInv, ReceiveOpened
  PROVE  IInv'
<1>s. PICK s : s = Head(rx).id
  BY Zenon
<1>c. PICK c : c = on[s]
  BY Zenon
<1>0. TypeOK /\ TimersAgree /\ Receive("opened")
  BY Zenon DEF ReceiveOpened, IInv
<1>1. /\ pending_outbound' = [pending_outbound EXCEPT ![s] = None]
      /\ IF KeepAlive
           THEN /\ substream_activity(c)
                /\ active' = IF c \in {primary[remote[c]], secondary[remote[c]]}
                               THEN active \cup {c} ELSE active
           ELSE UNCHANGED <<active, tracker>>
      /\ open' = open \cup {s}
      /\ answers' = IF s \in inbound THEN answers ELSE [answers EXCEPT ![s] = @ + 1]
      /\ UNCHANGED <<tasks, commands, opening, substreams, primary, secondary,
                     pending_events, sessions, requested>>
  BY <1>s, <1>c, Zenon DEF ReceiveOpened
<1>2. UNCHANGED <<task, remote, commands, opening, on, inbound, next_substream_id,
                  primary, secondary, pending_events, sessions, requested>>
  BY <1>1, Zenon DEF tasks, substreams
<1>3. /\ ConnectionInv' /\ SubstreamInv' /\ ProtocolInv'
      /\ rx' \in Seq(Event)
      /\ pending_outbound' \in [SubstreamId -> ConnectionId \cup {None}]
      /\ answers' \in [SubstreamId -> {0, 1}]
  BY <1>0, <1>s, <1>1, <1>2, ToldStep, Zenon
<1>4. s \in SubstreamId /\ c \in ConnectionId /\ remote[c] # None
  <2>1. s \in SubstreamId /\ on[s] \in ConnectionId /\ task[on[s]] # "none"
    BY <1>0, <1>s, ToldFacts, Zenon
  <2> QED BY <1>c, <2>1, Zenon DEF IInv, ContextsAgree
<1>5. /\ TimersAgree'
      /\ active' \subseteq ConnectionId /\ last_activity' \subseteq ConnectionId
      /\ pending_keep_alive_timeouts' \subseteq ConnectionId
  <2>1. \/ substream_activity(c) /\ active' \in {active, active \cup {c}}
        \/ UNCHANGED <<active, tracker>>
    BY <1>1, Zenon
  <2>2. c \in active' => c \in active \/ Known(c)
    BY <1>1, <1>4, Zenon DEF Known
  <2> QED BY <1>0, <1>2, <1>4, <2>1, <2>2, ActivityStep, Zenon
<1>6. TypeOK'
  BY <1>0, <1>1, <1>3, <1>4, <1>5, Zenon DEF TypeOK, tasks, substreams
<1> QED BY <1>3, <1>5, <1>6, Zenon DEF IInv, ConnectionInv, SubstreamInv, ProtocolInv

(* SubstreamOpenFailure keeps the invariant. *)
LEMMA ReceiveOpenFailureStep ==
  ASSUME IInv, ReceiveOpenFailure
  PROVE  IInv'
<1>s. PICK s : s = Head(rx).id
  BY Zenon
<1>0. TypeOK /\ TimersAgree /\ Receive("failure")
  BY Zenon DEF ReceiveOpenFailure, IInv
<1>1. /\ pending_outbound' = [pending_outbound EXCEPT ![s] = None]
      /\ answers' = [answers EXCEPT ![s] = @ + 1]
      /\ UNCHANGED <<tasks, commands, opening, substreams, contexts, tracker,
                     pending_events, open, sessions, requested>>
  BY <1>s, Zenon DEF ReceiveOpenFailure
<1>2. s \notin inbound
  BY <1>0, <1>s, ToldFacts, Zenon
<1>3. /\ UNCHANGED <<task, remote, commands, opening, on, inbound, next_substream_id,
                     primary, secondary, pending_events, sessions, requested>>
      /\ answers' = IF s \in inbound THEN answers ELSE [answers EXCEPT ![s] = @ + 1]
  BY <1>1, <1>2, Zenon DEF tasks, substreams, contexts
<1>4. /\ ConnectionInv' /\ SubstreamInv' /\ ProtocolInv'
      /\ rx' \in Seq(Event)
      /\ pending_outbound' \in [SubstreamId -> ConnectionId \cup {None}]
      /\ answers' \in [SubstreamId -> {0, 1}]
  BY <1>0, <1>s, <1>1, <1>3, ToldStep, Zenon
<1>5. TimersAgree'
  BY <1>0, <1>1, TimersFrame, Zenon DEF tasks
<1>6. TypeOK'
  BY <1>0, <1>1, <1>4, Zenon DEF TypeOK, tasks, substreams, contexts, tracker
<1> QED BY <1>4, <1>5, <1>6, Zenon DEF IInv, ConnectionInv, SubstreamInv, ProtocolInv

(* The keep-alive timeout of a connection keeps the invariant. *)
LEMMA KeepAliveTimeoutStep ==
  ASSUME IInv, NEW c \in ConnectionId, KeepAliveTimeout(c)
  PROVE  IInv'
<1>0. TypeOK /\ ConnectionInv /\ SubstreamInv /\ ProtocolInv /\ TimersAgree
  BY IInvParts, Zenon
<1>1. /\ UNCHANGED <<tasks, commands, opening, substreams, rx, primary, secondary,
                     pending_outbound, pending_events, open, outcome>>
      /\ pending_keep_alive_timeouts' = pending_keep_alive_timeouts \ {c}
      /\ last_activity' = last_activity \ {c}
      /\ active' = IF c \in last_activity THEN downgrade(c) ELSE active
  BY Zenon DEF KeepAliveTimeout, untracked
<1>2. TypeOK'
  BY <1>0, <1>1, Zenon DEF TypeOK, tasks, substreams, outcome, downgrade
<1>3. ConnectionInv' /\ SubstreamInv'
  BY <1>0, <1>1, ConnectionFrame, SubstreamFrame, Zenon DEF tasks, substreams
<1>4. ProtocolInv'
  BY <1>0, <1>1, ProtocolFrame, Zenon DEF tasks, substreams
<1>5. TimersAgree'
  <2>1. \A d : Known(d)' <=> Known(d)
    BY <1>1, Zenon DEF Known, tasks
  <2>2. active' \subseteq active \ {c}
    BY <1>0, <1>1, Zenon DEF TimersAgree, Known, downgrade
  <2> QED BY <1>0, <1>1, <2>1, <2>2, Zenon DEF TimersAgree, TypeOK
<1> QED BY <1>2, <1>3, <1>4, <1>5, Zenon DEF IInv, ConnectionInv, SubstreamInv, ProtocolInv

-----------------------------------------------------------------------------
(* The protocol *)

(* open_substream of the protocol keeps the invariant. *)
LEMMA OpenSubstreamStep ==
  ASSUME IInv, NEW p \in Peer, open_substream(p)
  PROVE  IInv'
<1>c. PICK c : c = primary[p]
  BY Zenon
<1>s. PICK s : s = next_substream_id
  BY Zenon
<1>0. TypeOK /\ ConnectionInv /\ SubstreamInv /\ ProtocolInv /\ TimersAgree
  BY IInvParts, Zenon
<1>1. /\ c # None /\ s < MaxSubstreams /\ next_substream_id' = s + 1
      /\ IF KeepAlive
           THEN substream_activity(c) /\ active' = active \cup {c}
           ELSE UNCHANGED <<active, tracker>>
      /\ IF CanSend(c)
           THEN /\ commands' = [commands EXCEPT ![c] = Append(@, s)]
                /\ on' = [on EXCEPT ![s] = c]
                /\ pending_outbound' = [pending_outbound EXCEPT ![s] = c]
                /\ requested' = [requested EXCEPT ![s] = p]
           ELSE UNCHANGED <<commands, on, pending_outbound, requested>>
      /\ UNCHANGED <<tasks, opening, inbound, rx, primary, secondary, pending_events,
                     open, sessions, answers>>
  BY <1>c, <1>s, Zenon DEF open_substream
<1>2. /\ s \in SubstreamId /\ on[s] = None /\ s \notin inbound
      /\ pending_outbound[s] = None /\ ~Told(s)
      /\ \A d \in ConnectionId : ~Occurs(s, commands[d]) /\ s \notin opening[d]
  BY <1>0, <1>s, <1>1, FreshNowhere, Zenon
<1>3. c \in ConnectionId /\ remote[c] = p /\ Known(c) /\ task[c] # "none"
  <2>1. c \in ConnectionId /\ remote[c] = p
    BY <1>0, <1>c, <1>1 DEF TypeOK, ConnectionInv, ContextsAgree
  <2>2. Known(c)
    BY <1>c, <2>1, NoneApart, Zenon DEF Known
  <2> QED BY <1>0, <2>1, <2>2, NoneApart, Zenon DEF ConnectionInv, ContextsAgree
<1>4. UNCHANGED <<task, remote, opening, inbound, rx, primary, secondary, pending_events,
                  sessions, answers>>
  BY <1>1, Zenon DEF tasks
<1>5. /\ TimersAgree'
      /\ active' \subseteq ConnectionId /\ last_activity' \subseteq ConnectionId
      /\ pending_keep_alive_timeouts' \subseteq ConnectionId
  <2>1. \/ substream_activity(c) /\ active' \in {active, active \cup {c}}
        \/ UNCHANGED <<active, tracker>>
    BY <1>1, Zenon
  <2> QED BY <1>0, <1>3, <1>4, <2>1, ActivityStep, Zenon
<1>6. s \in Nat /\ SubstreamId \subseteq Nat /\ next_substream_id' \in 0 .. MaxSubstreams
  BY <1>0, <1>s, <1>1, ServiceBounds DEF TypeOK, SubstreamId
<1>7. ASSUME NEW t \in SubstreamId, t >= next_substream_id'
      PROVE  t # s /\ t >= next_substream_id
  BY <1>s, <1>1, <1>6, <1>7
<1>8. /\ \A d : Known(d)' <=> Known(d)
      /\ \A k, x : InEvents(k, x)' <=> InEvents(k, x)
      /\ \A t : Told(t)' <=> Told(t)
  BY <1>4, Zenon DEF Known, InEvents, Told
<1>9. CASE ~CanSend(c)
  <2>1. UNCHANGED <<commands, on, pending_outbound, requested>>
    BY <1>1, <1>9, Zenon
  <2>2. TypeOK'
    BY <1>0, <1>1, <1>5, <1>6, <2>1, Zenon DEF TypeOK, tasks
  <2>3. ConnectionInv'
    BY <1>0, <1>4, <2>1, ConnectionFrame, Zenon
  <2>4. SubstreamsAllocated'
    BY <1>0, <1>4, <1>7, <2>1, Zenon DEF SubstreamInv, SubstreamsAllocated
  <2>5. InOnePlace' /\ PendingAgree'
    BY <1>0, <1>4, <1>8, <2>1, Zenon
       DEF SubstreamInv, InOnePlace, OnePlace, PendingAgree, PendingRequest, Waiting, InChannel
  <2>6. ProtocolInv'
    BY <1>0, <1>4, <2>1, ProtocolFrame, Zenon DEF outcome
  <2> QED BY <1>5, <2>2, <2>3, <2>4, <2>5, <2>6, Zenon DEF IInv, ConnectionInv, SubstreamInv, ProtocolInv
<1>10. CASE CanSend(c)
  <2> DEFINE S == SubstreamId \cup {ForceClose}
  <2>1. /\ commands' = [commands EXCEPT ![c] = Append(@, s)]
        /\ on' = [on EXCEPT ![s] = c]
        /\ pending_outbound' = [pending_outbound EXCEPT ![s] = c]
        /\ requested' = [requested EXCEPT ![s] = p]
    BY <1>1, <1>10, Zenon
  <2>2. commands[c] \in Seq(S) /\ s \in S
    BY <1>0, <1>2, <1>3, Zenon DEF TypeOK
  <2>3. /\ Append(commands[c], s) \in Seq(S)
        /\ \A x : Occurs(x, Append(commands[c], s)) <=> Occurs(x, commands[c]) \/ x = s
        /\ \A x, y : Precedes(x, y, Append(commands[c], s))
                       <=> Precedes(x, y, commands[c]) \/ (Occurs(x, commands[c]) /\ y = s)
    BY <2>2, AppendOccurs, Zenon
  <2>4. /\ commands' \in [ConnectionId -> Seq(S)]
        /\ commands'[c] = Append(commands[c], s)
        /\ \A d \in ConnectionId : d # c => commands'[d] = commands[d]
    BY <1>0, <1>3, <2>1, <2>3, Zenon DEF TypeOK
  <2>5. /\ \A t \in SubstreamId :
             /\ Occurs(t, commands'[c]) <=> Occurs(t, commands[c]) \/ t = s
             /\ Precedes(t, t, commands'[c])
                  <=> Precedes(t, t, commands[c]) \/ (t = s /\ Occurs(t, commands[c]))
        /\ \A d \in ConnectionId : d # c => commands'[d] = commands[d]
    BY <2>3, <2>4
  <2>6. /\ on'[s] = c /\ \A t \in SubstreamId : t # s => on'[t] = on[t]
        /\ pending_outbound'[s] = c
        /\ \A t \in SubstreamId : t # s => pending_outbound'[t] = pending_outbound[t]
        /\ requested'[s] = p /\ \A t \in SubstreamId : t # s => requested'[t] = requested[t]
        /\ on' \in [SubstreamId -> ConnectionId \cup {None}]
        /\ pending_outbound' \in [SubstreamId -> ConnectionId \cup {None}]
        /\ requested' \in [SubstreamId -> Peer \cup {None}]
    BY <1>0, <1>2, <1>3, <2>1, Zenon DEF TypeOK
  <2>7. TypeOK'
    BY <1>0, <1>1, <1>5, <1>6, <2>4, <2>6, Zenon DEF TypeOK, tasks
  <2>8. ConnectionInv'
    BY <1>0, <1>2, <1>4, <2>6, AllocateOrder, Zenon
  <2>9. SubstreamsAllocated'
    BY <1>0, <1>3, <1>4, <1>7, <2>6, Zenon DEF SubstreamInv, SubstreamsAllocated
  <2>10. ~Precedes(s, s, commands[c])
    BY <1>2, <1>3, PrecedesOccurs, Zenon
  <2>11. ASSUME NEW t \in SubstreamId PROVE OnePlace(t)' /\ PendingRequest(t)'
    <3>1. CASE t = s
      <4>1. OnePlace(t)'
        BY <1>2, <1>3, <1>4, <1>8, <2>5, <2>6, <2>10, <3>1, NoneApart, Zenon DEF OnePlace, Told
      <4>2. Waiting(t)'
        BY <2>5, <2>6, <3>1, Zenon DEF Waiting, InChannel
      <4>3. PendingRequest(t)'
        BY <1>2, <1>3, <1>4, <1>8, <2>6, <3>1, <4>2, Zenon DEF PendingRequest
      <4> QED BY <4>1, <4>3, Zenon
    <3>2. CASE t # s
      <4>1. OnePlace(t) /\ PendingRequest(t)
        BY <1>0, Zenon DEF SubstreamInv, InOnePlace, PendingAgree
      <4>2. \A d \in ConnectionId :
              /\ Occurs(t, commands'[d]) <=> Occurs(t, commands[d])
              /\ Precedes(t, t, commands'[d]) <=> Precedes(t, t, commands[d])
        BY <2>5, <3>2, Zenon
      <4>3. OnePlace(t)'
        BY <1>4, <1>8, <2>6, <3>2, <4>1, <4>2, OnePlaceKept, Zenon
      <4>4. on[t] # None => (Waiting(t)' <=> Waiting(t))
        BY <1>0, <1>4, <2>6, <3>2, <4>2 DEF Waiting, InChannel, TypeOK
      <4>5. RequestKept(t)
        BY <1>4, <1>8, <2>6, <3>2, <4>4, Zenon DEF RequestKept
      <4>6. PendingRequest(t)'
        BY <1>4, <2>6, <3>2, <4>1, <4>5, PendingKept, Zenon
      <4> QED BY <4>3, <4>6, Zenon
    <3> QED BY <3>1, <3>2, Zenon
  <2>12. ProtocolInv'
    <3>1. ASSUME NEW t \in SubstreamId PROVE RequestAnswer(t)'
      <4>1. RequestAnswer(t)
        BY <1>0, Zenon DEF ProtocolInv, RequestsAgree
      <4>2. CASE t # s
        BY <1>4, <2>6, <4>1, <4>2, Zenon DEF RequestAnswer
      <4>3. CASE t = s
        <5>1. answers[s] = 0 /\ s \notin pending_events.failures
          BY <1>2, <4>1, <4>3, Zenon DEF RequestAnswer
        <5> QED BY <1>2, <1>3, <1>4, <2>6, <4>3, <5>1, NoneApart, Zenon DEF RequestAnswer
      <4> QED BY <4>2, <4>3, Zenon
    <3>2. SessionsAgree'
      BY <1>0, <1>4, Zenon DEF ProtocolInv, SessionsAgree
    <3> QED BY <3>1, <3>2, Zenon DEF ProtocolInv, RequestsAgree
  <2> QED BY <1>5, <2>7, <2>8, <2>9, <2>11, <2>12, Zenon
          DEF IInv, ConnectionInv, SubstreamInv, ProtocolInv, InOnePlace, PendingAgree
<1> QED BY <1>9, <1>10, Zenon

(* force_close of the protocol keeps the invariant. *)
LEMMA ForceCloseStep ==
  ASSUME IInv, NEW p \in Peer, force_close(p)
  PROVE  IInv'
<1>0. TypeOK /\ ConnectionInv /\ SubstreamInv /\ ProtocolInv /\ TimersAgree
  BY IInvParts, Zenon
<1> DEFINE S == SubstreamId \cup {ForceClose}
<1>1. UNCHANGED <<tasks, opening, substreams, rx, contexts, tracker, pending_outbound,
                  pending_events, open, outcome>>
  BY Zenon DEF force_close
<1>2. /\ DOMAIN commands' = ConnectionId
      /\ \A c \in ConnectionId : commands'[c] \in {commands[c], Append(commands[c], ForceClose)}
      /\ commands' = [c \in ConnectionId |-> commands'[c]]
  BY Zenon DEF force_close
<1>3. ASSUME NEW c \in ConnectionId
      PROVE  /\ commands'[c] \in Seq(S)
             /\ \A s \in SubstreamId :
                  /\ Occurs(s, commands'[c]) <=> Occurs(s, commands[c])
                  /\ Precedes(s, s, commands'[c]) <=> Precedes(s, s, commands[c])
  <2>1. commands[c] \in Seq(S) /\ ForceClose \in S
    BY <1>0, Zenon DEF TypeOK
  <2>2. \A s \in SubstreamId : s # ForceClose
    BY NoneApart, Zenon DEF ForceClose
  <2>3. CASE commands'[c] = commands[c]
    BY <2>1, <2>3, Zenon
  <2>4. CASE commands'[c] = Append(commands[c], ForceClose)
    <3>1. /\ Append(commands[c], ForceClose) \in Seq(S)
          /\ \A x : Occurs(x, Append(commands[c], ForceClose))
                      <=> Occurs(x, commands[c]) \/ x = ForceClose
          /\ \A x, y : Precedes(x, y, Append(commands[c], ForceClose))
               <=> Precedes(x, y, commands[c]) \/ (Occurs(x, commands[c]) /\ y = ForceClose)
      BY <2>1, AppendOccurs, Zenon
    <3> QED BY <2>2, <2>4, <3>1, Zenon
  <2> QED BY <1>2, <2>3, <2>4, Zenon
<1> HIDE DEF S
<1>4. commands' \in [ConnectionId -> Seq(S)]
  BY <1>2, <1>3, Zenon
<1>5. TypeOK'
  BY <1>0, <1>1, <1>4, Zenon DEF TypeOK, tasks, substreams, contexts, tracker, outcome, S
<1>6. UNCHANGED <<task, remote, rx, primary, secondary, on, inbound, next_substream_id, opening,
                  pending_outbound>>
  BY <1>1, Zenon DEF tasks, substreams, contexts
<1>7. /\ \A d : Known(d)' <=> Known(d)
      /\ \A k, x : InEvents(k, x)' <=> InEvents(k, x)
      /\ \A s : Told(s)' <=> Told(s)
  BY <1>6, Zenon DEF Known, InEvents, Told
<1>8. SubstreamsAllocated'
  BY <1>0, <1>6, Zenon DEF SubstreamInv, SubstreamsAllocated
<1>9. ASSUME NEW s \in SubstreamId PROVE OnePlace(s)' /\ PendingRequest(s)'
  <2>1. OnePlace(s) /\ PendingRequest(s)
    BY <1>0, Zenon DEF SubstreamInv, InOnePlace, PendingAgree
  <2>2. OnePlace(s)'
    BY <1>3, <1>6, <1>7, <2>1, OnePlaceKept, Zenon
  <2>3. on[s] # None => on[s] \in ConnectionId
    BY <1>0, Zenon DEF TypeOK
  <2>4. on[s] # None => (Waiting(s)' <=> Waiting(s))
    BY <1>3, <1>6, <2>3, Zenon DEF Waiting, InChannel
  <2>5. RequestKept(s)
    BY <1>6, <1>7, <2>4, Zenon DEF RequestKept
  <2>6. PendingRequest(s)'
    BY <1>6, <2>1, <2>5, PendingKept, Zenon
  <2> QED BY <2>2, <2>6, Zenon
<1>10. ConnectionInv' /\ ProtocolInv' /\ TimersAgree'
  BY <1>0, <1>1, ConnectionFrame, ProtocolFrame, TimersFrame, Zenon
     DEF tasks, substreams, contexts
<1> QED BY <1>5, <1>8, <1>9, <1>10, Zenon
        DEF IInv, ConnectionInv, SubstreamInv, ProtocolInv, InOnePlace, PendingAgree

(* Steps that change nothing the invariant speaks of. *)
LEMMA DropStep ==
  ASSUME IInv, NEW D \in SUBSET SubstreamId, open' = D,
         UNCHANGED <<tasks, commands, opening, substreams, rx, contexts, tracker,
                     pending_outbound, pending_events, outcome>>
  PROVE  IInv'
<1>0. TypeOK /\ ConnectionInv /\ SubstreamInv /\ ProtocolInv /\ TimersAgree
  BY IInvParts, Zenon
<1>1. TypeOK'
  BY <1>0, Zenon DEF TypeOK, tasks, substreams, contexts, tracker, outcome
<1>2. ConnectionInv' /\ SubstreamInv'
  BY <1>0, ConnectionFrame, SubstreamFrame, Zenon DEF tasks, substreams, contexts
<1>3. ProtocolInv' /\ TimersAgree'
  BY <1>0, ProtocolFrame, TimersFrame, Zenon DEF tasks, substreams, contexts
<1> QED BY <1>1, <1>2, <1>3, Zenon DEF IInv, ConnectionInv, SubstreamInv, ProtocolInv

-----------------------------------------------------------------------------
(* The theorems *)

(* Every step keeps the invariant. *)
LEMMA NextIInv == IInv /\ [Next]_vars => IInv'
<1> SUFFICES ASSUME IInv, [Next]_vars PROVE IInv'
  BY Zenon
<1>1. ASSUME NEW c \in ConnectionId, ConnectionStep(c) PROVE IInv'
  BY <1>1, AcceptStep, ConnectionLostStep, HandleCommandStep, InboundSubstreamStep,
     NegotiatedSubstreamStep, ReportToProtocolsStep, ReportToManagerStep, OthersStep, Zenon
     DEF ConnectionStep
<1>2. ASSUME NEW c \in ConnectionId, KeepAliveTimeout(c) PROVE IInv'
  BY <1>2, KeepAliveTimeoutStep, Zenon
<1>3. ASSUME ServicePoll PROVE IInv'
  BY <1>3, DeliverPendingStep, ReceiveEstablishedStep, ReceiveClosedStep, ReceiveOpenedStep,
     ReceiveOpenFailureStep, Zenon DEF ServicePoll
<1>4. ASSUME NEW s \in SubstreamId, DropSubstream(s) PROVE IInv'
  <2>1. open \ {s} \in SUBSET SubstreamId
    BY Zenon DEF IInv, TypeOK
  <2> QED BY <1>4, <2>1, DropStep, Zenon DEF DropSubstream
<1>5. ASSUME ProtocolStep PROVE IInv'
  BY <1>4, <1>5, OpenSubstreamStep, ForceCloseStep, Zenon DEF ProtocolStep
<1>6. ASSUME UNCHANGED vars PROVE IInv'
  <2>1. open \in SUBSET SubstreamId
    BY Zenon DEF IInv, TypeOK
  <2> QED BY <1>6, <2>1, DropStep, Zenon DEF vars
<1> QED BY <1>1, <1>2, <1>3, <1>5, <1>6, Zenon DEF Next

(* The inductive invariant: the events in the channel, the handles of the  *)
(* service, the substreams and the account of the protocol agree, however  *)
(* many connections, substreams and peers there are.                       *)
THEOREM Invariance == Spec => []IInv
<1>1. IInv /\ [Next]_vars => IInv'
  BY NextIInv, Zenon
<1> QED BY InitIInv, <1>1, PTL DEF Spec

(* The safety properties follow from the invariant. *)
LEMMA InvFollows == IInv => Inv
<1> SUFFICES ASSUME IInv PROVE Inv
  BY Zenon
<1>0. TypeOK /\ ConnectionInv /\ SubstreamInv /\ TimersAgree
  BY IInvParts, Zenon
<1>1. NoThirdConnection
  BY EstablishedHead, Zenon DEF NoThirdConnection
<1>2. ClosedIsKnown
  BY ClosedHead, Zenon DEF ClosedIsKnown, Known
<1>3. ActiveIsTimed
  BY <1>0, Zenon DEF TimersAgree, ActiveIsTimed, Known
<1>4. RequestLocated
  <2> SUFFICES ASSUME NEW s \in SubstreamId, pending_outbound[s] # None
               PROVE  LET c == pending_outbound[s] IN
                      \/ InChannel(s) \/ s \in opening[c]
                      \/ InEvents("opened", s) \/ InEvents("failure", s)
                      \/ task[c] \in {"closing", "reported"} \/ InEvents("closed", c)
    BY Zenon DEF RequestLocated
  <2>1. /\ pending_outbound[s] = on[s] /\ Known(on[s]) /\ on[s] \in ConnectionId
        /\ task[on[s]] = "running" => Waiting(s) \/ Told(s)
    BY <1>0, Zenon DEF SubstreamInv, PendingAgree, PendingRequest, TypeOK
  <2>2. task[on[s]] = "closed" => InEvents("closed", on[s])
    BY <1>0, <2>1, Zenon DEF ConnectionInv, Lifecycle, Tracked
  <2>3. task[on[s]] \in {"running", "closing", "reported", "closed"}
    BY <1>0, <2>1, Zenon DEF ConnectionInv, Lifecycle, Tracked, TypeOK
  <2> QED BY <2>1, <2>2, <2>3, Zenon DEF Waiting, Told
<1> QED BY <1>0, <1>1, <1>2, <1>3, <1>4, Zenon DEF Inv

(* The invariant of TransportService: the debug_assert of                  *)
(* on_connection_closed holds, no third connection is received, an active  *)
(* handle has a keep-alive timeout running, and no request is forgotten.   *)
THEOREM ServiceInvariant == Spec => []Inv
BY Invariance, InvFollows, PTL

(* When the protocol believes a peer disconnected, none of its requests is *)
(* without an answer, other than failures that are queued.                 *)
DisconnectedAnswered ==
  \A p \in Peer, s \in SubstreamId :
    primary[p] = None /\ requested[s] = p => answers[s] = 1 \/ s \in pending_events.failures

(* When a peer is disconnected its substreams have been answered. *)
LEMMA DisconnectedFollows == IInv => DisconnectedAnswered
<1> SUFFICES ASSUME IInv, NEW p \in Peer, primary[p] = None, NEW s \in SubstreamId, requested[s] = p
             PROVE  answers[s] = 1 \/ s \in pending_events.failures
  BY Zenon DEF DisconnectedAnswered
<1>1. RequestAnswer(s) /\ PendingRequest(s) /\ answers[s] \in {0, 1}
  BY Zenon DEF IInv, RequestsAgree, PendingAgree, TypeOK
<1>2. ASSUME pending_outbound[s] # None PROVE FALSE
  <2>1. Known(on[s]) /\ on[s] = pending_outbound[s] /\ remote[on[s]] = p
    BY <1>1, <1>2, NoneApart, Zenon DEF RequestAnswer, PendingRequest
  <2>2. secondary[p] = None
    BY Zenon DEF IInv, ContextsAgree
  <2> QED BY <1>2, <2>1, <2>2, Zenon DEF Known
<1> QED BY <1>1, <1>2, NoneApart, Zenon DEF RequestAnswer

(* ... also after a step. *)
LEMMA DisconnectedAfter == IInv' => DisconnectedAnswered'
BY DisconnectedFollows, PTL

(* The first of the queued events is an answer, or the end of a session.   *)
LEMMA PopRefines ==
  ASSUME IInv, IInv', NEW queue \in [failures : SUBSET SubstreamId, closed : Peer \cup {None}],
         PopEvent(queue), \A s \in queue.failures : Service!Unanswered(s)
  PROVE  Service!Next
<1>0. TypeOK /\ TypeOK'
  BY Zenon DEF IInv
<1>1. CASE \E s \in queue.failures :
              /\ pending_events' = [failures |-> queue.failures \ {s}, closed |-> queue.closed]
              /\ answers' = [answers EXCEPT ![s] = @ + 1]
              /\ UNCHANGED <<sessions, requested>>
  <2>1. PICK s \in queue.failures : /\ answers' = [answers EXCEPT ![s] = @ + 1]
                                    /\ UNCHANGED <<sessions, requested>>
    BY <1>1, Zenon
  <2>2. s \in SubstreamId /\ Service!Unanswered(s)
    BY Zenon
  <2>3. answers' = [answers EXCEPT ![s] = 1]
    BY <1>0, <2>1, <2>2 DEF TypeOK, Service!Unanswered
  <2> QED BY <2>1, <2>2, <2>3, Zenon DEF Service!Next, Service!Answer
<1>2. CASE /\ queue.failures = {} /\ queue.closed \in Peer
           /\ pending_events' = [failures |-> {}, closed |-> None]
           /\ sessions' = [sessions EXCEPT ![queue.closed] = @ - 1]
           /\ UNCHANGED <<requested, answers>>
  <2> DEFINE p == queue.closed
  <2>1. sessions[p] = 1 /\ sessions'[p] = 0
    <3>1. sessions[p] \in {0, 1} /\ sessions'[p] \in {0, 1} /\ sessions'[p] = sessions[p] - 1
      BY <1>0, <1>2, Zenon DEF TypeOK
    <3> QED BY <3>1, OneLess, Zenon
  <2>2. primary'[p] = None
    <3>1. sessions'[p] = IF primary'[p] # None \/ pending_events'.closed = p THEN 1 ELSE 0
      BY <1>2, Zenon DEF IInv, SessionsAgree
    <3> QED BY <2>1, <3>1, OneLess, Zenon
  <2>3. ASSUME NEW s \in SubstreamId, requested[s] = p PROVE ~Service!Unanswered(s)
    <3>1. answers'[s] = 1 \/ s \in pending_events'.failures
      <4>1. requested'[s] = p
        BY <1>2, <2>3, Zenon
      <4> QED BY <1>2, <2>2, <4>1, DisconnectedAfter, Zenon DEF DisconnectedAnswered
    <3> QED BY <1>2, <3>1 DEF Service!Unanswered
  <2>4. sessions' = [sessions EXCEPT ![p] = 0]
    BY <1>0, <1>2, <2>1, Zenon DEF TypeOK
  <2> QED BY <1>2, <2>1, <2>3, <2>4, Zenon DEF Service!Next, Service!ConnectionClosed
<1> QED BY <1>0, <1>1, <1>2, PopEventEffect, Zenon

(* Every step of the service is a step of SubstreamService, or none of its *)
(* protocol's business.                                                    *)
LEMMA StepRefines ==
  ASSUME IInv, IInv', Next, ~UNCHANGED <<sessions, requested, answers>>
  PROVE  Service!Next
<1>0. /\ TypeOK /\ ConnectionInv /\ SubstreamInv /\ ProtocolInv /\ TypeOK'
  BY Zenon DEF IInv, ConnectionInv, SubstreamInv, ProtocolInv
<1>1. CASE DeliverPending
  <2>1. PopEvent(pending_events) /\ pending_events \in [failures : SUBSET SubstreamId, closed : Peer \cup {None}]
    BY <1>0, <1>1, Zenon DEF DeliverPending, TypeOK
  <2>2. \A s \in pending_events.failures : Service!Unanswered(s)
    BY <1>0, <2>1, Zenon DEF ProtocolInv, RequestsAgree, RequestAnswer, Service!Unanswered
  <2> QED BY <2>1, <2>2, PopRefines, Zenon
<1>2. CASE ReceiveEstablished
  <2>1. PICK c : c = Head(rx).id
    BY Zenon
  <2>2. PICK p : p = remote[c]
    BY Zenon
  <2>3. /\ Receive("established") /\ UNCHANGED <<requested, answers>>
        /\ sessions' = IF primary[p] = None THEN [sessions EXCEPT ![p] = @ + 1] ELSE sessions
    BY <1>2, <2>1, <2>2, Zenon DEF ReceiveEstablished, Reported
  <2>4. p \in Peer
    BY <2>1, <2>2, <2>3, EstablishedHead, Zenon DEF Receive
  <2>5. primary[p] = None
    BY <2>3, Zenon
  <2>6. sessions[p] = 0
    BY <1>0, <2>3, <2>4, <2>5, NoneApart, Zenon DEF Receive, QueueEmpty, ProtocolInv, SessionsAgree
  <2>7. sessions' = [sessions EXCEPT ![p] = 1]
    BY <2>3, <2>5, <2>6
  <2> QED BY <2>3, <2>4, <2>6, <2>7, Zenon DEF Service!Next, Service!ConnectionEstablished
<1>3. CASE ReceiveClosed
  <2>1. PICK c : c = Head(rx).id
    BY Zenon
  <2>2. PICK p : p = remote[c]
    BY Zenon
  <2>3. PICK queue : queue = [failures |-> FailedRequests(c),
                              closed |-> IF primary[p] = c /\ Promoted(p, c) = None THEN p ELSE None]
    BY Zenon
  <2>4. /\ Receive("closed")
        /\ IF QueueEmpty(queue) THEN UNCHANGED <<pending_events, outcome>> ELSE PopEvent(queue)
    BY <1>3, <2>1, <2>2, <2>3, Zenon DEF ReceiveClosed
  <2>5. c \in ConnectionId /\ p \in Peer
    BY <2>1, <2>2, <2>4, ClosedHead, Zenon DEF Receive
  <2>6. queue \in [failures : SUBSET SubstreamId, closed : Peer \cup {None}]
    BY <2>3, <2>5, Zenon DEF FailedRequests
  <2>7. PopEvent(queue)
    BY <2>4, Zenon DEF outcome
  <2>8. \A s \in queue.failures : Service!Unanswered(s)
    <3>1. \A s \in queue.failures : s \in SubstreamId /\ pending_outbound[s] # None
      BY <2>3, <2>5, NoneApart, Zenon DEF FailedRequests
    <3> QED BY <1>0, <3>1, Zenon DEF ProtocolInv, RequestsAgree, RequestAnswer, Service!Unanswered
  <2> QED BY <2>6, <2>7, <2>8, PopRefines, Zenon
<1>4. ASSUME NEW k \in {"opened", "failure"}, Receive(k), NEW s, s = Head(rx).id, s \notin inbound,
             answers' = [answers EXCEPT ![s] = @ + 1], UNCHANGED <<sessions, requested>>
      PROVE  Service!Next
  <2>1. s \in SubstreamId /\ requested[s] # None /\ answers[s] = 0
    BY <1>4, ToldFacts, Zenon
  <2>2. answers' = [answers EXCEPT ![s] = 1]
    BY <1>0, <1>4, <2>1 DEF TypeOK
  <2> QED BY <1>4, <2>1, <2>2, Zenon DEF Service!Next, Service!Answer, Service!Unanswered
<1>5. CASE ReceiveOpened
  BY <1>4, <1>5, Zenon DEF ReceiveOpened
<1>6. CASE ReceiveOpenFailure
  <2>1. Receive("failure")
    BY <1>6, Zenon DEF ReceiveOpenFailure
  <2>2. \A s : s = Head(rx).id => s \notin inbound
    BY <2>1, ToldFacts, Zenon
  <2> QED BY <1>4, <1>6, <2>1, <2>2, Zenon DEF ReceiveOpenFailure
<1>7. ASSUME NEW p \in Peer, open_substream(p) PROVE Service!Next
  <2>1. PICK s : s = next_substream_id
    BY Zenon
  <2>2. /\ primary[p] # None /\ s < MaxSubstreams
        /\ requested' = [requested EXCEPT ![s] = p] /\ UNCHANGED <<sessions, answers>>
    BY <1>7, <2>1, Zenon DEF open_substream
  <2>3. s \in SubstreamId /\ on[s] = None
    BY <1>0, <2>1, <2>2, FreshNowhere, Zenon
  <2>4. requested[s] = None /\ sessions[p] = 1
    BY <1>0, <2>2, <2>3, Zenon DEF ProtocolInv, RequestsAgree, RequestAnswer, SessionsAgree
  <2> QED BY <2>2, <2>3, <2>4, Zenon DEF Service!Next, Service!OpenSubstream
<1>8. CASE \E c \in ConnectionId : ConnectionStep(c) \/ KeepAliveTimeout(c)
  BY <1>8, Zenon DEF ConnectionStep, KeepAliveTimeout, Accept, ConnectionLost, ProtocolsDisconnected,
              HandleCommand, LeavesLoop, InboundSubstream, NegotiatedSubstream,
              ReportToProtocols, ReportToManager, OthersRelease, OthersAcquire, outcome
<1>9. CASE (\E p \in Peer : force_close(p)) \/ \E s \in SubstreamId : DropSubstream(s)
  BY <1>9, Zenon DEF force_close, DropSubstream, outcome
<1> QED BY <1>1, <1>2, <1>3, <1>5, <1>6, <1>7, <1>8, <1>9, Zenon DEF Next, ServicePoll, ProtocolStep

(* The service keeps its promises: ConnectionEstablished and               *)
(* ConnectionClosed of a peer alternate, a substream is requested in       *)
(* between, no request is answered twice, and all have been answered when  *)
(* ConnectionClosed is reported.                                           *)
THEOREM PromisesKept == Spec => Promises
<1>1. Init => Service!Init
  BY Zenon DEF Init
<1>2. IInv /\ IInv' /\ [Next]_vars => [Service!Next]_(Service!serviceVars)
  <2> SUFFICES ASSUME IInv, IInv', [Next]_vars, ~UNCHANGED <<sessions, requested, answers>>
               PROVE  Service!Next
    BY Zenon DEF Service!serviceVars
  <2>1. Next
    BY Zenon DEF vars, outcome
  <2> QED BY <2>1, StepRefines, Zenon
<1> QED BY <1>1, <1>2, Invariance, PTL DEF Spec, Promises, Service!Spec
=============================================================================
