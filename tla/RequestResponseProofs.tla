------------------------ MODULE RequestResponseProofs ------------------------
(***************************************************************************)
(* Proofs about RequestResponse, for any number of peers, requests and     *)
(* substreams.  A request is in at most one place: its command is queued,  *)
(* it waits for a dial, or it is active.                                   *)
(***************************************************************************)
EXTENDS RequestResponse, FiniteSetTheorems, TLAPS

-----------------------------------------------------------------------------
(* The command channel *)

(* Receiving a command takes a send out of the channel, and nothing else   *)
(* changes about which sends are queued.                                   *)
LEMMA ReceiveCommand ==
  ASSUME TypeOK, QueuedOnce, NEW kind, Receive(kind)
  PROVE  /\ Head(commands).request \in RequestId
         /\ kind = "send" => Queued(Head(commands).request)
         /\ commands' \in Seq(Command)
         /\ QueuedOnce'
         /\ \A q \in RequestId :
              Queued(q)' <=> Queued(q) /\ ~(kind = "send" /\ q = Head(commands).request)
PROOF
<1> DEFINE head == commands[1]
<1>1. commands \in Seq(Command) /\ commands # <<>> /\ commands' = Tail(commands)
  BY Zenon DEF TypeOK, Receive
<1>2. Len(commands) \in Nat /\ Len(commands) > 0 /\ Head(commands) = head
  BY <1>1
<1>3. head = [kind |-> kind, request |-> head.request] /\ head.request \in RequestId
  <2>1. head \in Command
    BY <1>1, <1>2
  <2>2. head.kind = kind
    BY <1>2, Zenon DEF Receive
  <2> QED BY <2>1, <2>2, Zenon DEF Command
<1>4. commands' \in Seq(Command) /\ Len(commands') = Len(commands) - 1
  BY <1>1
<1>5. \A i \in 1 .. Len(commands') : commands'[i] = commands[i + 1]
  BY <1>1, <1>4
<1>6. QueuedOnce'
  BY <1>2, <1>4, <1>5 DEF QueuedOnce
<1>7. ASSUME NEW q \in RequestId
      PROVE  Queued(q)' <=> Queued(q) /\ ~(kind = "send" /\ q = head.request)
  <2>1. ASSUME Queued(q)' PROVE Queued(q) /\ ~(kind = "send" /\ q = head.request)
    <3>1. PICK i \in 1 .. Len(commands') : commands'[i] = [kind |-> "send", request |-> q]
      BY <2>1, Zenon DEF Queued
    <3>2. /\ i + 1 \in 1 .. Len(commands) /\ i + 1 # 1
          /\ commands[i + 1] = [kind |-> "send", request |-> q]
      BY <3>1, <1>2, <1>4, <1>5
    <3>3. ~(kind = "send" /\ q = head.request)
      BY <3>2, <1>2, <1>3 DEF QueuedOnce
    <3> QED BY <3>2, <3>3, Zenon DEF Queued
  <2>2. ASSUME Queued(q), ~(kind = "send" /\ q = head.request) PROVE Queued(q)'
    <3>1. PICK i \in 1 .. Len(commands) : commands[i] = [kind |-> "send", request |-> q]
      BY <2>2, Zenon DEF Queued
    <3>2. i # 1
      BY <3>1, <2>2, <1>3
    <3>3. i - 1 \in 1 .. Len(commands') /\ commands'[i - 1] = commands[i]
      BY <3>1, <3>2, <1>2, <1>4, <1>5
    <3> QED BY <3>1, <3>3, Zenon DEF Queued
  <2> QED BY <2>1, <2>2, Zenon
<1>8. kind = "send" => Queued(head.request)
  BY <1>2, <1>3 DEF Queued
<1> QED BY <1>2, <1>3, <1>4, <1>6, <1>7, <1>8, Zenon

(* A command is appended; a send is one that was not queued. *)
LEMMA AppendCommand ==
  ASSUME TypeOK, QueuedOnce, NEW c \in Command,
         c.kind = "send" => ~Queued(c.request),
         commands' = Append(commands, c)
  PROVE  /\ commands' \in Seq(Command)
         /\ QueuedOnce'
         /\ \A q \in RequestId :
              Queued(q)' <=> Queued(q) \/ c = [kind |-> "send", request |-> q]
PROOF
<1>1. commands \in Seq(Command) /\ Len(commands) \in Nat
  BY DEF TypeOK
<1>2. commands' \in Seq(Command) /\ Len(commands') = Len(commands) + 1
  BY <1>1
<1>3. /\ \A i \in 1 .. Len(commands) : commands'[i] = commands[i]
      /\ commands'[Len(commands) + 1] = c
  BY <1>1
<1>4. ASSUME NEW i \in 1 .. Len(commands), c.kind = "send" PROVE commands[i] # c
  BY <1>1, <1>4, Zenon DEF Queued, Command
<1>5. QueuedOnce'
  BY <1>1, <1>2, <1>3, <1>4 DEF QueuedOnce
<1>6. ASSUME NEW q \in RequestId
      PROVE  Queued(q)' <=> Queued(q) \/ c = [kind |-> "send", request |-> q]
  BY <1>1, <1>2, <1>3, SMTT(30) DEF Queued
<1> QED BY <1>2, <1>5, <1>6, Zenon

-----------------------------------------------------------------------------
(* Steps that move a request to another place *)

(* A request in one of the places that is reported leaves them, and no     *)
(* other request gets there: then no request is reported a second time.    *)
LEMMA ReportOnce ==
  ASSUME IInv, NEW R, Report(R), UNCHANGED next_request_id,
         \A q \in RequestId : q \in R => Queued(q) \/ Dialing(q) \/ Active(q),
         \A q \in RequestId : Queued(q)' \/ Dialing(q)' \/ Active(q)' =>
                                q \notin R /\ (Queued(q) \/ Dialing(q) \/ Active(q))
  PROVE  answered' \in [RequestId -> Nat] /\ NotYetAnswered'
PROOF
<1>1. /\ answered' \in [RequestId -> Nat]
      /\ \A q \in RequestId : answered'[q] = IF q \in R THEN answered[q] + 1 ELSE answered[q]
      /\ \A q \in RequestId : answered[q] \in Nat
  BY DEF IInv, TypeOK, Report
<1>2. None \notin Peer
  BY NoneIsNot, Zenon
<1>3. \A q \in RequestId : Queued(q) \/ Dialing(q) \/ Active(q) => target[q] \in Peer
  BY RequestBounds, NoneIsNot DEF IInv, TargetAgrees, Dialing, Active, RequestId
<1>4. \A q \in RequestId : q >= next_request_id => q \notin R
  BY <1>2, <1>3, Zenon DEF IInv, TargetAgrees
<1> QED
  BY <1>1, <1>4 DEF IInv, NotYetAnswered

(* open_substream gives the request a substream of its own. *)
LEMMA OpenKeepsSubstreams ==
  ASSUME IInv, NEW p \in Peer, NEW r \in RequestId, NEW s \in SubstreamId,
         OpenSubstream(p, r, s), target[r] = p, ~Active(r), pending_inbound[r] = "none",
         active' = [active EXCEPT ![p] = active[p] \cup {r}],
         UNCHANGED <<answers, target, pending_inbound>>
  PROVE  /\ requested' \in [SubstreamId -> Peer \cup {None}]
         /\ pending_outbound' \in [SubstreamId -> RequestId \cup {None}]
         /\ active' \in [Peer -> SUBSET RequestId]
         /\ \A q \in RequestId : Active(q)' <=> Active(q) \/ q = r
         /\ SubstreamInv'
PROOF
<1>1. /\ requested' = [requested EXCEPT ![s] = p]
      /\ pending_outbound' = [pending_outbound EXCEPT ![s] = r]
      /\ requested \in [SubstreamId -> Peer \cup {None}]
      /\ pending_outbound \in [SubstreamId -> RequestId \cup {None}]
      /\ active \in [Peer -> SUBSET RequestId]
  BY Zenon DEF IInv, TypeOK, OpenSubstream
<1>2. None \notin RequestId
  BY RequestBounds, NoneIsNot DEF RequestId
<1>3. \A u \in SubstreamId : pending_outbound[u] # r
  BY <1>2, Zenon DEF IInv, SubstreamInv
<1>4. \A q \in RequestId : Active(q)' <=> Active(q) \/ q = r
  BY <1>1, Zenon DEF Active
<1>5. SubstreamInv'
  <2> SUFFICES ASSUME NEW u \in SubstreamId
               PROVE  /\ Service!Unanswered(u)' => pending_outbound'[u] # None
                      /\ pending_outbound'[u] # None =>
                           /\ requested'[u] = target[pending_outbound'[u]]
                           /\ \E x \in Peer : pending_outbound'[u] \in active'[x]
                           /\ pending_inbound[pending_outbound'[u]] = "none"
                           /\ \A v \in SubstreamId :
                                pending_outbound'[v] = pending_outbound'[u] => v = u
    BY Zenon DEF SubstreamInv, Active
  <2>1. CASE u = s
    BY <2>1, <1>1, <1>2, <1>3, Zenon
  <2>2. CASE u # s
    BY <2>2, <1>1, <1>2, <1>3, Zenon DEF IInv, SubstreamInv, Service!Unanswered, Active
  <2> QED BY <2>1, <2>2, Zenon
<1> QED BY <1>1, <1>4, <1>5, Zenon

(* on_connection_established: the request that waited for the dial becomes *)
(* active or is reported.                                                  *)
LEMMA ConnectionEstablishedStep ==
  ASSUME IInv, NEW p \in Peer, ConnectionEstablished(p)
  PROVE  IInv'
PROOF
<1> DEFINE r == pending_dials[p]
<1> USE DEF IInv
<1>1. QueuedOnce' /\ \A q \in RequestId : Queued(q)' <=> Queued(q)
  BY DEF ConnectionEstablished, QueuedOnce, Queued
<1>2. p \notin peers /\ active[p] = {}
  BY DEF ConnectionEstablished, PeersConnected, TypeOK
<1>3. /\ pending_dials' = [pending_dials EXCEPT ![p] = None]
      /\ sessions' = [sessions EXCEPT ![p] = 1]
      /\ r \in RequestId \cup {None}
  BY Zenon DEF ConnectionEstablished, Dialed, TypeOK
<1>4. None \notin RequestId
  BY RequestBounds, NoneIsNot DEF RequestId
<1>5. \A q \in RequestId : Dialing(q)' <=> Dialing(q) /\ q # r
  BY <1>3, <1>4, ZenonT(30) DEF Dialing, TypeOK, TargetAgrees
<1>6. r # None => Dialing(r) /\ target[r] = p
  BY Zenon DEF Dialing, TargetAgrees
<1>7. InboundInv'
  BY Zenon DEF ConnectionEstablished, InboundInv, inbound
<1>8. PeersConnected'
  BY <1>3 DEF ConnectionEstablished, PeersConnected, TypeOK
<1>9. CASE r = None
  <2>1. /\ UNCHANGED <<requested, pending_outbound, active, answered>>
        /\ peers' = peers \cup {p}
    BY <1>9, Zenon DEF ConnectionEstablished
  <2>2. TypeOK'
    BY <1>3, <2>1, Zenon DEF ConnectionEstablished, TypeOK, inbound, handle
  <2>3. \A q \in RequestId : Active(q)' <=> Active(q)
    BY <2>1, Zenon DEF Active
  <2>4. TargetAgrees'
    BY <1>1, <1>3, <2>1 DEF ConnectionEstablished, TargetAgrees, TypeOK
  <2>5. OnePlace' /\ NotYetAnswered'
    BY <1>1, <1>5, <2>1, <2>3, Zenon DEF ConnectionEstablished, OnePlace, NotYetAnswered
  <2>6. SubstreamInv'
    BY <2>1, Zenon DEF ConnectionEstablished, SubstreamInv, Service!Unanswered, Active
  <2> QED BY <1>1, <1>7, <1>8, <2>2, <2>4, <2>5, <2>6, Zenon
<1>10. ASSUME NEW s \in SubstreamId, r # None, OpenSubstream(p, r, s),
              peers' = peers \cup {p}, active' = [active EXCEPT ![p] = {r}],
              UNCHANGED answered
       PROVE  IInv'
  <2>1. r \in RequestId /\ ~Active(r) /\ pending_inbound[r] = "none"
    BY <1>3, <1>6, <1>10, Zenon DEF OnePlace
  <2>2. active' = [active EXCEPT ![p] = active[p] \cup {r}]
    BY <1>2, <1>10, Zenon
  <2>3. UNCHANGED <<answers, target, pending_inbound>>
    BY Zenon DEF ConnectionEstablished
  <2>4. /\ requested' \in [SubstreamId -> Peer \cup {None}]
        /\ pending_outbound' \in [SubstreamId -> RequestId \cup {None}]
        /\ active' \in [Peer -> SUBSET RequestId]
        /\ \A q \in RequestId : Active(q)' <=> Active(q) \/ q = r
        /\ SubstreamInv'
    BY <1>6, <1>10, <2>1, <2>2, <2>3, OpenKeepsSubstreams, Zenon
  <2>5. TypeOK'
    BY <1>3, <1>10, <2>4, Zenon DEF ConnectionEstablished, TypeOK, inbound, handle
  <2>6. TargetAgrees'
    BY <1>1, <1>3, <1>6, <1>10, <2>1, SMTT(30) DEF ConnectionEstablished, TargetAgrees, TypeOK
  <2>7. OnePlace'
    BY <1>1, <1>5, <1>6, <1>10, <2>1, <2>3, <2>4, ZenonT(30) DEF OnePlace
  <2>8. NotYetAnswered'
    BY <1>1, <1>5, <1>6, <1>10, <2>1, <2>4, Zenon DEF ConnectionEstablished, NotYetAnswered
  <2> QED BY <1>1, <1>7, <1>8, <2>4, <2>5, <2>6, <2>7, <2>8, Zenon
<1>11. CASE r # None /\ OpenFails /\ Report({r}) /\ UNCHANGED <<peers, active>>
  <2>1. \A q \in RequestId : Active(q)' <=> Active(q)
    BY <1>11, Zenon DEF Active
  <2>2. r \in RequestId /\ ~Queued(r) /\ ~Active(r)
    BY <1>3, <1>6, <1>11, Zenon DEF OnePlace
  <2>3. answered' \in [RequestId -> Nat] /\ NotYetAnswered'
    <3>1. UNCHANGED next_request_id
      BY Zenon DEF ConnectionEstablished
    <3> QED BY <1>1, <1>5, <1>6, <1>11, <2>1, <2>2, <3>1, ReportOnce, Zenon
  <2>4. TypeOK'
    BY <1>3, <1>11, <2>3, Zenon DEF ConnectionEstablished, OpenFails, TypeOK, inbound, handle
  <2>5. TargetAgrees'
    BY <1>1, <1>3, <1>11 DEF ConnectionEstablished, TargetAgrees, TypeOK
  <2>6. OnePlace'
    BY <1>1, <1>5, <2>1, Zenon DEF ConnectionEstablished, OnePlace
  <2>7. SubstreamInv'
    BY <1>11, Zenon
    DEF ConnectionEstablished, OpenFails, SubstreamInv, Service!Unanswered, Active
  <2> QED BY <1>1, <1>7, <1>8, <2>3, <2>4, <2>5, <2>6, <2>7, Zenon
<1> QED
  BY <1>9, <1>10, <1>11, Zenon DEF ConnectionEstablished

(* on_send_request: the request becomes active, waits for a dial or is     *)
(* reported.                                                               *)
LEMMA SendRequestStep ==
  ASSUME IInv, SendRequest
  PROVE  IInv'
PROOF
<1> DEFINE r == Head(commands).request
<1> DEFINE p == target[r]
<1> USE DEF IInv
<1>1. /\ r \in RequestId /\ Queued(r)
      /\ commands' \in Seq(Command)
      /\ QueuedOnce'
      /\ \A q \in RequestId : Queued(q)' <=> Queued(q) /\ q # r
  <2>1. Receive("send")
    BY Zenon DEF SendRequest
  <2> QED BY <2>1, ReceiveCommand, Zenon
<1>2. p \in Peer /\ ~Dialing(r) /\ ~Active(r) /\ pending_inbound[r] = "none"
  BY <1>1, Zenon DEF TargetAgrees, OnePlace
<1>3. None \notin RequestId
  BY RequestBounds, NoneIsNot DEF RequestId
<1>4. UNCHANGED <<answers, target, pending_inbound, next_request_id>>
  BY Zenon DEF SendRequest
<1>5. InboundInv' /\ PeersConnected'
  BY Zenon DEF SendRequest, InboundInv, PeersConnected, inbound
<1>6. ASSUME NEW s \in SubstreamId, p \in peers, OpenSubstream(p, r, s),
             active' = [active EXCEPT ![p] = @ \cup {r}],
             UNCHANGED <<pending_dials, answered>>
      PROVE  IInv'
  <2>1. \A q \in RequestId : Dialing(q)' <=> Dialing(q)
    BY <1>6, Zenon DEF Dialing
  <2>2. /\ requested' \in [SubstreamId -> Peer \cup {None}]
        /\ pending_outbound' \in [SubstreamId -> RequestId \cup {None}]
        /\ active' \in [Peer -> SUBSET RequestId]
        /\ \A q \in RequestId : Active(q)' <=> Active(q) \/ q = r
        /\ SubstreamInv'
    BY <1>1, <1>2, <1>4, <1>6, OpenKeepsSubstreams, Zenon
  <2>3. TypeOK'
    BY <1>1, <1>6, <2>2, Zenon DEF SendRequest, TypeOK, inbound, handle
  <2>4. TargetAgrees'
    BY <1>1, <1>2, <1>4, <1>6, Zenon DEF TargetAgrees, TypeOK
  <2>5. OnePlace'
    BY <1>1, <1>2, <1>4, <2>1, <2>2, Zenon DEF OnePlace
  <2>6. NotYetAnswered'
    BY <1>1, <1>4, <1>6, <2>1, <2>2, Zenon DEF NotYetAnswered
  <2> QED BY <1>1, <1>5, <2>2, <2>3, <2>4, <2>5, <2>6, Zenon
<1>7. CASE /\ p \notin peers
           /\ pending_dials' = [pending_dials EXCEPT ![p] = r]
           /\ UNCHANGED <<requested, pending_outbound, active, answered>>
  <2>1. \A q \in RequestId : Active(q)' <=> Active(q)
    BY <1>7, Zenon DEF Active
  <2>2. \A q \in RequestId : Dialing(q)' => Dialing(q) \/ q = r
    BY <1>2, <1>7, Zenon DEF Dialing, TypeOK
  <2>3. TypeOK'
    BY <1>1, <1>2, <1>7, Zenon DEF SendRequest, TypeOK, inbound, handle
  <2>4. TargetAgrees'
    BY <1>1, <1>2, <1>4, <1>7, Zenon DEF TargetAgrees, TypeOK
  <2>5. OnePlace'
    BY <1>1, <1>2, <1>4, <2>1, <2>2, Zenon DEF OnePlace
  <2>6. NotYetAnswered'
    BY <1>1, <1>4, <1>7, <2>1, <2>2, Zenon DEF NotYetAnswered
  <2>7. SubstreamInv'
    BY <1>4, <1>7, Zenon DEF SubstreamInv, Service!Unanswered, Active
  <2> QED BY <1>1, <1>5, <2>3, <2>4, <2>5, <2>6, <2>7, Zenon
<1>8. CASE OpenFails /\ Report({r}) /\ UNCHANGED <<active, pending_dials>>
  <2>1. \A q \in RequestId : (Active(q)' <=> Active(q)) /\ (Dialing(q)' <=> Dialing(q))
    BY <1>8, Zenon DEF Active, Dialing
  <2>2. answered' \in [RequestId -> Nat] /\ NotYetAnswered'
    BY <1>1, <1>2, <1>4, <1>8, <2>1, ReportOnce, Zenon
  <2>3. TypeOK'
    BY <1>1, <1>8, <2>2, Zenon DEF SendRequest, OpenFails, TypeOK, inbound, handle
  <2>4. TargetAgrees'
    BY <1>1, <1>4, <1>8, Zenon DEF TargetAgrees
  <2>5. OnePlace'
    BY <1>1, <1>4, <2>1, Zenon DEF OnePlace
  <2>6. SubstreamInv'
    BY <1>4, <1>8, Zenon DEF OpenFails, SubstreamInv, Service!Unanswered, Active
  <2> QED BY <1>1, <1>5, <2>2, <2>3, <2>4, <2>5, <2>6, Zenon
<1> QED
  BY <1>6, <1>7, <1>8, Zenon DEF SendRequest

-----------------------------------------------------------------------------
(* Steps that end a request *)

(* on_connection_closed: the active requests of the peer are reported. *)
LEMMA ConnectionClosedStep ==
  ASSUME IInv, NEW p \in Peer, ConnectionClosed(p)
  PROVE  IInv'
PROOF
<1> USE DEF IInv
<1>1. QueuedOnce' /\ \A q \in RequestId : Queued(q)' <=> Queued(q)
  BY Zenon DEF ConnectionClosed, QueuedOnce, Queued
<1>2. /\ active' = [active EXCEPT ![p] = {}]
      /\ active_inbound' = [active_inbound EXCEPT ![p] = {}]
      /\ peers' = peers \ {p}
      /\ sessions' = [sessions EXCEPT ![p] = 0]
      /\ UNCHANGED <<requested, answers, pending_inbound, pending_dials, next_request_id,
                     target>>
  BY Zenon DEF ConnectionClosed, Dropped
<1>3. \A q \in RequestId : Active(q)' <=> Active(q) /\ q \notin active[p]
  BY <1>2 DEF Active, TypeOK, TargetAgrees
<1>4. \A q \in RequestId : Dialing(q)' <=> Dialing(q)
  BY <1>2, Zenon DEF Dialing
<1>5. answered' \in [RequestId -> Nat] /\ NotYetAnswered'
  <2>1. Report(active[p]) /\ \A q \in active[p] : Active(q)
    BY Zenon DEF ConnectionClosed, FailedOnClose, Active
  <2> QED BY <1>1, <1>2, <1>3, <1>4, <2>1, ReportOnce, Zenon DEF OnePlace
<1>6. TypeOK'
  BY <1>2, <1>5, Zenon DEF ConnectionClosed, Retained, TypeOK, inbound, handle
<1>7. TargetAgrees'
  BY <1>1, <1>2, Zenon DEF TargetAgrees, TypeOK
<1>8. OnePlace'
  BY <1>1, <1>2, <1>3, <1>4, Zenon DEF OnePlace
<1>9. SubstreamInv'
  BY <1>2
  DEF ConnectionClosed, Retained, TypeOK, TargetAgrees, SubstreamInv, Service!Unanswered,
      Active
<1>10. PeersConnected'
  BY <1>2, Zenon DEF PeersConnected, TypeOK
<1>11. InboundInv'
  BY <1>2 DEF ConnectionClosed, InboundInv, TypeOK, inbound
<1> QED BY <1>1, <1>5, <1>6, <1>7, <1>8, <1>9, <1>10, <1>11, Zenon

(* on_outbound_substream: the request stays active. *)
LEMMA SubstreamOpenedStep ==
  ASSUME IInv, NEW s \in SubstreamId, SubstreamOpened(s)
  PROVE  IInv'
PROOF
<1> DEFINE r == pending_outbound[s]
<1> USE DEF IInv
<1>1. /\ QueuedOnce'
      /\ \A q \in RequestId : /\ Queued(q)' <=> Queued(q)
                              /\ Dialing(q)' <=> Dialing(q)
                              /\ Active(q)' <=> Active(q)
  BY Zenon DEF SubstreamOpened, contexts, QueuedOnce, Queued, Dialing, Active
<1>2. /\ pending_outbound' = [pending_outbound EXCEPT ![s] = None]
      /\ answers' = [answers EXCEPT ![s] = 1] /\ Service!Unanswered(s)
      /\ UNCHANGED <<sessions, requested, contexts, pending_dials, inbound, next_request_id,
                     target, history>>
  BY Zenon DEF SubstreamOpened, Service!Answer
<1>3. /\ r \in RequestId /\ Active(r) /\ target[r] \in Peer
      /\ pending_inbound' = [pending_inbound EXCEPT ![r] = "sending"]
      /\ pending_outbound_cancels' = pending_outbound_cancels \cup {r}
  BY <1>2 DEF SubstreamOpened, SubstreamInv, TypeOK, Active, TargetAgrees
<1>4. TypeOK'
  BY <1>2, <1>3, Zenon
  DEF SubstreamOpened, Service!Unanswered, TypeOK, contexts, inbound, handle, history
<1>5. TargetAgrees'
  BY <1>1, <1>2, <1>3, ZenonT(30) DEF TargetAgrees, TypeOK, contexts
<1>6. OnePlace' /\ NotYetAnswered'
  BY <1>1, <1>2, <1>3 DEF OnePlace, NotYetAnswered, TypeOK, history
<1>7. SubstreamInv'
  BY <1>2, <1>3 DEF SubstreamInv, TypeOK, Service!Unanswered, Active, contexts
<1>8. PeersConnected' /\ InboundInv'
  BY <1>2, Zenon DEF PeersConnected, InboundInv, contexts, inbound, history
<1> QED BY <1>1, <1>4, <1>5, <1>6, <1>7, <1>8, Zenon

(* on_substream_open_failure: the request is reported. *)
LEMMA SubstreamOpenFailureStep ==
  ASSUME IInv, NEW s \in SubstreamId, SubstreamOpenFailure(s)
  PROVE  IInv'
PROOF
<1> DEFINE r == pending_outbound[s]
<1> USE DEF IInv
<1>1. /\ QueuedOnce'
      /\ \A q \in RequestId : (Queued(q)' <=> Queued(q)) /\ (Dialing(q)' <=> Dialing(q))
  BY Zenon DEF SubstreamOpenFailure, QueuedOnce, Queued, Dialing
<1>2. /\ pending_outbound' = [pending_outbound EXCEPT ![s] = None]
      /\ answers' = [answers EXCEPT ![s] = 1] /\ Service!Unanswered(s)
      /\ UNCHANGED <<sessions, requested, peers, active_inbound, pending_inbound, pending_dials,
                     inbound, next_request_id, target, stale>>
  BY Zenon DEF SubstreamOpenFailure, Service!Answer
<1>3. /\ r \in RequestId /\ Active(r) /\ target[r] \in Peer
      /\ active' = [active EXCEPT ![target[r]] = @ \ {r}]
      /\ Report({r})
  BY <1>2, SMTT(30) DEF SubstreamOpenFailure, Failed, SubstreamInv, TypeOK, Active, TargetAgrees
<1>4. \A q \in RequestId : Active(q)' <=> Active(q) /\ q # r
  BY <1>3 DEF Active, TypeOK, TargetAgrees
<1>5. answered' \in [RequestId -> Nat] /\ NotYetAnswered'
  BY <1>1, <1>2, <1>3, <1>4, ReportOnce, Zenon DEF OnePlace
<1>6. TypeOK'
  BY <1>2, <1>3, <1>5, Zenon
  DEF SubstreamOpenFailure, Service!Unanswered, TypeOK, inbound, handle
<1>7. TargetAgrees'
  BY <1>1, <1>2, <1>3, Zenon DEF TargetAgrees, TypeOK
<1>8. OnePlace'
  BY <1>1, <1>2, <1>4, Zenon DEF OnePlace
<1>9. SubstreamInv'
  BY <1>2, <1>3 DEF SubstreamInv, TypeOK, Service!Unanswered, Active
<1>10. PeersConnected' /\ InboundInv'
  BY <1>2, Zenon DEF PeersConnected, InboundInv, inbound
<1> QED BY <1>1, <1>5, <1>6, <1>7, <1>8, <1>9, <1>10, Zenon

(* on_dial_failure: the request was not active, and is reported. *)
LEMMA DialFailureStep ==
  ASSUME IInv, NEW p \in Peer, DialFailure(p)
  PROVE  IInv'
PROOF
<1> DEFINE r == pending_dials[p]
<1> USE DEF IInv
<1>1. QueuedOnce' /\ \A q \in RequestId : Queued(q)' <=> Queued(q)
  BY Zenon DEF DialFailure, QueuedOnce, Queued
<1>2. /\ r \in RequestId /\ Dialing(r) /\ target[r] = p /\ Report({r})
      /\ pending_dials' = [pending_dials EXCEPT ![p] = None]
      /\ UNCHANGED <<service, peers, active_inbound, outbound, inbound, next_request_id,
                     target, stale>>
  BY Zenon DEF DialFailure, Dialed, TypeOK, Dialing, TargetAgrees
<1>3. UNCHANGED active
  BY <1>2, SMTT(30) DEF DialFailure, OnePlace, Active, TypeOK
<1>4. \A q \in RequestId : (Active(q)' <=> Active(q)) /\ (Dialing(q)' <=> Dialing(q) /\ q # r)
  BY <1>2, <1>3, RequestBounds, NoneIsNot, SMTT(30) DEF Active, Dialing, TypeOK, TargetAgrees, RequestId
<1>5. answered' \in [RequestId -> Nat] /\ NotYetAnswered'
  BY <1>1, <1>2, <1>4, ReportOnce, Zenon DEF OnePlace
<1>6. TypeOK'
  BY <1>2, <1>3, <1>5, Zenon DEF DialFailure, TypeOK, service, outbound, inbound, handle
<1>7. TargetAgrees'
  BY <1>1, <1>2, <1>3, Zenon DEF TargetAgrees, TypeOK, outbound
<1>8. OnePlace'
  BY <1>1, <1>2, <1>4, Zenon DEF OnePlace, outbound
<1>9. SubstreamInv'
  BY <1>2, <1>3, Zenon DEF SubstreamInv, Service!Unanswered, Active, service, outbound
<1>10. PeersConnected' /\ InboundInv'
  BY <1>2, Zenon DEF PeersConnected, InboundInv, service, inbound
<1> QED BY <1>1, <1>5, <1>6, <1>7, <1>8, <1>9, <1>10, Zenon

(* on_substream_event: a request that is not active any more is not        *)
(* reported.                                                               *)
LEMMA SubstreamEventStep ==
  ASSUME IInv, NEW r \in RequestId, SubstreamEvent(r)
  PROVE  IInv'
PROOF
<1> USE DEF IInv
<1>1. /\ QueuedOnce'
      /\ \A q \in RequestId : (Queued(q)' <=> Queued(q)) /\ (Dialing(q)' <=> Dialing(q))
  BY Zenon DEF SubstreamEvent, QueuedOnce, Queued, Dialing
<1>2. /\ pending_inbound' = [pending_inbound EXCEPT ![r] = "none"]
      /\ active' = [active EXCEPT ![target[r]] = @ \ {r}]
      /\ UNCHANGED <<service, peers, active_inbound, pending_outbound, pending_dials, inbound,
                     next_request_id, target, stale>>
      /\ target[r] \in Peer /\ pending_inbound[r] # "none"
  BY Zenon DEF SubstreamEvent, TargetAgrees
<1>3. \A q \in RequestId : Active(q)' <=> Active(q) /\ q # r
  BY <1>2 DEF Active, TypeOK, TargetAgrees
<1>4. answered' \in [RequestId -> Nat] /\ NotYetAnswered'
  <2>1. CASE UNCHANGED answered
    BY <2>1, <1>1, <1>2, <1>3, Zenon DEF NotYetAnswered, TypeOK
  <2>2. CASE r \in active[target[r]] /\ Report({r})
    <3>1. Active(r)
      BY <2>2, <1>2, Zenon DEF Active
    <3> QED BY <2>2, <3>1, <1>1, <1>2, <1>3, ReportOnce, Zenon DEF OnePlace
  <2> QED BY <2>1, <2>2, Zenon DEF SubstreamEvent, Expected
<1>5. TypeOK'
  <2>1. active' \in [Peer -> SUBSET RequestId] /\ \A p \in Peer : active'[p] \subseteq active[p]
    BY <1>2, Zenon DEF TypeOK
  <2>2. \A p \in Peer \ peers' : active'[p] = {} /\ active_inbound'[p] = {}
    BY <1>2, <2>1, Zenon DEF TypeOK
  <2>3. pending_inbound' \in [RequestId -> {"none", "sending", "waiting"}]
    BY <1>2, Zenon DEF TypeOK
  <2> QED BY <1>4, <2>1, <2>2, <2>3, Zenon DEF SubstreamEvent, TypeOK, service, inbound, handle
<1>6. TargetAgrees'
  BY <1>1, <1>2, Zenon DEF TargetAgrees, TypeOK
<1>7. OnePlace'
  BY <1>1, <1>2, <1>3, ZenonT(30) DEF OnePlace, TypeOK
<1>8. SubstreamInv'
  BY <1>2 DEF SubstreamInv, TypeOK, Service!Unanswered, Active, service
<1>9. PeersConnected' /\ InboundInv'
  BY <1>2, Zenon DEF PeersConnected, InboundInv, service, inbound
<1> QED BY <1>1, <1>4, <1>5, <1>6, <1>7, <1>8, <1>9, Zenon

-----------------------------------------------------------------------------
(* Steps that allocate a request id, and those of the handle *)

(* The next request id is in no place yet. *)
LEMMA NextIsFresh ==
  ASSUME IInv, next_request_id < MaxRequests
  PROVE  LET n == next_request_id IN
         /\ n \in RequestId /\ n + 1 \in 0 .. MaxRequests
         /\ \A q \in RequestId : q >= n + 1 => q >= n /\ q # n
         /\ ~Queued(n) /\ ~Dialing(n) /\ ~Active(n) /\ pending_inbound[n] = "none"
         /\ \A s \in SubstreamId : pending_outbound[s] # n
         /\ \A p \in Peer : n \notin active_inbound[p]
         /\ n \notin stale \cup pending_inbound_requests
PROOF
<1> DEFINE n == next_request_id
<1>1. /\ n \in RequestId /\ n + 1 \in 0 .. MaxRequests /\ n \in Nat
      /\ \A q \in RequestId : q >= n + 1 => q >= n /\ q # n
  BY RequestBounds DEF IInv, TypeOK, RequestId
<1>2. target[n] \notin Peer
  BY <1>1, NoneIsNot DEF IInv, TargetAgrees
<1>3. ~Queued(n) /\ ~Dialing(n) /\ ~Active(n) /\ pending_inbound[n] = "none"
  BY <1>1, <1>2, NoneIsNot, ZenonT(30) DEF IInv, TargetAgrees, Dialing, Active
<1>4. \A s \in SubstreamId : pending_outbound[s] # n
  BY <1>1, <1>3, NoneIsNot, Zenon DEF IInv, SubstreamInv
<1>5. /\ \A p \in Peer : n \notin active_inbound[p]
      /\ n \notin stale \cup pending_inbound_requests
  BY <1>2, Zenon DEF IInv, InboundInv
<1> QED BY <1>1, <1>3, <1>4, <1>5, Zenon

(* on_inbound_substream: the new id is of an inbound request. *)
LEMMA InboundSubstreamStep ==
  ASSUME IInv, NEW p \in Peer, InboundSubstream(p)
  PROVE  IInv'
PROOF
<1> DEFINE n == next_request_id
<1> USE DEF IInv
<1>1. /\ QueuedOnce'
      /\ \A q \in RequestId : /\ Queued(q)' <=> Queued(q)
                              /\ Dialing(q)' <=> Dialing(q)
                              /\ Active(q)' <=> Active(q)
  BY Zenon DEF InboundSubstream, QueuedOnce, Queued, Dialing, Active
<1>2. /\ n \in RequestId /\ n + 1 \in 0 .. MaxRequests
      /\ \A q \in RequestId : q >= n + 1 => q >= n /\ q # n
      /\ ~Queued(n) /\ ~Dialing(n) /\ ~Active(n) /\ pending_inbound[n] = "none"
      /\ \A s \in SubstreamId : pending_outbound[s] # n
      /\ \A x \in Peer : n \notin active_inbound[x]
      /\ n \notin stale \cup pending_inbound_requests
  BY NextIsFresh, Zenon DEF InboundSubstream
<1>3. /\ next_request_id' = n + 1
      /\ UNCHANGED <<service, peers, active, outbound, pending_dials, answered, stale>>
  BY Zenon DEF InboundSubstream, history
<1>4. IF p \in peers
         THEN /\ active_inbound' = [active_inbound EXCEPT ![p] = @ \cup {n}]
              /\ pending_inbound_requests' = pending_inbound_requests \cup {n}
              /\ target' = [target EXCEPT ![n] = p]
         ELSE UNCHANGED <<active_inbound, pending_inbound_requests, target>>
  BY Zenon DEF InboundSubstream
<1>5. /\ target' \in [RequestId -> Peer \cup {None}]
      /\ \A q \in RequestId : q # n => target'[q] = target[q]
  BY <1>2 DEF InboundSubstream, TypeOK
<1>6. TypeOK'
  <2>1. /\ active_inbound' \in [Peer -> SUBSET RequestId]
        /\ \A x \in Peer \ peers : active_inbound'[x] = {}
        /\ pending_inbound_requests' \subseteq RequestId
    <3>1. CASE p \in peers
      <4>1. /\ active_inbound' = [active_inbound EXCEPT ![p] = active_inbound[p] \cup {n}]
            /\ pending_inbound_requests' = pending_inbound_requests \cup {n}
        BY <3>1, <1>4, Zenon
      <4> QED BY <3>1, <1>2, <4>1, Zenon DEF TypeOK
    <3>2. CASE p \notin peers
      BY <3>2, <1>4, Zenon DEF TypeOK
    <3> QED BY <3>1, <3>2, Zenon
  <2> QED BY <1>2, <1>3, <1>5, <2>1, Zenon
    DEF InboundSubstream, TypeOK, service, outbound, handle, history
<1>7. TargetAgrees'
  <2>1. \A x \in Peer : \A q \in active[x] : q \in RequestId /\ q # n
    BY <1>2, Zenon DEF Active, TypeOK
  <2>2. \A x \in Peer : pending_dials[x] # None => pending_dials[x] \in RequestId \ {n}
    BY <1>2, Zenon DEF Dialing, TypeOK
  <2> QED BY <1>1, <1>2, <1>3, <1>5, <2>1, <2>2, Zenon DEF TargetAgrees, outbound
<1>8. OnePlace'
  BY <1>1, <1>3, Zenon DEF OnePlace, outbound
<1>9. NotYetAnswered'
  BY <1>1, <1>2, <1>3, Zenon DEF NotYetAnswered
<1>10. SubstreamInv'
  <2>1. \A s \in SubstreamId : pending_outbound[s] # None =>
                                 target'[pending_outbound[s]] = target[pending_outbound[s]]
    BY <1>2, <1>5, Zenon DEF TypeOK
  <2> QED BY <1>3, <2>1, Zenon DEF SubstreamInv, Service!Unanswered, Active, service, outbound
<1>11. PeersConnected'
  BY <1>3, Zenon DEF PeersConnected, service
<1>12. InboundInv'
  <2>1. CASE p \in peers
    <3>1. /\ \A x \in Peer : active_inbound'[x] \subseteq active_inbound[x] \cup {n}
          /\ \A x \in Peer : n \in active_inbound'[x] => x = p
          /\ pending_inbound_requests' = pending_inbound_requests \cup {n}
      <4>1. /\ active_inbound' = [active_inbound EXCEPT ![p] = active_inbound[p] \cup {n}]
            /\ pending_inbound_requests' = pending_inbound_requests \cup {n}
        BY <2>1, <1>4, Zenon
      <4>2. active_inbound \in [Peer -> SUBSET RequestId]
        BY Zenon DEF TypeOK
      <4> QED BY <1>2, <4>1, <4>2, Zenon
    <3>2. target'[n] = p
      BY <2>1, <1>2, <1>4, Zenon DEF TypeOK
    <3>3. ASSUME NEW x \in Peer, NEW q \in active_inbound'[x]
          PROVE  target'[q] = x /\ q \notin stale
      <4>1. CASE q = n
        BY <4>1, <1>2, <3>1, <3>2, Zenon
      <4>2. CASE q # n
        <5>1. q \in active_inbound[x] /\ q \in RequestId
          BY <4>2, <3>1, Zenon DEF TypeOK
        <5> QED BY <4>2, <5>1, <1>5, Zenon DEF InboundInv
      <4> QED BY <4>1, <4>2, Zenon
    <3>4. \A q \in stale \cup pending_inbound_requests' : target'[q] \in Peer
      BY <1>2, <1>5, <3>1, <3>2, Zenon DEF InboundInv, TypeOK
    <3> QED BY <1>3, <3>3, <3>4, Zenon DEF InboundInv
  <2>2. CASE p \notin peers
    BY <2>2, <1>3, Zenon DEF InboundSubstream, InboundInv
  <2> QED BY <2>1, <2>2, Zenon
<1> QED BY <1>1, <1>6, <1>7, <1>8, <1>9, <1>10, <1>11, <1>12, Zenon

(* RequestResponseHandle::send_request: the new id is queued. *)
LEMMA SendStep ==
  ASSUME IInv, NEW p \in Peer, send_request(p)
  PROVE  IInv'
PROOF
<1> DEFINE n == next_request_id
<1> DEFINE c == [kind |-> "send", request |-> n]
<1> USE DEF IInv
<1>1. /\ n \in RequestId /\ n + 1 \in 0 .. MaxRequests
      /\ \A q \in RequestId : q >= n + 1 => q >= n /\ q # n
      /\ ~Queued(n) /\ ~Dialing(n) /\ ~Active(n) /\ pending_inbound[n] = "none"
      /\ \A s \in SubstreamId : pending_outbound[s] # n
      /\ \A x \in Peer : n \notin active_inbound[x]
      /\ n \notin stale \cup pending_inbound_requests
  BY NextIsFresh, Zenon DEF send_request
<1>2. /\ commands' \in Seq(Command) /\ QueuedOnce'
      /\ \A q \in RequestId : Queued(q)' <=> Queued(q) \/ q = n
  <2>1. c \in Command /\ c.request = n /\ commands' = Append(commands, c)
    BY <1>1, Zenon DEF Command, send_request
  <2>2. \A q \in RequestId : c = [kind |-> "send", request |-> q] <=> q = n
    OBVIOUS
  <2> HIDE DEF c
  <2> QED BY <1>1, <2>1, <2>2, AppendCommand, Zenon
<1>3. /\ next_request_id' = n + 1
      /\ target' = [target EXCEPT ![n] = p]
      /\ UNCHANGED <<service, contexts, outbound, pending_dials, inbound, handle, history>>
  BY Zenon DEF send_request
<1>4. \A q \in RequestId : (Dialing(q)' <=> Dialing(q)) /\ (Active(q)' <=> Active(q))
  BY <1>3, Zenon DEF Dialing, Active, contexts
<1>5. TypeOK'
  BY <1>1, <1>2, <1>3, ZenonT(30) DEF TypeOK, service, contexts, outbound, inbound, handle, history
<1>6. TargetAgrees'
  <2>1. \A x \in Peer : \A q \in active[x] : q \in RequestId /\ q # n
    BY <1>1, ZenonT(30) DEF Active, TypeOK
  <2>2. \A x \in Peer : pending_dials[x] # None => pending_dials[x] \in RequestId \ {n}
    BY <1>1, Zenon DEF Dialing, TypeOK
  <2> QED BY <1>1, <1>2, <1>3, <2>1, <2>2, SMTT(30) DEF TargetAgrees, TypeOK, contexts, outbound
<1>7. OnePlace'
  BY <1>1, <1>2, <1>3, <1>4, Zenon DEF OnePlace, outbound
<1>8. NotYetAnswered'
  <2>1. n >= n
    BY <1>1, RequestBounds DEF RequestId
  <2> QED BY <1>1, <1>2, <1>3, <1>4, <2>1, Zenon DEF NotYetAnswered, history
<1>9. SubstreamInv'
  <2>1. \A s \in SubstreamId : pending_outbound[s] # None =>
                                 target'[pending_outbound[s]] = target[pending_outbound[s]]
    BY <1>1, <1>3, Zenon DEF TypeOK
  <2> QED BY <1>3, <2>1, Zenon
    DEF SubstreamInv, Service!Unanswered, Active, service, contexts, outbound
<1>10. PeersConnected' /\ InboundInv'
  BY <1>1, <1>3, SMTT(30) DEF PeersConnected, InboundInv, TypeOK, service, contexts, inbound, history
<1> QED BY <1>2, <1>5, <1>6, <1>7, <1>8, <1>9, <1>10, Zenon

(* RequestResponseHandle::cancel_request *)
LEMMA CancelStep ==
  ASSUME IInv, NEW r \in RequestId, cancel_request(r)
  PROVE  IInv'
PROOF
<1> DEFINE c == [kind |-> "cancel", request |-> r]
<1> USE DEF IInv
<1>1. /\ commands' \in Seq(Command) /\ QueuedOnce'
      /\ \A q \in RequestId : Queued(q)' <=> Queued(q)
  <2>1. c \in Command /\ c.kind # "send" /\ commands' = Append(commands, c)
    BY Zenon DEF Command, cancel_request
  <2>2. \A q \in RequestId : c # [kind |-> "send", request |-> q]
    OBVIOUS
  <2> HIDE DEF c
  <2> QED BY <2>1, <2>2, AppendCommand, Zenon
<1>2. UNCHANGED <<service, contexts, outbound, pending_dials, inbound, next_request_id,
                  handle, target, history>>
  BY Zenon DEF cancel_request
<1>3. \A q \in RequestId : (Dialing(q)' <=> Dialing(q)) /\ (Active(q)' <=> Active(q))
  BY <1>2, Zenon DEF Dialing, Active, contexts
<1>4. TypeOK'
  BY <1>1, <1>2, Zenon DEF TypeOK, service, contexts, outbound, inbound, handle, history
<1>5. TargetAgrees' /\ OnePlace' /\ NotYetAnswered'
  BY <1>1, <1>2, <1>3, Zenon
  DEF TargetAgrees, OnePlace, NotYetAnswered, contexts, outbound, history
<1>6. SubstreamInv'
  BY <1>2, Zenon DEF SubstreamInv, Service!Unanswered, Active, service, contexts, outbound
<1>7. PeersConnected' /\ InboundInv'
  BY <1>2, Zenon DEF PeersConnected, InboundInv, service, contexts, inbound, history
<1> QED BY <1>1, <1>4, <1>5, <1>6, <1>7, Zenon

(* on_cancel_request: the request stays where it is. *)
LEMMA CancelRequestStep ==
  ASSUME IInv, CancelRequest
  PROVE  IInv'
PROOF
<1> USE DEF IInv
<1>1. /\ commands' \in Seq(Command) /\ QueuedOnce'
      /\ Head(commands).request \in RequestId
      /\ \A q \in RequestId : Queued(q)' <=> Queued(q)
  <2>1. Receive("cancel")
    BY Zenon DEF CancelRequest
  <2> QED BY <2>1, ReceiveCommand
<1>2. UNCHANGED <<service, contexts, pending_outbound, pending_inbound, pending_dials, inbound,
                  next_request_id, handle, target, answered, stale>>
  BY Zenon DEF CancelRequest
<1>3. \A q \in RequestId : (Dialing(q)' <=> Dialing(q)) /\ (Active(q)' <=> Active(q))
  BY <1>2, Zenon DEF Dialing, Active, contexts
<1>4. TypeOK'
  BY <1>1, <1>2, Zenon DEF CancelRequest, TypeOK, service, contexts, inbound, handle
<1>5. TargetAgrees' /\ OnePlace' /\ NotYetAnswered'
  BY <1>1, <1>2, <1>3, Zenon DEF TargetAgrees, OnePlace, NotYetAnswered, contexts
<1>6. SubstreamInv'
  BY <1>2, Zenon DEF SubstreamInv, Service!Unanswered, Active, service, contexts
<1>7. PeersConnected' /\ InboundInv'
  BY <1>2, Zenon DEF PeersConnected, InboundInv, service, contexts, inbound
<1> QED BY <1>1, <1>4, <1>5, <1>6, <1>7, Zenon

(* The steps that leave the places of outbound requests alone. *)
LEMMA OtherStep ==
  ASSUME IInv, NEW r \in RequestId,
         \/ RequestSent(r) \/ InboundRequest(r) \/ ResponseSent(r)
         \/ poll_next(r) \/ send_response(r)
  PROVE  IInv'
PROOF
<1> USE DEF IInv
<1>1. /\ UNCHANGED <<service, peers, active, pending_outbound, pending_outbound_cancels,
                     signalled, pending_dials, next_request_id, commands, target, history>>
      /\ pending_inbound_requests' \subseteq pending_inbound_requests
  BY Zenon DEF RequestSent, InboundRequest, ResponseSent, poll_next, send_response, contexts,
         outbound, inbound
<1>2. /\ pending_inbound' \in [RequestId -> {"none", "sending", "waiting"}]
      /\ \A q \in RequestId : pending_inbound'[q] = "none" <=> pending_inbound[q] = "none"
  BY Zenon
  DEF RequestSent, InboundRequest, ResponseSent, poll_next, send_response, outbound, TypeOK
<1>3. /\ active_inbound' \in [Peer -> SUBSET RequestId]
      /\ \A p \in Peer : active_inbound'[p] \subseteq active_inbound[p]
  <2>1. CASE InboundRequest(r)
    BY <2>1, Zenon DEF InboundRequest, InboundInv, TypeOK
  <2>2. CASE ~InboundRequest(r)
    BY <2>2, Zenon DEF RequestSent, ResponseSent, poll_next, send_response, contexts, TypeOK
  <2> QED BY <2>1, <2>2, Zenon
<1>4. /\ pending_outbound_responses' \subseteq RequestId
      /\ received' \subseteq RequestId
      /\ pending_responses' \subseteq RequestId
  BY Zenon
  DEF RequestSent, InboundRequest, ResponseSent, poll_next, send_response, inbound, handle,
      TypeOK
<1>5. /\ QueuedOnce'
      /\ \A q \in RequestId : /\ Queued(q)' <=> Queued(q)
                              /\ Dialing(q)' <=> Dialing(q)
                              /\ Active(q)' <=> Active(q)
  BY <1>1, Zenon DEF QueuedOnce, Queued, Dialing, Active
<1>6. TypeOK'
  BY <1>1, <1>2, <1>3, <1>4, Zenon DEF TypeOK, service, history
<1>7. TargetAgrees' /\ OnePlace' /\ NotYetAnswered'
  BY <1>1, <1>2, <1>5, Zenon DEF TargetAgrees, OnePlace, NotYetAnswered, history
<1>8. SubstreamInv'
  BY <1>1, <1>2, ZenonT(30) DEF SubstreamInv, Service!Unanswered, Active, TypeOK, service
<1>9. PeersConnected' /\ InboundInv'
  BY <1>1, <1>3, Zenon DEF PeersConnected, InboundInv, service, history
<1> QED BY <1>5, <1>6, <1>7, <1>8, <1>9, Zenon

-----------------------------------------------------------------------------
(* The invariant holds when the protocol starts. *)
LEMMA InitIInv == Init => IInv
PROOF
<1> SUFFICES ASSUME Init PROVE IInv
  OBVIOUS
<1>1. /\ commands = <<>> /\ Len(commands) = 0
      /\ \A r \in RequestId : ~Queued(r) /\ ~Dialing(r) /\ ~Active(r)
  BY RequestBounds, NoneIsNot DEF Init, Queued, Dialing, Active, RequestId
<1>2. TypeOK
  BY RequestBounds DEF Init, Service!Init, TypeOK
<1>3. QueuedOnce /\ TargetAgrees /\ OnePlace /\ NotYetAnswered
  BY <1>1 DEF Init, QueuedOnce, TargetAgrees, OnePlace, NotYetAnswered
<1>4. SubstreamInv /\ PeersConnected /\ InboundInv
  BY ZenonT(30) DEF Init, Service!Init, Service!Unanswered, SubstreamInv, PeersConnected, InboundInv
<1> QED BY <1>2, <1>3, <1>4, Zenon DEF IInv

(* It holds on when nothing changes. *)
LEMMA StutterIInv == ASSUME IInv, UNCHANGED vars PROVE IInv'
PROOF
<1>1. /\ sessions' = sessions /\ requested' = requested /\ answers' = answers
      /\ peers' = peers /\ active' = active /\ active_inbound' = active_inbound
      /\ pending_outbound' = pending_outbound /\ pending_inbound' = pending_inbound
      /\ pending_outbound_cancels' = pending_outbound_cancels /\ signalled' = signalled
      /\ pending_dials' = pending_dials /\ next_request_id' = next_request_id
      /\ pending_inbound_requests' = pending_inbound_requests
      /\ pending_outbound_responses' = pending_outbound_responses
      /\ commands' = commands /\ received' = received /\ pending_responses' = pending_responses
      /\ target' = target /\ answered' = answered /\ canceled' = canceled /\ stale' = stale
  BY Zenon DEF vars, service, contexts, outbound, inbound, handle, history
<1>2. TypeOK' /\ QueuedOnce'
  BY <1>1, Zenon DEF IInv, TypeOK, QueuedOnce
<1>3. ASSUME NEW r PROVE (Queued(r)' <=> Queued(r)) /\ (Dialing(r)' <=> Dialing(r))
                         /\ (Active(r)' <=> Active(r))
  BY <1>1, Zenon DEF Queued, Dialing, Active
<1>4. TargetAgrees' /\ OnePlace' /\ NotYetAnswered'
  BY <1>1, <1>3, Zenon DEF IInv, TargetAgrees, OnePlace, NotYetAnswered
<1>5. SubstreamInv'
  BY <1>1, <1>3, Zenon DEF IInv, SubstreamInv, Service!Unanswered
<1>6. PeersConnected' /\ InboundInv'
  BY <1>1, Zenon DEF IInv, PeersConnected, InboundInv
<1> QED BY <1>2, <1>4, <1>5, <1>6, Zenon DEF IInv

(* Every step of the protocol and of its user keeps the invariant. *)
THEOREM Invariance == Spec => []IInv
PROOF
<1>1. IInv /\ [Next]_vars => IInv'
  <2> SUFFICES ASSUME IInv, [Next]_vars PROVE IInv'
    OBVIOUS
  <2>1. CASE ServiceEvent
    BY <2>1, ConnectionEstablishedStep, ConnectionClosedStep, DialFailureStep,
       InboundSubstreamStep, SubstreamOpenedStep, SubstreamOpenFailureStep, Zenon
    DEF ServiceEvent
  <2>2. CASE \E r \in RequestId : FutureStep(r)
    BY <2>2, SubstreamEventStep, OtherStep, Zenon DEF FutureStep
  <2>3. CASE UserCommand
    BY <2>3, SendRequestStep, CancelRequestStep, Zenon DEF UserCommand
  <2>4. CASE UserStep
    BY <2>4, SendStep, CancelStep, OtherStep, Zenon DEF UserStep
  <2>5. CASE UNCHANGED vars
    BY <2>5, StutterIInv, Zenon
  <2> QED BY <2>1, <2>2, <2>3, <2>4, <2>5, Zenon DEF Next
<1> QED
  BY InitIInv, <1>1, PTL DEF Spec

(* Every variable of the protocol keeps its type. *)
THEOREM TypeCorrect == Spec => []TypeOK
PROOF
<1>1. IInv => TypeOK
  BY Zenon DEF IInv
<1> QED BY Invariance, <1>1, PTL

(* on_connection_closed, on_substream_event, on_substream_open_failure and *)
(* on_dial_failure never report the same request twice.                    *)
THEOREM AnsweredAtMostOnce == Spec => []AnsweredOnce
PROOF
<1>1. IInv => AnsweredOnce
  BY Zenon DEF IInv, NotYetAnswered, AnsweredOnce
<1> QED BY Invariance, <1>1, PTL

(* The debug_asserts of on_outbound_substream and                          *)
(* on_substream_open_failure never fail.                                   *)
THEOREM AnsweredSubstreamIsKnown == Spec => []SubstreamKnown
PROOF
<1>1. IInv => SubstreamKnown
  <2> SUFFICES ASSUME IInv, NEW s \in SubstreamId, Service!Unanswered(s)
               PROVE  /\ pending_outbound[s] # None
                      /\ requested[s] \in peers
                      /\ pending_outbound[s] \in active[requested[s]]
    BY Zenon DEF SubstreamKnown
  <2>1. pending_outbound[s] # None /\ requested[s] = target[pending_outbound[s]]
    BY Zenon DEF IInv, SubstreamInv
  <2>2. PICK p \in Peer : pending_outbound[s] \in active[p]
    BY <2>1, Zenon DEF IInv, SubstreamInv, Active
  <2>3. target[pending_outbound[s]] = p /\ p \in peers
    BY <2>2, Zenon DEF IInv, TargetAgrees, TypeOK
  <2> QED BY <2>1, <2>2, <2>3, Zenon
<1> QED BY Invariance, <1>1, PTL

(* on_inbound_request gives the user no request whose connection closed    *)
(* while it was read, also if the peer is connected again.                 *)
THEOREM StaleInboundIsDropped == Spec => NoStaleInbound
PROOF
<1>1. IInv /\ [Next]_vars => [received' \cap stale \subseteq received]_vars
  <2> SUFFICES ASSUME IInv, Next PROVE received' \cap stale \subseteq received
    OBVIOUS
  <2>1. ASSUME NEW r \in RequestId, InboundRequest(r)
        PROVE  received' \cap stale \subseteq received
    <3>1. r \in active_inbound[target[r]] => r \notin stale
      BY <2>1, Zenon DEF IInv, InboundInv, InboundRequest
    <3> QED BY <2>1, <3>1, Zenon DEF InboundRequest, Awaited
  <2>2. CASE ServiceEvent
    BY <2>2, Zenon DEF ServiceEvent, ConnectionEstablished, ConnectionClosed, DialFailure,
                InboundSubstream, SubstreamOpened, SubstreamOpenFailure, handle
  <2>3. ASSUME NEW r \in RequestId, RequestSent(r) \/ SubstreamEvent(r) \/ ResponseSent(r)
        PROVE  received' \cap stale \subseteq received
    BY <2>3, Zenon DEF RequestSent, SubstreamEvent, ResponseSent, handle
  <2>4. CASE UserCommand
    BY <2>4, Zenon DEF UserCommand, SendRequest, CancelRequest, handle
  <2>5. CASE UserStep
    BY <2>5, Zenon DEF UserStep, send_request, cancel_request, poll_next, send_response, handle
  <2> QED BY <2>1, <2>2, <2>3, <2>4, <2>5, Zenon DEF Next, FutureStep
<1> QED
  BY Invariance, <1>1, PTL DEF Spec, NoStaleInbound

-----------------------------------------------------------------------------
(* What ends the requests the protocol keeps: an active request has a      *)
(* substream on the way or a future, and the inbound requests that wait    *)
(* are as many as on_inbound_substream allows.                             *)

(* An active request has a substream on the way or a future. *)
HasFuture ==
  \A p \in Peer : \A r \in active[p] :
    pending_inbound[r] # "none" \/ \E s \in SubstreamId : pending_outbound[s] = r

BeingRead == \A p \in Peer : active_inbound[p] \subseteq pending_inbound_requests

(* A new substream takes the place of no other request. *)
LEMMA OpenKeepsFutures ==
  ASSUME IInv, HasFuture, NEW p \in Peer, NEW r \in RequestId, NEW s \in SubstreamId,
         OpenSubstream(p, r, s),
         active' = [active EXCEPT ![p] = active[p] \cup {r}],
         UNCHANGED pending_inbound
  PROVE  HasFuture'
PROOF
<1>1. /\ pending_outbound' = [pending_outbound EXCEPT ![s] = r]
      /\ pending_outbound \in [SubstreamId -> RequestId \cup {None}]
      /\ active \in [Peer -> SUBSET RequestId]
      /\ requested[s] = None
  BY Zenon DEF IInv, TypeOK, OpenSubstream, Unused
<1>2. None \notin RequestId /\ None \notin Peer
  BY RequestBounds, NoneIsNot, SMTT(30) DEF RequestId
<1>3. pending_outbound[s] = None
  BY <1>1, <1>2, SMTT(30) DEF IInv, SubstreamInv, Active, TargetAgrees
<1> SUFFICES ASSUME NEW x \in Peer, NEW q \in active'[x]
             PROVE  pending_inbound[q] # "none" \/ \E u \in SubstreamId : pending_outbound'[u] = q
  BY Zenon DEF HasFuture
<1>4. CASE q = r
  BY <1>1, <1>4, Zenon
<1>5. CASE q # r
  <2>1. q \in active[x] /\ q \in RequestId
    BY <1>1, <1>5, Zenon
  <2> QED BY <1>1, <1>2, <1>3, <2>1, ZenonT(30) DEF HasFuture
<1> QED BY <1>4, <1>5, Zenon

(* Whatever opens, fails or closes, an active request keeps a substream or *)
(* a future.                                                               *)
LEMMA HasFutureStep ==
  ASSUME IInv, HasFuture, Next
  PROVE  HasFuture'
PROOF
<1> USE DEF IInv
<1>1. ASSUME NEW p \in Peer, ConnectionEstablished(p) PROVE HasFuture'
  <2> DEFINE r == pending_dials[p]
  <2>1. UNCHANGED pending_inbound /\ active[p] = {} /\ r \in RequestId \cup {None}
    <3>1. UNCHANGED pending_inbound /\ sessions[p] = 0
      BY <1>1, Zenon DEF ConnectionEstablished
    <3>2. p \notin peers
      BY <3>1 DEF PeersConnected
    <3> QED BY <3>1, <3>2, Zenon DEF TypeOK
  <2>2. ASSUME NEW s \in SubstreamId, r # None, OpenSubstream(p, r, s),
               active' = [active EXCEPT ![p] = {r}]
        PROVE  HasFuture'
    BY <2>1, <2>2, OpenKeepsFutures, Zenon
  <2>3. CASE UNCHANGED <<pending_outbound, active>>
    BY <2>1, <2>3, Zenon DEF HasFuture
  <2> QED BY <1>1, <2>2, <2>3, Zenon DEF ConnectionEstablished, OpenFails
<1>2. CASE SendRequest
  <2> DEFINE r == Head(commands).request
  <2>1. UNCHANGED pending_inbound /\ r \in RequestId /\ target[r] \in Peer
    <3>1. Receive("send")
      BY <1>2, Zenon DEF SendRequest
    <3> QED BY <1>2, <3>1, ReceiveCommand, Zenon DEF SendRequest, TargetAgrees
  <2>2. ASSUME NEW s \in SubstreamId, OpenSubstream(target[r], r, s),
               active' = [active EXCEPT ![target[r]] = @ \cup {r}]
        PROVE  HasFuture'
    BY <2>1, <2>2, OpenKeepsFutures, Zenon
  <2>3. CASE UNCHANGED <<pending_outbound, active>>
    BY <2>1, <2>3, Zenon DEF HasFuture
  <2> QED BY <1>2, <2>2, <2>3, Zenon DEF SendRequest, OpenFails
<1>3. ASSUME NEW p \in Peer, ConnectionClosed(p) PROVE HasFuture'
  <2>1. /\ UNCHANGED pending_inbound
        /\ \A x \in Peer : \A q \in active'[x] : q \in active[x] /\ x # p
    BY <1>3, Zenon DEF ConnectionClosed, Dropped, TypeOK
  <2>2. \A s \in SubstreamId : target[pending_outbound[s]] # p =>
                                 pending_outbound'[s] = pending_outbound[s]
    BY <1>3, Zenon DEF ConnectionClosed, Retained
  <2> QED BY <2>1, <2>2, SMTT(30) DEF HasFuture, TargetAgrees
<1>4. ASSUME NEW s \in SubstreamId, SubstreamOpened(s) PROVE HasFuture'
  <2> DEFINE r == pending_outbound[s]
  <2>1. /\ pending_outbound' = [pending_outbound EXCEPT ![s] = None]
        /\ r \in RequestId /\ pending_inbound' = [pending_inbound EXCEPT ![r] = "sending"]
        /\ UNCHANGED active
    BY <1>4, SMTT(30) DEF SubstreamOpened, Service!Answer, SubstreamInv, TypeOK, contexts
  <2>2. /\ \A q \in RequestId : pending_inbound[q] # "none" \/ q = r => pending_inbound'[q] # "none"
        /\ \A u \in SubstreamId : u # s => pending_outbound'[u] = pending_outbound[u]
    BY <2>1, Zenon DEF TypeOK
  <2>3. \A x \in Peer : \A q \in active[x] : q \in RequestId
    BY Zenon DEF TypeOK
  <2> QED BY <2>1, <2>2, <2>3, SMTT(30) DEF HasFuture
<1>5. ASSUME NEW s \in SubstreamId, SubstreamOpenFailure(s) PROVE HasFuture'
  <2> DEFINE r == pending_outbound[s]
  <2>1. /\ pending_outbound' = [pending_outbound EXCEPT ![s] = None]
        /\ r \in RequestId /\ r # None /\ active' = [active EXCEPT ![target[r]] = @ \ {r}]
        /\ UNCHANGED pending_inbound
    BY <1>5, SMTT(30) DEF SubstreamOpenFailure, Failed, Service!Answer, SubstreamInv, TypeOK
  <2>2. \A x \in Peer : \A q \in active'[x] : q \in active[x] /\ q # r
    BY <2>1, SMTT(30) DEF TypeOK, TargetAgrees
  <2>3. \A u \in SubstreamId : u # s => pending_outbound'[u] = pending_outbound[u]
    BY <2>1, Zenon DEF TypeOK
  <2> QED BY <2>1, <2>2, <2>3, SMTT(30) DEF HasFuture
<1>6. ASSUME NEW p \in Peer, DialFailure(p) PROVE HasFuture'
  <2>1. UNCHANGED <<pending_outbound, pending_inbound>>
    BY <1>6, Zenon DEF DialFailure, outbound
  <2>2. \A x \in Peer : active'[x] \subseteq active[x]
    BY <1>6, Zenon DEF DialFailure, TypeOK
  <2> QED BY <2>1, <2>2, Zenon DEF HasFuture
<1>7. ASSUME NEW r \in RequestId, SubstreamEvent(r) PROVE HasFuture'
  <2>1. /\ pending_inbound' = [pending_inbound EXCEPT ![r] = "none"]
        /\ active' = [active EXCEPT ![target[r]] = @ \ {r}]
        /\ UNCHANGED pending_outbound
    BY <1>7, Zenon DEF SubstreamEvent
  <2>2. \A x \in Peer : \A q \in active'[x] : q \in active[x] /\ q # r
    BY <2>1, SMTT(30) DEF TypeOK, TargetAgrees
  <2>3. \A q \in RequestId : q # r => pending_inbound'[q] = pending_inbound[q]
    BY <2>1, Zenon DEF TypeOK
  <2>4. \A x \in Peer : \A q \in active[x] : q \in RequestId
    BY Zenon DEF TypeOK
  <2> QED BY <2>1, <2>2, <2>3, <2>4, ZenonT(30) DEF HasFuture
<1>8. ASSUME NEW r \in RequestId, RequestSent(r) PROVE HasFuture'
  <2>1. /\ UNCHANGED <<active, pending_outbound>>
        /\ \A q \in RequestId : pending_inbound[q] # "none" => pending_inbound'[q] # "none"
    BY <1>8, Zenon DEF RequestSent, contexts, TypeOK
  <2>2. \A x \in Peer : \A q \in active[x] : q \in RequestId
    BY Zenon DEF TypeOK
  <2> QED BY <2>1, <2>2, Zenon DEF HasFuture
<1>9. CASE UNCHANGED <<active, pending_outbound, pending_inbound>>
  BY <1>9, Zenon DEF HasFuture
<1>10. ASSUME NEW p \in Peer, InboundSubstream(p) \/ send_request(p) PROVE HasFuture'
  BY <1>9, <1>10, Zenon DEF InboundSubstream, send_request, contexts, outbound
<1>11. ASSUME NEW r \in RequestId,
              \/ InboundRequest(r) \/ ResponseSent(r)
              \/ cancel_request(r) \/ poll_next(r) \/ send_response(r)
       PROVE  HasFuture'
  BY <1>9, <1>11, Zenon DEF InboundRequest, ResponseSent, cancel_request, poll_next, send_response,
                     contexts, outbound
<1>12. CASE CancelRequest
  BY <1>9, <1>12, Zenon DEF CancelRequest, contexts
<1> QED
  BY <1>1, <1>2, <1>3, <1>4, <1>5, <1>6, <1>7, <1>8, <1>10, <1>11, <1>12, Zenon
  DEF Next, ServiceEvent, FutureStep, UserCommand, UserStep

(* The inbound requests of a context are being read. *)
LEMMA BeingReadStep ==
  ASSUME IInv, BeingRead, Next
  PROVE  BeingRead'
PROOF
<1>1. ASSUME NEW p \in Peer, ConnectionClosed(p) PROVE BeingRead'
  BY <1>1, Zenon DEF ConnectionClosed, Dropped, inbound, IInv, TypeOK, BeingRead
<1>2. ASSUME NEW p \in Peer, InboundSubstream(p) PROVE BeingRead'
  <2> DEFINE n == next_request_id
  <2>1. CASE p \in peers
    <3>1. /\ active_inbound' = [active_inbound EXCEPT ![p] = active_inbound[p] \cup {n}]
          /\ pending_inbound_requests' = pending_inbound_requests \cup {n}
      BY <1>2, <2>1, Zenon DEF InboundSubstream
    <3>2. \A x \in Peer : active_inbound'[x] \subseteq active_inbound[x] \cup {n}
      BY <3>1, Zenon DEF IInv, TypeOK
    <3> QED BY <3>1, <3>2, Zenon DEF BeingRead
  <2>2. CASE p \notin peers
    BY <1>2, <2>2, Zenon DEF InboundSubstream, BeingRead
  <2> QED BY <2>1, <2>2, Zenon
<1>3. ASSUME NEW r \in RequestId, InboundRequest(r) PROVE BeingRead'
  <2>1. /\ pending_inbound_requests' = pending_inbound_requests \ {r}
        /\ active_inbound' = [active_inbound EXCEPT ![target[r]] = @ \ {r}]
    BY <1>3, Zenon DEF InboundRequest
  <2>2. \A p \in Peer : \A q \in active_inbound'[p] : q \in active_inbound[p] /\ q # r
    BY <2>1 DEF IInv, InboundInv, TypeOK
  <2> QED BY <2>1, <2>2, Zenon DEF BeingRead
<1>4. CASE UNCHANGED <<active_inbound, pending_inbound_requests>>
  BY <1>4, Zenon DEF BeingRead
<1>5. ASSUME NEW p \in Peer, ConnectionEstablished(p) \/ DialFailure(p) \/ send_request(p)
      PROVE  BeingRead'
  BY <1>4, <1>5, Zenon DEF ConnectionEstablished, DialFailure, send_request, contexts, inbound
<1>6. ASSUME NEW s \in SubstreamId, SubstreamOpened(s) \/ SubstreamOpenFailure(s)
      PROVE  BeingRead'
  BY <1>4, <1>6, Zenon DEF SubstreamOpened, SubstreamOpenFailure, contexts, inbound
<1>7. ASSUME NEW r \in RequestId,
             \/ RequestSent(r) \/ SubstreamEvent(r) \/ ResponseSent(r)
             \/ cancel_request(r) \/ poll_next(r) \/ send_response(r)
      PROVE  BeingRead'
  BY <1>4, <1>7, Zenon DEF RequestSent, SubstreamEvent, ResponseSent, cancel_request, poll_next,
                    send_response, contexts, inbound
<1>8. CASE UserCommand
  BY <1>4, <1>8, Zenon DEF UserCommand, SendRequest, CancelRequest, contexts, inbound
<1> QED
  BY <1>1, <1>2, <1>3, <1>5, <1>6, <1>7, <1>8, Zenon DEF Next, ServiceEvent, FutureStep, UserStep

(* An active request is never forgotten: a substream or a future will end  *)
(* it; and the protocol knows only peers that are connected.               *)
THEOREM ActiveRequestIsPending == Spec => []ActiveIsPending
PROOF
<1> DEFINE Inv == HasFuture /\ BeingRead
<1>1. Init => Inv
  BY Zenon DEF Init, HasFuture, BeingRead
<1>2. IInv /\ Inv /\ [Next]_vars => Inv'
  <2> SUFFICES ASSUME IInv, Inv, [Next]_vars PROVE Inv'
    OBVIOUS
  <2>1. CASE Next
    BY <2>1, HasFutureStep, BeingReadStep, Zenon
  <2>2. CASE UNCHANGED vars
    BY <2>2, Zenon DEF vars, contexts, outbound, inbound, HasFuture, BeingRead
  <2> QED BY <2>1, <2>2, Zenon
<1>3. IInv /\ Inv => ActiveIsPending
  BY Zenon DEF IInv, PeersConnected, HasFuture, BeingRead, ActiveIsPending
<1> QED
  BY Invariance, <1>1, <1>2, <1>3, PTL DEF Spec

-----------------------------------------------------------------------------
(* The sum that on_inbound_substream compares with its maximum. *)
InboundCounted ==
  max_concurrent_inbound_requests # None =>
    Cardinality(pending_inbound_requests) + Cardinality(pending_outbound_responses)
      <= max_concurrent_inbound_requests

(* Both sets are finite. *)
LEMMA InboundIsFinite ==
  ASSUME TypeOK
  PROVE  /\ IsFiniteSet(pending_inbound_requests) /\ IsFiniteSet(pending_outbound_responses)
         /\ Cardinality(pending_inbound_requests) \in Nat
         /\ Cardinality(pending_outbound_responses) \in Nat
PROOF
<1>1. IsFiniteSet(RequestId)
  BY RequestBounds, FS_Interval DEF RequestId
<1>2. /\ pending_inbound_requests \in SUBSET RequestId
      /\ pending_outbound_responses \in SUBSET RequestId
  BY Zenon DEF TypeOK
<1>3. IsFiniteSet(pending_inbound_requests) /\ IsFiniteSet(pending_outbound_responses)
  BY <1>1, <1>2, FS_Subset, Zenon
<1> QED BY <1>3, FS_CardinalityType, Zenon

(* Only on_inbound_substream adds to the sum, below the maximum. *)
LEMMA InboundCountedStep ==
  ASSUME TypeOK, InboundCounted, Next
  PROVE  InboundCounted'
PROOF
<1> DEFINE reads == pending_inbound_requests
           responses == pending_outbound_responses
           max == max_concurrent_inbound_requests
<1>1. /\ IsFiniteSet(reads) /\ IsFiniteSet(responses)
      /\ Cardinality(reads) \in Nat /\ Cardinality(responses) \in Nat
  BY InboundIsFinite, Zenon
<1>2. max # None => max \in Nat
  BY RequestBounds, Zenon
<1>3. ASSUME NEW r, reads' = reads \cup {r}, responses' = responses,
             max # None => Cardinality(reads) + Cardinality(responses) < max
      PROVE  InboundCounted'
  <2>1. Cardinality(reads') \in {Cardinality(reads), Cardinality(reads) + 1}
    BY <1>1, <1>3, FS_AddElement, Zenon
  <2> QED BY <1>1, <1>2, <1>3, <2>1 DEF InboundCounted
<1>4. ASSUME NEW p \in Peer, InboundSubstream(p) PROVE InboundCounted'
  <2>1. max # None => Cardinality(reads) + Cardinality(responses) < max
    BY <1>1, <1>2, <1>4, SMTT(30) DEF InboundSubstream, AtMaximum
  <2>2. CASE p \in peers
    BY <1>3, <1>4, <2>1, <2>2, Zenon DEF InboundSubstream
  <2>3. CASE p \notin peers
    BY <1>4, <2>3, Zenon DEF InboundSubstream, InboundCounted
  <2> QED BY <2>2, <2>3, Zenon
<1>5. ASSUME NEW r \in RequestId, InboundRequest(r) PROVE InboundCounted'
  <2>1. Cardinality(reads') = Cardinality(reads) - 1
    <3>1. reads' = reads \ {r} /\ r \in reads
      BY <1>5, Zenon DEF InboundRequest
    <3> QED BY <1>1, <3>1, FS_RemoveElement, Zenon
  <2>2. Cardinality(responses') \in {Cardinality(responses), Cardinality(responses) + 1}
    BY <1>1, <1>5, FS_AddElement, Zenon DEF InboundRequest
  <2> QED BY <1>1, <1>2, <2>1, <2>2 DEF InboundCounted
<1>6. ASSUME NEW r \in RequestId, ResponseSent(r) PROVE InboundCounted'
  <2>1. Cardinality(responses') = Cardinality(responses) - 1 /\ reads' = reads
    <3>1. responses' = responses \ {r} /\ r \in responses /\ reads' = reads
      BY <1>6, Zenon DEF ResponseSent
    <3> QED BY <1>1, <3>1, FS_RemoveElement, Zenon
  <2> QED BY <1>1, <1>2, <2>1 DEF InboundCounted
<1>7. CASE UNCHANGED <<pending_inbound_requests, pending_outbound_responses>>
  <2>1. reads' = reads /\ responses' = responses
    BY <1>7, Zenon
  <2> QED BY <2>1, Zenon DEF InboundCounted
<1>8. ASSUME NEW p \in Peer,
             \/ ConnectionEstablished(p) \/ ConnectionClosed(p) \/ DialFailure(p)
             \/ send_request(p)
      PROVE  InboundCounted'
  <2>1. UNCHANGED <<pending_inbound_requests, pending_outbound_responses>>
    BY <1>8, Zenon DEF ConnectionEstablished, ConnectionClosed, DialFailure, send_request, inbound
  <2> QED BY <1>7, <2>1, Zenon
<1>9. ASSUME NEW s \in SubstreamId, SubstreamOpened(s) \/ SubstreamOpenFailure(s)
      PROVE  InboundCounted'
  <2>1. UNCHANGED <<pending_inbound_requests, pending_outbound_responses>>
    BY <1>9, Zenon DEF SubstreamOpened, SubstreamOpenFailure, inbound
  <2> QED BY <1>7, <2>1, Zenon
<1>10. ASSUME NEW r \in RequestId,
              \/ RequestSent(r) \/ SubstreamEvent(r)
              \/ cancel_request(r) \/ poll_next(r) \/ send_response(r)
       PROVE  InboundCounted'
  <2>1. UNCHANGED <<pending_inbound_requests, pending_outbound_responses>>
    BY <1>10, Zenon DEF RequestSent, SubstreamEvent, cancel_request, poll_next,
      send_response, inbound
  <2> QED BY <1>7, <2>1, Zenon
<1>11. CASE UserCommand
  BY <1>7, <1>11, Zenon DEF UserCommand, SendRequest, CancelRequest, inbound
<1> QED
  BY <1>4, <1>5, <1>6, <1>8, <1>9, <1>10, <1>11, Zenon DEF Next, ServiceEvent, FutureStep, UserStep

(* on_inbound_substream keeps the requests that are read or answered at    *)
(* most max_concurrent_inbound_requests.                                   *)
THEOREM InboundIsBounded == Spec => []InboundBounded
PROOF
<1>1. Init => InboundCounted
  <2> SUFFICES ASSUME Init, max_concurrent_inbound_requests # None
               PROVE  Cardinality(pending_inbound_requests) + Cardinality(pending_outbound_responses)
                        <= max_concurrent_inbound_requests
    BY Zenon DEF InboundCounted
  <2>1. Cardinality(pending_inbound_requests) = 0 /\ Cardinality(pending_outbound_responses) = 0
    BY FS_EmptySet, Zenon DEF Init
  <2> QED BY <2>1, RequestBounds
<1>2. TypeOK /\ InboundCounted /\ [Next]_vars => InboundCounted'
  <2> SUFFICES ASSUME TypeOK, InboundCounted, UNCHANGED vars PROVE InboundCounted'
    BY InboundCountedStep, Zenon
  <2> QED BY Zenon DEF vars, inbound, InboundCounted
<1>3. TypeOK /\ InboundCounted => InboundBounded
  <2> SUFFICES ASSUME TypeOK, InboundCounted PROVE InboundBounded
    OBVIOUS
  <2> DEFINE both == pending_inbound_requests \cap pending_outbound_responses
  <2>1. /\ IsFiniteSet(pending_inbound_requests) /\ IsFiniteSet(pending_outbound_responses)
        /\ Cardinality(pending_inbound_requests) \in Nat
        /\ Cardinality(pending_outbound_responses) \in Nat
    BY InboundIsFinite, Zenon
  <2>2. Cardinality(both) \in Nat
    <3>1. both \in SUBSET pending_inbound_requests
      OBVIOUS
    <3>2. IsFiniteSet(both)
      BY <2>1, <3>1, FS_Subset, Zenon
    <3> QED BY <3>2, FS_CardinalityType, Zenon
  <2>3. Cardinality(pending_inbound_requests \cup pending_outbound_responses)
          = Cardinality(pending_inbound_requests) + Cardinality(pending_outbound_responses)
              - Cardinality(both)
    BY <2>1, FS_Union, Zenon
  <2>4. max_concurrent_inbound_requests # None => max_concurrent_inbound_requests \in Nat
    BY RequestBounds, Zenon
  <2> HIDE DEF both
  <2> QED BY <2>1, <2>2, <2>3, <2>4 DEF InboundCounted, InboundBounded
<1> QED
  BY TypeCorrect, <1>1, <1>2, <1>3, PTL DEF Spec
=============================================================================
