----------------------- MODULE TransportManagerProofs -----------------------
(***************************************************************************)
(* IInv is an invariant of TransportManager, and the properties that follow *)
(* from it.                                                                *)
(***************************************************************************)
EXTENDS TransportManagerEventProofs, FiniteSetTheorems

(* The task of an accepted connection goes on. *)
LEMMA TaskInv ==
  ASSUME IInv, NEW c \in ConnectionId, AcceptCompleted(c) \/ CloseConnection(c)
  PROVE  IInv'
  <1> USE NoneNotId
  <1>0. /\ UnallocatedUnused /\ DialRecordUnaccepted /\ SecondaryDistinct /\ AcceptedHasRemote
        /\ EstablishedOnce /\ DialingNotOpening /\ OpeningAttempted /\ PendingIsDialed
        /\ ConnectionsAccounted /\ LimitsCounted /\ OpenAttemptTracked /\ DialAttemptTracked
        /\ OpeningErrorsComplete /\ UserView
    BY Zenon DEF IInv
  <1>1. /\ UNCHANGED <<peers, addresses, pending_connections, opening_errors,
                       connection_limits, commands, transports, remote, listener,
                       next_connection_id, panicked>>
        /\ task[c] \in {"accepting", "running"}
        /\ task' \in [ConnectionId -> Task]
        /\ \A d \in ConnectionId : d # c => task'[d] = task[d]
        /\ task'[c] \in {"running", "closing"}
        /\ remote[c] \in Peer
    <2>1. task \in [ConnectionId -> Task]
      BY Zenon DEF IInv, TypeOK
    <2>2. /\ UNCHANGED <<peers, addresses, pending_connections, opening_errors,
                         connection_limits, commands, transports, remote, listener,
                         next_connection_id, panicked>>
          /\ \/ task[c] = "accepting" /\ task' = [task EXCEPT ![c] = "running"]
             \/ task[c] = "running" /\ task' = [task EXCEPT ![c] = "closing"]
      BY Zenon DEF AcceptCompleted, CloseConnection, pending
    <2>3. remote[c] \in Peer
      <3>1. task[c] # "none"
        BY <2>2, Zenon
      <3> QED BY <1>0, <3>1, DialTyping, Zenon DEF IInv, AcceptedHasRemote, DialsTyped
    <2>4. CASE task[c] = "accepting" /\ task' = [task EXCEPT ![c] = "running"]
      BY <2>1, <2>2, <2>3, <2>4, Zenon DEF Task
    <2>5. CASE task[c] = "running" /\ task' = [task EXCEPT ![c] = "closing"]
      BY <2>1, <2>2, <2>3, <2>5, Zenon DEF Task
    <2> QED BY <2>2, <2>4, <2>5, Zenon
  <1>2. /\ connected' \subseteq Peer /\ awaiting' \subseteq Peer
        /\ connected' = connected \cup {remote[c]}
    <2>1. CASE AcceptCompleted(c)
      BY <2>1, <1>1, Zenon DEF AcceptCompleted, IInv, TypeOK
    <2>2. CASE CloseConnection(c)
      BY <2>2, <1>0, <1>1, SMTT(30) DEF CloseConnection, history, IInv, TypeOK, UserView, Live
    <2>3. QED
      BY <2>1, <2>2, Zenon
  <1>3. TypeOK'
    BY <1>1, <1>2, Zenon DEF IInv, TypeOK
  <1>4. Live' = Live /\ c \in Live /\ Live \subseteq ConnectionId
    BY <1>1, Zenon DEF Live
  <1>5. UnallocatedUnused' /\ AcceptedHasRemote' /\ DialRecordUnaccepted'
    BY <1>0, <1>1, DialTyping, SMTT(30)
    DEF UnallocatedUnused, AcceptedHasRemote, DialRecordUnaccepted, Allocated, DialsTyped, IInv
  <1>6. EstablishedOnce'
    BY <1>0, <1>1, SMTT(30) DEF EstablishedOnce
  <1>7. UserView'
    BY <1>0, <1>1, <1>2, <1>4, Zenon DEF UserView
  <1>8. QED
    BY <1>0, <1>1, <1>3, <1>4, <1>5, <1>6, <1>7, SMTT(30)
    DEF IInv, SecondaryDistinct, DialingNotOpening, OpeningAttempted, PendingIsDialed,
        ConnectionsAccounted, LimitsCounted, OpenAttemptTracked, DialAttemptTracked,
        OpeningErrorsComplete

(* on_connection_closed keeps the invariant. *)
LEMMA ConnectionClosedInv ==
  ASSUME IInv, NEW c \in ConnectionId, ConnectionClosed(c)
  PROVE  IInv'
  <1> DEFINE p == remote[c]
             s == peers[p]
             r == State!on_connection_closed(s, c)
             last == State!last_connection_closed(s, c)
  <1> USE NoneNotId
  <1>0. /\ UnallocatedUnused /\ DialRecordUnaccepted /\ SecondaryDistinct /\ AcceptedHasRemote
        /\ EstablishedOnce /\ DialingNotOpening /\ OpeningAttempted /\ PendingIsDialed
        /\ ConnectionsAccounted /\ LimitsCounted /\ OpenAttemptTracked /\ DialAttemptTracked
        /\ OpeningErrorsComplete /\ UserView
    BY Zenon DEF IInv
  <1>1. DialsTyped
    BY DialTyping, Zenon DEF IInv
  <1>2. /\ task[c] = "closing" /\ c \in Live /\ Live \subseteq ConnectionId
        /\ p \in Peer /\ s \in PeerStates
        /\ c \in State!Connections(s)
    BY <1>0, <1>1, Zenon DEF ConnectionClosed, Live, AcceptedHasRemote, DialsTyped, ConnectionsAccounted
  <1>3. s.kind = "Connected" /\ s.record # s.secondary
    <2>1. s.kind = "Connected" /\ s.record # None
      BY <1>2, StateFields, Zenon DEF PeerStates, State!States, State!WellFormed
    <2>2. QED
      BY <2>1, <1>0, <1>2, Zenon DEF SecondaryDistinct
  <1>4. /\ peers' = [peers EXCEPT ![p] = r]
        /\ r \in PeerStates /\ r.kind # "Opening" /\ r.dial = s.dial
        /\ State!Connections(r) = State!Connections(s) \ {c}
        /\ r.secondary # None => r.secondary = s.secondary /\ r.record = s.record
        /\ last <=> State!Connections(r) = {}
    <2>1. /\ r \in PeerStates /\ r.kind # "Opening" /\ r.dial = s.dial
          /\ State!Connections(r) = State!Connections(s) \ {c}
          /\ r.secondary # None => r.secondary = s.secondary /\ r.record = s.record
          /\ r.kind = "Connected" <=> ~last
      BY <1>2, <1>3, ClosedState, Zenon
    <2>2. QED
      BY <2>1, StateFields, Zenon DEF ConnectionClosed
  <1>5. /\ UNCHANGED <<addresses, pending_connections, opening_errors, commands, transports,
                       remote, listener, next_connection_id, panicked, awaiting>>
        /\ task' \in [ConnectionId -> Task]
        /\ \A d \in ConnectionId : task'[d] = IF d = c THEN "closed" ELSE task[d]
        /\ connected' = IF last THEN connected \ {p} ELSE connected
    BY Zenon DEF ConnectionClosed, pending, IInv, TypeOK, Task
  <1> HIDE DEF r, last
  <1>6. Live' = Live \ {c}
    BY <1>5, Zenon DEF Live
  <1>7. /\ peers'[p] = r
        /\ \A q \in Peer : q # p => peers'[q] = peers[q]
    BY <1>2, <1>4, Zenon DEF IInv, TypeOK
  <1>8. /\ connection_limits' \in [incoming_connections : SUBSET ConnectionId,
                                   outgoing_connections : SUBSET ConnectionId]
        /\ LimitsCounted'
    <2>1. /\ connection_limits \in [incoming_connections : SUBSET ConnectionId,
                                    outgoing_connections : SUBSET ConnectionId]
          /\ connection_limits' = Limits!on_connection_closed(connection_limits, c)
      BY Zenon DEF IInv, TypeOK, ConnectionClosed
    <2>2. QED
      BY <2>1, <1>0, <1>5, <1>6, Zenon DEF Limits!on_connection_closed, LimitsCounted
  <1>9. TypeOK'
    BY Zenon, <1>4, <1>5, <1>8 DEF IInv, TypeOK, PeerStates
  <1>10. ConnectionsAccounted'
    BY <1>0, <1>2, <1>4, <1>5, <1>6, <1>7, SMTT(30) DEF ConnectionsAccounted
  <1>11. UserView'
    <2>1. \A q \in Peer : {d \in Live' : remote[d] = q} = State!Connections(peers'[q])
      BY <1>5, <1>10, Zenon DEF ConnectionsAccounted
    <2>2. /\ last => ~\E d \in Live' : remote[d] = p
          /\ ~last => \E d \in Live' : remote[d] = p
      BY <2>1, <1>2, <1>4, <1>7, SMTT(30)
    <2>3. connected \subseteq Peer
      BY Zenon DEF IInv, TypeOK
    <2>4. QED
      BY <2>2, <2>3, <1>0, <1>2, <1>5, <1>6, Zenon DEF UserView
  <1>12. UnallocatedUnused' /\ AcceptedHasRemote'
    BY <1>0, <1>2, <1>5, Zenon DEF UnallocatedUnused, AcceptedHasRemote, Allocated
  <1>13. DialRecordUnaccepted' /\ SecondaryDistinct'
    BY <1>0, <1>1, <1>2, <1>4, <1>5, <1>7, SMTT(30)
    DEF DialRecordUnaccepted, SecondaryDistinct, Allocated, DialsTyped
  <1>14. EstablishedOnce'
    BY <1>0, <1>2, <1>5, SMTT(30) DEF EstablishedOnce
  <1>15. DialingNotOpening' /\ DialAttemptTracked'
    BY <1>0, <1>1, <1>3, <1>4, <1>5, <1>7, SMTT(30) DEF DialingNotOpening, DialAttemptTracked, DialsTyped
  <1>16. OpeningAttempted' /\ OpeningErrorsComplete'
    BY <1>0, <1>4, <1>5, <1>7, SMTT(30) DEF OpeningAttempted, OpeningErrorsComplete
  <1>17. PendingIsDialed' /\ OpenAttemptTracked'
    BY <1>0, <1>1, <1>3, <1>4, <1>5, <1>7, SMTT(30) DEF PendingIsDialed, OpenAttemptTracked, DialsTyped
  <1>18. QED
    BY <1>8, <1>9, <1>10, <1>11, <1>12, <1>13, <1>14, <1>15, <1>16, <1>17, ZenonT(30) DEF IInv

(* The steps that only move addresses, commands or the history. *)
LEMMA BookkeepingInv ==
  ASSUME IInv, UNCHANGED <<peers, pending, connection_limits, network, panicked, connected>>,
         addresses' \in [Peer -> SUBSET DialTransport],
         commands' \in Seq(Command), awaiting' \subseteq Peer
  PROVE  IInv'
  <1>1. TypeOK'
    BY Zenon DEF IInv, TypeOK, pending, network
  <1>2. UserView'
    BY Zenon DEF IInv, UserView, Live, network
  <1>3. QED
    BY <1>1, <1>2, BookkeepingUnchanged, Zenon

(* dial and dial_address, as the transport manager takes them, keep the    *)
(* invariant.                                                              *)
LEMMA DialStepInv == IInv /\ DialStep => IInv'
  <1> SUFFICES ASSUME IInv, DialStep PROVE IInv'
    OBVIOUS
  <1>1. /\ addresses \in [Peer -> SUBSET DialTransport]
        /\ commands \in Seq(Command) /\ awaiting \subseteq Peer
    BY Zenon DEF IInv, TypeOK
  <1>2. PICK p \in Peer :
          \/ Dial(p) \/ HandleDial(p)
          \/ \E t \in DialTransport :
               add_known_address(p, t) \/ DialAddress(p, t) \/ HandleDialAddress(p, t)
    BY Zenon DEF DialStep
  <1>3. \A a \in DialTransport \cup {None} :
          Append(commands, [peer |-> p, address |-> a]) \in Seq(Command)
    BY <1>1 DEF Command
  <1>4. CASE dial_in_progress(p) /\ UNCHANGED commands
    BY <1>1, <1>4, BookkeepingInv, Zenon DEF dial_in_progress
  <1>5. ASSUME NEW ts \in Selections(p), dial_opens(p, ts), UNCHANGED commands PROVE IInv'
    BY <1>1, <1>5, DialOpensInv, Zenon
  <1>6. CASE Dial(p)
    BY <1>4, <1>5, <1>6, Zenon DEF Dial, dial
  <1>7. CASE HandleDial(p)
    <2>1. commands' \in Seq(Command)
      BY <1>1, <1>3, <1>7, Zenon DEF HandleDial
    <2>2. QED
      BY <2>1, <1>1, <1>7, BookkeepingInv, Zenon DEF HandleDial
  <1>8. ASSUME NEW t \in DialTransport, add_known_address(p, t) PROVE IInv'
    <2>1. addresses' \in [Peer -> SUBSET DialTransport]
      BY <1>1, <1>8, Zenon DEF add_known_address
    <2>2. QED
      BY <2>1, <1>1, <1>8, BookkeepingInv, Zenon DEF add_known_address, history
  <1>9. ASSUME NEW t \in DialTransport, DialAddress(p, t) PROVE IInv'
    BY <1>1, <1>9, DialAddressInv, Zenon DEF DialAddress
  <1>10. ASSUME NEW t \in DialTransport, HandleDialAddress(p, t) PROVE IInv'
    BY <1>1, <1>3, <1>10, BookkeepingInv, Zenon DEF HandleDialAddress, history
  <1>11. QED
    BY <1>2, <1>6, <1>7, <1>8, <1>9, <1>10, ZenonT(30)

(* A command of a handle keeps the invariant. *)
LEMMA ProcessCommandInv == IInv /\ ProcessCommand => IInv'
  <1> SUFFICES ASSUME IInv, ProcessCommand PROVE IInv'
    OBVIOUS
  <1> DEFINE p == Head(commands).peer
             t == Head(commands).address
  <1>1. /\ addresses \in [Peer -> SUBSET DialTransport]
        /\ commands \in Seq(Command) /\ commands # <<>> /\ awaiting \subseteq Peer
        /\ commands' = Tail(commands)
    BY Zenon DEF IInv, TypeOK, ProcessCommand
  <1>2. p \in Peer /\ t \in DialTransport \cup {None} /\ commands' \in Seq(Command)
    <2>1. Head(commands) \in Command /\ Tail(commands) \in Seq(Command)
      BY <1>1
    <2>2. QED
      BY <2>1, <1>1, Zenon DEF Command
  <1>3. \/ dial(p)
        \/ t \in DialTransport /\ dial_address(p, t)
        \/ UNCHANGED <<peers, addresses, pending, connection_limits, network, panicked, history>>
    BY <1>2, Zenon DEF ProcessCommand
  <1> HIDE DEF p, t
  <1>4. CASE dial_in_progress(p)
    BY <1>1, <1>2, <1>4, BookkeepingInv, Zenon DEF dial_in_progress
  <1>5. ASSUME NEW ts \in Selections(p), dial_opens(p, ts) PROVE IInv'
    BY <1>2, <1>5, DialOpensInv, Zenon
  <1>6. CASE t \in DialTransport /\ dial_address(p, t)
    BY <1>2, <1>6, DialAddressInv, Zenon
  <1>7. CASE UNCHANGED <<peers, addresses, pending, connection_limits, network, panicked,
                         history>>
    BY <1>1, <1>2, <1>7, BookkeepingInv, Zenon DEF history
  <1>8. QED
    BY <1>3, <1>4, <1>5, <1>6, <1>7, Zenon DEF dial

(* Every step preserves the inductive invariant. *)
LEMMA NextInv == IInv /\ [Next]_vars => IInv'
  <1>1. IInv /\ TransportStep => IInv'
    BY NewInboundInv, DialFailureInv, ConnectionOpenedInv, OpenFailureInv, SocketDroppedInv,
       RejectConnectionInv, AcceptConnectionInv, AcceptFailureInv, Zenon
    DEF TransportStep, TransportResult
  <1>2. IInv /\ ConnectionStep => IInv'
    BY TaskInv, ConnectionClosedInv, Zenon DEF ConnectionStep
  <1>3. IInv /\ UNCHANGED vars => IInv'
    <2>1. IInv => /\ addresses \in [Peer -> SUBSET DialTransport]
                  /\ commands \in Seq(Command) /\ awaiting \subseteq Peer
      BY Zenon DEF IInv, TypeOK
    <2>2. QED
      BY <2>1, BookkeepingInv, Zenon DEF vars, history
  <1>4. QED
    BY <1>1, <1>2, <1>3, DialStepInv, ProcessCommandInv, Zenon DEF Next

-----------------------------------------------------------------------------
(* The inductive invariant holds in every reachable state. *)
THEOREM Invariance == Spec => []IInv
  BY InitInv, NextInv, PTL DEF Spec

(* Type correctness. *)
THEOREM TypeCorrectness == Spec => []TypeOK
  BY Invariance, PTL DEF IInv

(* The peer states account for exactly the live connections, whatever the  *)
(* interleaving of dials, inbound connections, failures and closes.        *)
THEOREM ConnectionAccounting == Spec => []ConnectionsAccounted
  BY Invariance, PTL DEF IInv

(* An open attempt that was not cancelled finds its dial: the race that    *)
(* the comment in on_connection_established worries about cannot happen.   *)
THEOREM OpenAttemptTracking == Spec => []OpenAttemptTracked
  BY Invariance, PTL DEF IInv

(* Dials and negotiations are pending for the peer of their address. *)
THEOREM DialAttemptTracking == Spec => []DialAttemptTracked
  BY Invariance, PTL DEF IInv

(* A pending connection is the dial of its peer. *)
THEOREM PendingDials == Spec => []PendingIsDialed
  BY Invariance, PTL DEF IInv

(* The errors reported with a failed dial name all of its addresses. *)
THEOREM OpeningErrors == Spec => []OpeningErrorsComplete
  BY Invariance, PTL DEF IInv

(* The user's view of which peers are connected agrees with the manager's. *)
THEOREM UserViewAgrees == Spec => []UserView
  BY Invariance, PTL DEF IInv

(* The limits count the live connections of their direction. *)
THEOREM LimitCounting == Spec => []LimitsCounted
  BY Invariance, PTL DEF IInv

(* What the limits count is finite and within the maximum. *)
Counted(S, max) == IsFiniteSet(S) /\ (max # None => Cardinality(S) <= max)

WithinLimits ==
  /\ Counted(connection_limits.incoming_connections, max_incoming_connections)
  /\ Counted(connection_limits.outgoing_connections, max_outgoing_connections)

(* The limits count with the Cardinality of this module. *)
LEMMA SameCardinality == \A S : Limits!Cardinality(S) = Cardinality(S)
  BY Zenon DEF Limits!Cardinality, Cardinality

(* A connection is counted only below the maximum. *)
LEMMA CountOneMore ==
  ASSUME NEW S, NEW max \in Nat \cup {None}, NEW c, Counted(S, max), ~Limits!Exceeded(S, max)
  PROVE  Counted(S \cup {c}, max)
  <1>1. /\ IsFiniteSet(S) /\ IsFiniteSet(S \cup {c}) /\ Cardinality(S) \in Nat
        /\ Cardinality(S \cup {c}) = IF c \in S THEN Cardinality(S) ELSE Cardinality(S) + 1
    BY FS_AddElement, FS_CardinalityType, Zenon DEF Counted
  <1>2. CASE max = None
    BY <1>1, <1>2, Zenon DEF Counted
  <1>3. CASE max \in Nat /\ max # None
    <2>1. Cardinality(S) <= max /\ ~(Cardinality(S) >= max)
      BY Zenon, <1>3, SameCardinality DEF Counted, Limits!Exceeded
    <2>2. QED
      BY <1>1, <1>3, <2>1, SMTT(30) DEF Counted
  <1>4. QED
    BY <1>2, <1>3, Zenon

(* A connection that is given back leaves no more than there were. *)
LEMMA CountOneLess ==
  ASSUME NEW S, NEW max \in Nat \cup {None}, NEW c, Counted(S, max)
  PROVE  Counted(S \ {c}, max)
  <1>1. IsFiniteSet(S) /\ IsFiniteSet(S \ {c}) /\ Cardinality(S) \in Nat
    BY FS_RemoveElement, FS_CardinalityType, Zenon DEF Counted
  <1>2. Cardinality(S \ {c}) \in Nat /\ Cardinality(S \ {c}) <= Cardinality(S)
    BY <1>1, FS_Subset, FS_CardinalityType, Zenon
  <1>3. QED
    BY <1>1, <1>2, NoneAssumption, SMTT(30) DEF Counted

(* The fields of a record of limits. *)
LEMMA LimitsFields ==
  \A S, T : LET l == [incoming_connections |-> S, outgoing_connections |-> T] IN
    l.incoming_connections = S /\ l.outgoing_connections = T
  OBVIOUS

(* What an accepted connection does to the limits: it passed              *)
(* can_accept_connection in the step that counts it.                       *)
LEMMA AcceptWithinLimits ==
  ASSUME IInv, WithinLimits, NEW t \in Installed, NEW c \in ConnectionId, NEW p \in Peer,
         Accepts(t, c, p)
  PROVE  LET l == Limits!accept_established_connection(connection_limits, c, is_listener(t, c)) IN
         /\ Counted(l.incoming_connections, max_incoming_connections)
         /\ Counted(l.outgoing_connections, max_outgoing_connections)
  <1> DEFINE inc == connection_limits.incoming_connections
             out == connection_limits.outgoing_connections
  <1>1. connection_limits = [incoming_connections |-> inc, outgoing_connections |-> out]
    BY Zenon DEF IInv, TypeOK
  <1>2. Counted(inc, max_incoming_connections) /\ Counted(out, max_outgoing_connections)
    BY Zenon DEF WithinLimits
  <1>3. CASE is_listener(t, c)
    <2>1. ~Limits!Exceeded(inc, max_incoming_connections)
      BY <1>3, Zenon DEF Accepts, Limits!can_accept_connection, Limits!on_incoming
    <2>2. Counted(inc \cup {c}, max_incoming_connections)
      BY Zenon, <1>2, <2>1, CountOneMore, LimitAssumption
    <2>3. QED
      BY <1>1, <1>2, <1>3, <2>2, Zenon DEF Limits!accept_established_connection
  <1>4. CASE ~is_listener(t, c)
    <2>1. ~Limits!Exceeded(out, max_outgoing_connections)
      BY <1>4, Zenon DEF Accepts, Limits!can_accept_connection, Limits!on_dial_address
    <2>2. Counted(out \cup {c}, max_outgoing_connections)
      BY Zenon, <1>2, <2>1, CountOneMore, LimitAssumption
    <2>3. QED
      BY <1>1, <1>2, <1>4, <2>2, Zenon DEF Limits!accept_established_connection
  <1>5. QED
    BY <1>3, <1>4, Zenon

(* The configured maxima hold for every number of dials and handshakes     *)
(* that passed the early checks together.                                  *)
THEOREM LimitsHold == Spec => []LimitsRespected
  <1>1. Init => WithinLimits
    <2>1. Counted({}, max_incoming_connections) /\ Counted({}, max_outgoing_connections)
      BY FS_EmptySet, LimitAssumption, NoneAssumption, SMTT(30) DEF Counted
    <2>2. QED
      BY <2>1, SMTT(30) DEF Init, WithinLimits, Limits!new
  <1>2. IInv /\ WithinLimits /\ [Next]_vars => WithinLimits'
    <2> SUFFICES ASSUME IInv, WithinLimits, [Next]_vars PROVE WithinLimits'
      OBVIOUS
    <2>1. ASSUME connection_limits' = connection_limits PROVE WithinLimits'
      BY <2>1, Zenon DEF WithinLimits, Counted
    <2>2. CASE DialStep
      BY ZenonT(30), <2>1, <2>2 DEF DialStep, Dial, dial, dial_in_progress, dial_opens, DialAddress,
         dial_address, HandleDial, HandleDialAddress, add_known_address
    <2>3. CASE ProcessCommand
      BY Zenon, <2>1, <2>3 DEF ProcessCommand, dial, dial_in_progress, dial_opens, dial_address
    <2>4. ASSUME NEW c \in ConnectionId, ConnectionClosed(c) PROVE WithinLimits'
      BY Zenon, <2>4, CountOneLess, LimitAssumption, LimitsFields
      DEF ConnectionClosed, WithinLimits, Limits!on_connection_closed
    <2>5. CASE ConnectionStep
      BY Zenon, <2>1, <2>4, <2>5 DEF ConnectionStep, AcceptCompleted, CloseConnection
    <2>6. ASSUME NEW t \in Installed, NEW c \in ConnectionId, NEW p \in Peer,
                 AcceptConnection(t, c, p)
          PROVE  WithinLimits'
      BY <2>6, AcceptWithinLimits, Zenon DEF AcceptConnection, Accepted, WithinLimits
    <2>7. ASSUME NEW t \in Installed, NEW c \in ConnectionId, NEW p \in Peer,
                 AcceptFailure(t, c, p)
          PROVE  WithinLimits'
      <3> DEFINE l == Limits!accept_established_connection(connection_limits, c,
                                                           is_listener(t, c))
      <3>1. /\ Counted(l.incoming_connections, max_incoming_connections)
            /\ Counted(l.outgoing_connections, max_outgoing_connections)
            /\ connection_limits' = Limits!on_connection_closed(l, c)
        BY <2>7, AcceptWithinLimits, Zenon DEF AcceptFailure, Accepted
      <3> HIDE DEF l
      <3>2. QED
        BY Zenon, <3>1, CountOneLess, LimitAssumption, LimitsFields DEF WithinLimits, Limits!on_connection_closed
    <2>8. ASSUME NEW t \in Installed, NEW c \in ConnectionId,
                 DialFailure(t, c) \/ ConnectionOpened(t, c) \/ OpenFailure(t, c)
                   \/ RawCanceled(t, c) \/ InboundFailure(t, c)
          PROVE  WithinLimits'
      BY Zenon, <2>1, <2>8 DEF DialFailure, ConnectionOpened, OpenFailure, RawCanceled,
         InboundFailure
    <2>9. ASSUME NEW t \in Installed, PendingInboundConnection(t) \/ WebRtcInbound(t)
          PROVE  WithinLimits'
      BY Zenon, <2>1, <2>9 DEF PendingInboundConnection, WebRtcInbound
    <2>10. ASSUME NEW t \in Installed, NEW c \in ConnectionId, NEW p \in Peer,
                  RejectConnection(t, c, p)
           PROVE  WithinLimits'
      BY Zenon, <2>1, <2>10 DEF RejectConnection
    <2>11. CASE TransportStep
      BY ZenonT(30), <2>6, <2>7, <2>8, <2>9, <2>10, <2>11 DEF TransportStep, TransportResult
    <2>12. CASE UNCHANGED vars
      BY <2>1, <2>12, Zenon DEF vars
    <2>13. QED
      BY Zenon, <2>2, <2>3, <2>5, <2>11, <2>12 DEF Next
  <1>3. IInv /\ WithinLimits => LimitsRespected
    BY Zenon DEF IInv, WithinLimits, Counted, LimitsCounted, LimitsRespected
  <1>4. QED
    BY <1>1, <1>2, <1>3, Invariance, PTL DEF Spec

(* With every transport installed that an address can name, no expect() of *)
(* the manager fails.                                                      *)
THEOREM PanicFreedom ==
  ASSUME DialTransport \subseteq Installed
  PROVE  Spec => []NoPanic
  <1>1. Init => NoPanic
    BY Zenon DEF Init, NoPanic
  <1>2. ASSUME IInv PROVE \A p \in Peer : ~CancelPanics(peers[p])
    BY <1>2, DialTyping, StateFields, Zenon DEF IInv, CancelPanics, DialsTyped
  <1>3. IInv /\ NoPanic /\ [Next]_vars => NoPanic'
    <2> SUFFICES ASSUME IInv, NoPanic, [Next]_vars PROVE panicked' = FALSE
      BY Zenon DEF NoPanic
    <2>1. panicked = FALSE
      BY Zenon DEF NoPanic, IInv, TypeOK
    <2>2. CASE DialStep
      BY Zenon, <2>1, <2>2 DEF DialStep, Dial, dial, dial_in_progress, dial_opens, DialAddress,
         dial_address, HandleDial, HandleDialAddress, add_known_address
    <2>3. CASE ProcessCommand
      BY Zenon, <2>1, <2>3 DEF ProcessCommand, dial, dial_in_progress, dial_opens, dial_address
    <2>4. CASE ConnectionStep
      BY <2>1, <2>4, Zenon DEF ConnectionStep, AcceptCompleted, CloseConnection, ConnectionClosed
    <2>5. ASSUME NEW t \in Installed, NEW c \in ConnectionId, ConnectionOpened(t, c)
          PROVE  panicked' = FALSE
      <3>1. \/ panicked' = panicked
            \/ panicked' = CancelPanics(peers[pending_connections[c]])
        BY Zenon, <2>5 DEF ConnectionOpened
      <3>2. transports[t][c] = "raw"
        BY Zenon, <2>5 DEF ConnectionOpened
      <3>3. pending_connections[c] \in Peer
        BY <3>2, OpenAttempt, Zenon
      <3>4. ~CancelPanics(peers[pending_connections[c]])
        BY Zenon, <3>3, <1>2
      <3>5. CancelPanics(peers[pending_connections[c]]) \in BOOLEAN
        BY Zenon DEF CancelPanics
      <3>6. QED
        BY <2>1, <3>1, <3>4, <3>5, Zenon
    <2>6. ASSUME NEW t \in Installed, NEW c \in ConnectionId, NEW p \in Peer, Accepted(t, c, p)
          PROVE  panicked' = FALSE
      BY Zenon, <2>6, <1>2 DEF Accepted, CancelPanics
    <2>7. ASSUME NEW t \in Installed, NEW c \in ConnectionId,
                 DialFailure(t, c) \/ OpenFailure(t, c) \/ RawCanceled(t, c)
                   \/ InboundFailure(t, c)
          PROVE  panicked' = FALSE
      BY Zenon, <2>1, <2>7 DEF DialFailure, OpenFailure, RawCanceled, InboundFailure
    <2>8. ASSUME NEW t \in Installed, PendingInboundConnection(t) \/ WebRtcInbound(t)
          PROVE  panicked' = FALSE
      BY <2>1, <2>8, Zenon DEF PendingInboundConnection, WebRtcInbound
    <2>9. ASSUME NEW t \in Installed, NEW c \in ConnectionId, NEW p \in Peer,
                 RejectConnection(t, c, p)
          PROVE  panicked' = FALSE
      BY <2>1, <2>9, Zenon DEF RejectConnection
    <2>10. CASE TransportStep
      BY ZenonT(30), <2>5, <2>6, <2>7, <2>8, <2>9, <2>10
      DEF TransportStep, TransportResult, AcceptConnection, AcceptFailure
    <2>11. CASE UNCHANGED vars
      BY <2>1, <2>11, Zenon DEF vars
    <2>12. QED
      BY ZenonT(30), <2>2, <2>3, <2>4, <2>10, <2>11 DEF Next
  <1>4. QED
    BY <1>1, <1>3, Invariance, PTL DEF Spec

(* An attempt works on the dial record of p. *)
Attempt(p) ==
  peers[p].dial # None =>
    /\ pending_connections[peers[p].dial] = p
    /\ \E t \in Installed :
         transports[t][peers[p].dial] \in {"raw", "dialing", "negotiated"}

Attempted == \A p \in Peer : Attempt(p)

(* No limit rejects the connection of a dial, and every address can be     *)
(* dialed.                                                                 *)
DialsUnlimited ==
  /\ max_outgoing_connections = None
  /\ max_incoming_connections = None \/ OpensAsListener = {}
  /\ DialTransport \subseteq Installed

(* A step that works on the connections C leaves the other dials alone. *)
LEMMA OtherAttempt ==
  ASSUME IInv, Attempted, NEW C, NEW q \in Peer,
         peers'[q].dial = peers[q].dial, peers[q].dial \notin C,
         \A d \in ConnectionId \ C :
           /\ pending_connections'[d] = pending_connections[d]
           /\ \A u \in Installed : transports'[u][d] = transports[u][d]
  PROVE  Attempt(q)'
  <1>1. peers[q].dial \in ConnectionId \cup {None}
    BY DialTyping, StateFields, Zenon DEF IInv, DialsTyped
  <1>2. CASE peers[q].dial = None
    BY Zenon, <1>2 DEF Attempt
  <1>3. CASE peers[q].dial \in ConnectionId /\ peers[q].dial # None
    <2>1. pending_connections'[peers[q].dial] = q
      BY Zenon, <1>3 DEF Attempted, Attempt
    <2>2. PICK t \in Installed :
            transports[t][peers[q].dial] \in {"raw", "dialing", "negotiated"}
      BY Zenon, <1>3 DEF Attempted, Attempt
    <2>3. transports'[t][peers[q].dial] = transports[t][peers[q].dial]
      BY Zenon, <1>3
    <2>4. QED
      BY <2>1, <2>2, <2>3, Zenon DEF Attempt
  <1>4. QED
    BY <1>1, <1>2, <1>3, Zenon

(* What IInv says of a dial record. *)
LEMMA DialRecord ==
  ASSUME IInv, NEW q \in Peer
  PROVE  /\ peers[q] \in PeerStates /\ peers[q].dial \in ConnectionId \cup {None}
         /\ peers[q].dial # None => /\ peers[q].dial \in Allocated
                                    /\ remote[peers[q].dial] = q
                                    /\ peers[q].dial \notin listener
  BY DialTyping, StateFields, Zenon DEF IInv, DialsTyped, DialRecordUnaccepted

(* A dial that opens addresses starts an attempt for each. *)
LEMMA DialOpensAttempted ==
  ASSUME IInv, Attempted, DialsUnlimited, NEW p \in Peer, NEW ts \in Selections(p),
         dial_opens(p, ts)
  PROVE  Attempted'
  <1> DEFINE c == next_connection_id
  <1>1. c \in ConnectionId \ Allocated /\ c < MaxConnections /\ None \notin ConnectionId
    BY Allocation, NoneNotId, Zenon DEF dial_opens
  <1>2. /\ peers \in [Peer -> PeerStates] /\ addresses \in [Peer -> SUBSET DialTransport]
        /\ transports \in [Installed -> [ConnectionId -> Socket!Stage]]
        /\ pending_connections \in [ConnectionId -> Peer \cup {None}]
    BY Zenon DEF IInv, TypeOK, PeerStates
  <1>3. ts # {} /\ ts \subseteq Installed /\ ts \in SUBSET DialTransport
    BY <1>2, SMTT(30) DEF Selections, DialsUnlimited
  <1>4. peers'[p].dial = c
    <2>1. peers'[p] = State!Opening(c, ts, ts)
      BY <1>1, <1>2, <1>3, OpeningState, Zenon DEF dial_opens
    <2>2. QED
      BY <2>1, SMTT(30) DEF State!Opening
  <1>5. /\ pending_connections'[c] = p
        /\ \A d \in ConnectionId : d # c => pending_connections'[d] = pending_connections[d]
    BY <1>1, <1>2, Zenon DEF dial_opens
  <1>6. \A u \in Installed : /\ u \in ts => transports'[u][c] = "raw"
                             /\ \A d \in ConnectionId : d # c =>
                                  transports'[u][d] = transports[u][d]
    BY <1>1, <1>2, Zenon DEF dial_opens, Socket!open
  <1>7. Attempt(p)'
    BY <1>3, <1>4, <1>5, <1>6, Zenon DEF Attempt
  <1>8. ASSUME NEW q \in Peer, q # p PROVE Attempt(q)'
    <2>1. peers'[q] = peers[q]
      BY <1>2, <1>8, Zenon DEF dial_opens
    <2>2. peers[q].dial \notin {c}
      BY <1>1, DialRecord, Zenon
    <2>3. \A d \in ConnectionId \ {c} :
            /\ pending_connections'[d] = pending_connections[d]
            /\ \A u \in Installed : transports'[u][d] = transports[u][d]
      BY <1>5, <1>6, Zenon
    <2>4. QED
      BY Zenon, <2>1, <2>2, <2>3, OtherAttempt
  <1>9. QED
    BY <1>7, <1>8, Zenon DEF Attempted

(* A dial of one address starts its attempt or finds the peer busy. *)
LEMMA DialAddressAttempted ==
  ASSUME IInv, Attempted, DialsUnlimited, NEW p \in Peer, NEW t \in DialTransport,
         dial_address(p, t)
  PROVE  Attempted'
  <1> DEFINE c == next_connection_id
  <1>1. c \in ConnectionId \ Allocated /\ None \notin ConnectionId
    BY Allocation, NoneNotId, Zenon DEF dial_address
  <1>2. /\ peers \in [Peer -> PeerStates] /\ t \in Installed
        /\ transports \in [Installed -> [ConnectionId -> Socket!Stage]]
        /\ pending_connections \in [ConnectionId -> Peer \cup {None}]
    BY Zenon DEF IInv, TypeOK, PeerStates, DialsUnlimited
  <1>3. \A d \in ConnectionId \ {c} : /\ pending_connections'[d] = pending_connections[d]
                                      /\ \A u \in Installed : transports'[u][d] = transports[u][d]
    BY <1>1, <1>2, SMTT(30) DEF dial_address, Socket!dial
  <1>4. ASSUME NEW q \in Peer, peers'[q] = peers[q] PROVE Attempt(q)'
    <2>1. peers[q].dial \notin {c}
      BY <1>1, DialRecord, Zenon
    <2>2. QED
      BY Zenon, <1>3, <1>4, <2>1, OtherAttempt
  <1>5. \A q \in Peer : q # p => peers'[q] = peers[q]
    BY <1>2, Zenon DEF dial_address
  <1>6. CASE State!can_dial(peers[p])
    <2>1. peers'[p].dial = c
      <3>1. peers'[p] = State!Dialing(c)
        BY <1>1, <1>2, <1>6, DialState, ZenonT(30) DEF dial_address
      <3>2. QED
        BY <3>1, SMTT(30) DEF State!Dialing
    <2>2. pending_connections'[c] = p /\ transports'[t][c] = "dialing"
      BY <1>1, <1>2, <1>6, SMTT(30) DEF dial_address, Socket!dial
    <2>3. Attempt(p)'
      BY <1>2, <2>1, <2>2, Zenon DEF Attempt
    <2>4. QED
      BY <1>4, <1>5, <2>3, ZenonT(30) DEF Attempted
  <1>7. CASE ~State!can_dial(peers[p])
    <2>1. peers'[p] = peers[p]
      BY <1>2, <1>7, Zenon DEF dial_address, State!dial_single_address
    <2>2. QED
      BY <1>4, <1>5, <2>1, Zenon DEF Attempted
  <1>8. QED
    BY <1>6, <1>7, Zenon

(* A dial that fails takes its record with it. *)
LEMMA DialFailureAttempted ==
  ASSUME IInv, Attempted, NEW t \in Installed, NEW c \in ConnectionId, DialFailure(t, c)
  PROVE  Attempted'
  <1> DEFINE p == remote[c]
  <1>1. /\ peers \in [Peer -> PeerStates]
        /\ transports \in [Installed -> [ConnectionId -> Socket!Stage]]
        /\ pending_connections \in [ConnectionId -> Peer \cup {None}]
        /\ transports[t][c] = "dialing"
    BY Zenon DEF IInv, TypeOK, PeerStates, DialFailure
  <1>2. p # None /\ pending_connections[c] = p
    BY <1>1, Zenon DEF IInv, DialAttemptTracked
  <1>3. p \in Peer /\ peers[p].dial = c /\ peers[p].kind # "Opening"
    BY <1>1, <1>2, Zenon DEF IInv, DialingNotOpening, PendingIsDialed
  <1>4. /\ peers' = [peers EXCEPT ![p] = State!on_dial_failure(@, c)]
        /\ \A d \in ConnectionId \ {c} :
             /\ pending_connections'[d] = pending_connections[d]
             /\ \A u \in Installed : transports'[u][d] = transports[u][d]
    BY <1>1, <1>2, Zenon DEF DialFailure, Socket!poll_failed
  <1>5. ASSUME NEW q \in Peer, q = p PROVE Attempt(q)'
    <2>1. peers'[q].dial = None
      BY <1>1, <1>3, <1>4, <1>5, DialFailureState, Zenon
    <2>2. QED
      BY Zenon, <2>1 DEF Attempt
  <1>6. ASSUME NEW q \in Peer, q # p PROVE Attempt(q)'
    <2>1. peers'[q].dial = peers[q].dial
      BY <1>1, <1>4, <1>6, Zenon
    <2>2. peers[q].dial \notin {c}
      BY <1>6, DialRecord, NoneNotId, Zenon
    <2>3. QED
      BY ZenonT(30), <1>4, <2>1, <2>2, OtherAttempt
  <1>7. QED
    BY <1>5, <1>6, Zenon DEF Attempted

(* The connection that was opened is negotiated. *)
LEMMA ConnectionOpenedAttempted ==
  ASSUME IInv, Attempted, NEW t \in Installed, NEW c \in ConnectionId, ConnectionOpened(t, c)
  PROVE  Attempted'
  <1> DEFINE p == remote[c]
             r == State!on_connection_opened(peers[p], c)
  <1>1. /\ p \in Peer /\ pending_connections[c] = p
        /\ \A q \in Peer : peers[q].dial = c => q = p
        /\ transports'[t][c] = "negotiated"
        /\ peers' = [peers EXCEPT ![p] = r] /\ r.dial = c
        /\ \A d \in ConnectionId : pending_connections'[d] = pending_connections[d]
        /\ \A d \in ConnectionId \ {c} :
             /\ pending_connections'[d] = pending_connections[d]
             /\ \A u \in Installed : transports'[u][d] = transports[u][d]
    BY ConnectionOpenedFacts, SMTT(30)
  <1> HIDE DEF r
  <1>2. /\ peers'[p].dial = c
        /\ \A q \in Peer : q # p => peers'[q] = peers[q]
    BY <1>1, ZenonT(30) DEF IInv, TypeOK
  <1>3. ASSUME NEW q \in Peer, q = p PROVE Attempt(q)'
    BY <1>1, <1>2, <1>3, ZenonT(30) DEF Attempt
  <1>4. ASSUME NEW q \in Peer, q # p PROVE Attempt(q)'
    <2>1. peers'[q].dial = peers[q].dial /\ peers[q].dial \notin {c}
      BY <1>1, <1>2, <1>4, Zenon
    <2>2. QED
      BY Zenon, <1>1, <2>1, OtherAttempt
  <1>5. QED
    BY <1>3, <1>4, Zenon DEF Attempted

(* A failed open leaves the attempts of the other transports, or no dial. *)
LEMMA OpenFailureAttempted ==
  ASSUME IInv, Attempted, DialsUnlimited, NEW t \in Installed, NEW c \in ConnectionId,
         OpenFailure(t, c)
  PROVE  Attempted'
  <1> DEFINE p == remote[c]
             r == State!on_open_failure(peers[p], t)
  <1>1. transports[t][c] = "raw"
    BY ZenonT(30) DEF OpenFailure
  <1>2. /\ p \in Peer /\ p # None /\ pending_connections[c] = p
        /\ peers[p] \in PeerStates /\ peers[p].kind = "Opening" /\ peers[p].dial = c
        /\ t \in peers[p].transports
        /\ \A u \in peers[p].transports \cap Installed : transports[u][c] = "raw"
        /\ \A q \in Peer : peers[q].dial = c => q = p
    BY <1>1, OpenAttempt, SMTT(30)
  <1>3. \/ r.kind = "Disconnected" /\ r.dial = None
        \/ /\ r.kind = "Opening" /\ r.dial = c
           /\ r.transports = peers[p].transports \ {t} /\ r.transports # {}
    BY <1>2, Zenon DEF State!on_open_failure, State!Disconnected, State!Opening
  <1>4. /\ peers \in [Peer -> PeerStates]
        /\ transports \in [Installed -> [ConnectionId -> Socket!Stage]]
        /\ pending_connections \in [ConnectionId -> Peer \cup {None}]
        /\ peers[p].transports \subseteq Installed
    BY <1>2, StateFields, ZenonT(30) DEF IInv, TypeOK, PeerStates, DialsUnlimited
  <1>5. r # peers[p]
    BY <1>2, <1>3, Zenon
  <1>6. /\ peers' = [peers EXCEPT ![p] = r] /\ peers'[p] = r
        /\ transports' = [transports EXCEPT ![t] = Socket!poll_failed(@, c)]
    BY <1>2, <1>4, <1>5, ZenonT(30) DEF OpenFailure
  <1>7. pending_connections' = IF r.kind = "Disconnected"
                                 THEN [pending_connections EXCEPT ![c] = None]
                                 ELSE pending_connections
    BY <1>2, <1>5, <1>6 DEF OpenFailure
  <1> HIDE DEF r
  <1>8. \A u \in Installed, d \in ConnectionId :
          transports'[u][d] = IF d = c /\ u = t THEN "none" ELSE transports[u][d]
    BY <1>4, <1>6, Zenon DEF Socket!poll_failed
  <1>9. ASSUME NEW q \in Peer, q = p PROVE Attempt(q)'
    <2>1. CASE r.dial = None
      BY ZenonT(30), <1>6, <1>9, <2>1 DEF Attempt
    <2>2. CASE r.kind = "Opening" /\ r.dial = c /\ r.transports = peers[p].transports \ {t}
               /\ r.transports # {}
      <3>1. PICK u \in peers[p].transports : u # t
        BY <2>2, ZenonT(30)
      <3>2. u \in Installed /\ transports'[u][c] = "raw" /\ pending_connections'[c] = p
        BY <1>2, <1>4, <1>7, <1>8, <2>2, <3>1, SMTT(30)
      <3>3. QED
        BY <1>6, <1>9, <2>2, <3>2, Zenon DEF Attempt
    <2>3. QED
      BY <1>3, <2>1, <2>2, ZenonT(30)
  <1>10. ASSUME NEW q \in Peer, q # p PROVE Attempt(q)'
    <2>1. peers'[q].dial = peers[q].dial /\ peers[q].dial \notin {c}
      BY <1>2, <1>4, <1>6, <1>10, ZenonT(30)
    <2>2. \A d \in ConnectionId \ {c} :
            /\ pending_connections'[d] = pending_connections[d]
            /\ \A u \in Installed : transports'[u][d] = transports[u][d]
      BY <1>4, <1>7, <1>8, ZenonT(30)
    <2>3. QED
      BY Zenon, <2>1, <2>2, OtherAttempt
  <1>11. QED
    BY <1>9, <1>10, Zenon DEF Attempted

(* Without limits, the connection of a dial is not rejected. *)
LEMMA RejectConnectionAttempted ==
  ASSUME IInv, Attempted, DialsUnlimited, NEW t \in Installed, NEW c \in ConnectionId,
         NEW p \in Peer, RejectConnection(t, c, p)
  PROVE  Attempted'
  <1>1. /\ transports \in [Installed -> [ConnectionId -> Socket!Stage]]
        /\ pending_connections \in [ConnectionId -> Peer \cup {None}]
        /\ transports[t][c] \in {"inbound", "dialing", "negotiated"}
        /\ c \in listener \/ remote[c] = p
        /\ ~Accepts(t, c, p)
    BY Zenon DEF IInv, TypeOK, RejectConnection, Established
  <1>2. ASSUME NEW q \in Peer, peers[q].dial = c PROVE FALSE
    <2>1. c \notin listener /\ remote[c] = p
      BY <1>1, <1>2, DialRecord, NoneNotId, ZenonT(30)
    <2>2. transports[t][c] \in {"dialing", "negotiated"}
      BY <1>1, <2>1, Zenon DEF IInv, EstablishedOnce
    <2>3. pending_connections[c] = p /\ peers[p].dial = c
      BY <1>1, <2>1, <2>2, NoneAssumption, Zenon DEF IInv, DialAttemptTracked, PendingIsDialed
    <2>4. State!accepts_connection(peers[p], c)
      BY <2>3, DialRecord, StateFields, NoneNotId, ZenonT(30) DEF State!accepts_connection
    <2>5. is_listener(t, c) => max_incoming_connections = None
      BY Zenon, <2>1 DEF is_listener, DialsUnlimited
    <2>6. Limits!can_accept_connection(connection_limits, is_listener(t, c))
      BY Zenon, <2>5 DEF DialsUnlimited, Limits!can_accept_connection, Limits!on_incoming,
         Limits!on_dial_address, Limits!Exceeded
    <2>7. QED
      BY <1>1, <2>3, <2>4, <2>6, ZenonT(30) DEF Accepts
  <1>3. /\ UNCHANGED peers
        /\ \A d \in ConnectionId \ {c} :
             /\ pending_connections'[d] = pending_connections[d]
             /\ \A u \in Installed : transports'[u][d] = transports[u][d]
    BY <1>1, Zenon DEF RejectConnection, Socket!reject, Socket!poll_established
  <1>4. ASSUME NEW q \in Peer PROVE Attempt(q)'
    <2>1. peers'[q].dial = peers[q].dial /\ peers[q].dial \notin {c}
      BY <1>2, <1>3, Zenon
    <2>2. QED
      BY Zenon, <1>3, <2>1, OtherAttempt
  <1>5. QED
    BY <1>4, Zenon DEF Attempted

(* An accepted connection ends the dial it was made for, and the open      *)
(* attempts of an Opening state with their dial.                           *)
LEMMA AcceptedAttempted ==
  ASSUME IInv, Attempted, NEW t \in Installed, NEW c \in ConnectionId, NEW p \in Peer,
         Accepted(t, c, p),
         \A q \in Peer : q # p => peers'[q] = peers[q],
         peers'[p].dial \in {None, peers[p].dial} \ {c},
         peers[p].kind = "Opening" => peers'[p].dial = None
  PROVE  Attempted'
  <1> DEFINE C == {d \in ConnectionId : \/ d = c
                                        \/ peers[p].kind = "Opening" /\ d = peers[p].dial}
  <1>1. \A d \in ConnectionId \ C :
          /\ pending_connections'[d] = pending_connections[d]
          /\ \A u \in Installed : transports'[u][d] = transports[u][d]
    BY AcceptedFacts, SMTT(30)
  <1>2. \A q \in Peer : peers[q].dial = c => q = p
    BY EstablishedFacts, SMTT(30) DEF Accepted
  <1>3. ASSUME NEW q \in Peer, q # p PROVE Attempt(q)'
    <2>1. peers'[q].dial = peers[q].dial
      BY <1>3, ZenonT(30)
    <2>2. peers[q].dial \notin C
      BY <1>2, <1>3, DialRecord, NoneNotId, SMTT(30)
    <2> HIDE DEF C
    <2>3. QED
      BY ZenonT(30), <1>1, <2>1, <2>2, OtherAttempt
  <1>4. CASE peers'[p].dial = None
    <2>1. Attempt(p)'
      BY ZenonT(30), <1>4 DEF Attempt
    <2>2. QED
      BY <1>3, <2>1, Zenon DEF Attempted
  <1>5. CASE peers'[p].dial # None
    <2>1. peers'[p].dial = peers[p].dial /\ peers[p].dial \notin C
      BY <1>5, Zenon
    <2> HIDE DEF C
    <2>2. Attempt(p)'
      BY Zenon, <1>1, <2>1, OtherAttempt
    <2>3. QED
      BY <1>3, <2>2, Zenon DEF Attempted
  <1>6. QED
    BY <1>4, <1>5, ZenonT(30)

(* So do both answers of accept(). *)
LEMMA AcceptAttempted ==
  ASSUME IInv, Attempted, NEW t \in Installed, NEW c \in ConnectionId, NEW p \in Peer,
         AcceptConnection(t, c, p) \/ AcceptFailure(t, c, p)
  PROVE  Attempted'
  <1> DEFINE r == State!on_connection_established(peers[p], c)
  <1>1. Accepted(t, c, p) /\ State!accepts_connection(peers[p], c)
    BY Zenon DEF AcceptConnection, AcceptFailure, Accepted, Accepts
  <1>2. peers \in [Peer -> PeerStates] /\ peers[p] \in PeerStates /\ None # c
    BY NoneNotId, Zenon DEF IInv, TypeOK, PeerStates
  <1>3. /\ r \in PeerStates
        /\ peers[p].kind = "Opening" => r.dial = None
        /\ r.dial \in {None, peers[p].dial} \ {c}
    BY <1>1, <1>2, EstablishedState, SMTT(30)
  <1> HIDE DEF r
  <1>4. State!on_connection_closed(r, c).dial = r.dial
    BY <1>3, ClosedState, Zenon
  <1>5. \/ peers' = [peers EXCEPT ![p] = r]
        \/ peers' = [peers EXCEPT ![p] = State!on_connection_closed(r, c)]
    BY Zenon DEF AcceptConnection, AcceptFailure, r
  <1>6. /\ \A q \in Peer : q # p => peers'[q] = peers[q]
        /\ peers'[p].dial = r.dial
    BY <1>2, <1>4, <1>5, ZenonT(30)
  <1>7. QED
    BY <1>1, <1>3, <1>6, AcceptedAttempted, ZenonT(30)

(* Inbound connections, cancelled attempts and the end of a connection     *)
(* touch no dial.                                                          *)
LEMMA UndialedAttempted ==
  ASSUME IInv, Attempted, NEW c \in ConnectionId,
         \A q \in Peer : peers'[q].dial = peers[q].dial,
         \A u \in Installed : /\ transports[u][c] \in {"raw", "dialing", "negotiated"} =>
                                   transports'[u][c] = transports[u][c]
                              /\ \A d \in ConnectionId \ {c} :
                                   transports'[u][d] = transports[u][d],
         UNCHANGED pending_connections
  PROVE  Attempted'
  <1>1. ASSUME NEW q \in Peer, peers[q].dial = c PROVE Attempt(q)'
    <2>1. c # None
      BY NoneNotId, Zenon
    <2>2. pending_connections[c] = q
      BY Zenon, <1>1, <2>1 DEF Attempted, Attempt
    <2>3. PICK t \in Installed : transports[t][c] \in {"raw", "dialing", "negotiated"}
      BY Zenon, <1>1, <2>1 DEF Attempted, Attempt
    <2>4. QED
      BY <1>1, <2>2, <2>3, ZenonT(30) DEF Attempt
  <1>2. ASSUME NEW q \in Peer, peers[q].dial \notin {c} PROVE Attempt(q)'
    <2>1. \A d \in ConnectionId \ {c} :
            /\ pending_connections'[d] = pending_connections[d]
            /\ \A u \in Installed : transports'[u][d] = transports[u][d]
      OBVIOUS
    <2>2. QED
      BY ZenonT(30), <1>2, <2>1, OtherAttempt
  <1>3. QED
    BY <1>1, <1>2, Zenon DEF Attempted

(* A dial record always has an attempt working on it, as long as no limit  *)
(* can reject its connection and every address can be dialed: a peer is    *)
(* never left where can_dial answers "in progress" for ever.               *)
THEOREM DialsAttempted == Spec => []NoOrphanDial
  <1>1. NoOrphanDial <=> (DialsUnlimited => Attempted)
    BY Zenon DEF NoOrphanDial, DialsUnlimited, Attempted, Attempt
  <1>2. Init => Attempted
    <2>1. Init => \A p \in Peer : peers[p].dial = None
      BY DEF Init, State!Disconnected
    <2>2. QED
      BY Zenon, <2>1 DEF Attempted, Attempt
  <1>3. ASSUME IInv, Attempted, DialsUnlimited, [Next]_vars PROVE Attempted'
    <2>1. ASSUME UNCHANGED <<peers, pending_connections, transports>> PROVE Attempted'
      BY Zenon, <1>3, <2>1 DEF Attempted, Attempt
    <2>2. ASSUME NEW p \in Peer, dial(p) PROVE Attempted'
      BY ZenonT(30), <1>3, <2>1, <2>2, DialOpensAttempted
      DEF dial, dial_in_progress, pending, network
    <2>3. CASE DialStep
      BY ZenonT(30), <1>3, <2>1, <2>2, <2>3, DialAddressAttempted
      DEF DialStep, Dial, DialAddress, HandleDial, HandleDialAddress, add_known_address,
          pending, network
    <2>4. CASE ProcessCommand
      <3>1. /\ Head(commands).peer \in Peer
            /\ Head(commands).address \in DialTransport \cup {None}
        <4>1. commands \in Seq(Command) /\ commands # <<>>
          BY <1>3, <2>4, Zenon DEF IInv, TypeOK, ProcessCommand
        <4>2. Head(commands) \in Command
          BY <4>1, SMTT(30)
        <4>3. QED
          BY <4>2, ZenonT(30) DEF Command
      <3>2. \/ dial(Head(commands).peer)
            \/ /\ Head(commands).address # None
               /\ dial_address(Head(commands).peer, Head(commands).address)
            \/ UNCHANGED <<peers, pending_connections, transports>>
        BY Zenon, <2>4 DEF ProcessCommand, pending, network
      <3>3. QED
        BY ZenonT(30), <1>3, <2>1, <2>2, <3>1, <3>2, DialAddressAttempted
    <2>5. ASSUME NEW t \in Installed, PendingInboundConnection(t) \/ WebRtcInbound(t)
          PROVE  Attempted'
      <3> DEFINE c == next_connection_id
      <3>1. c \in ConnectionId \ Allocated
        <4>1. c < MaxConnections /\ next_connection_id' = c + 1
          BY <1>3, <2>5, BoundAssumption, SMTT(30)
          DEF PendingInboundConnection, WebRtcInbound, IdAvailable, IInv, TypeOK
        <4>2. QED
          BY <1>3, <4>1, Allocation, ZenonT(30)
      <3>2. \A u \in Installed : transports[u][c] = "none"
        BY <1>3, <3>1, ZenonT(30) DEF IInv, UnallocatedUnused
      <3>3. UNCHANGED <<peers, pending_connections>>
        BY <2>5, Zenon DEF PendingInboundConnection, WebRtcInbound, pending
      <3>4. \A u \in Installed, d \in ConnectionId \ {c} : transports'[u][d] = transports[u][d]
        <4>1. transports \in [Installed -> [ConnectionId -> Socket!Stage]]
          BY ZenonT(30), <1>3 DEF IInv, TypeOK
        <4>2. \E stage \in {"none", "inbound"} :
                transports' = [transports EXCEPT ![t] = [@ EXCEPT ![c] = stage]]
          <5>1. CASE WebRtcInbound(t)
            BY Zenon, <4>1, <5>1 DEF WebRtcInbound
          <5>2. CASE PendingInboundConnection(t)
            BY ZenonT(30), <3>1, <4>1, <5>2
            DEF PendingInboundConnection, Socket!listener, Socket!accept_pending,
                Socket!reject_pending
          <5>3. QED
            BY <2>5, <5>1, <5>2, Zenon
        <4>3. QED
          BY <4>1, <4>2
      <3>5. QED
        BY <1>3, <3>1, <3>2, <3>3, <3>4, UndialedAttempted, Zenon
    <2>6. ASSUME NEW t \in Installed, NEW c \in ConnectionId,
                 RawCanceled(t, c) \/ InboundFailure(t, c)
          PROVE  Attempted'
      <3>1. /\ UNCHANGED <<peers, pending_connections>>
            /\ transports[t][c] \in {"aborted", "inbound"}
            /\ transports' = [transports EXCEPT ![t] = Socket!poll_failed(@, c)]
        BY <2>6, Zenon DEF RawCanceled, InboundFailure, pending
      <3>2. \A u \in Installed : /\ u # t => transports'[u] = transports[u]
                                 /\ \A d \in ConnectionId \ {c} :
                                      transports'[u][d] = transports[u][d]
        BY <1>3, <3>1, Zenon DEF IInv, TypeOK, Socket!poll_failed
      <3>3. QED
        BY <1>3, <3>1, <3>2, UndialedAttempted, Zenon
    <2>7. CASE TransportStep
      BY ZenonT(30), <1>3, <2>5, <2>6, <2>7, DialFailureAttempted, ConnectionOpenedAttempted,
         OpenFailureAttempted, RejectConnectionAttempted, AcceptAttempted
      DEF TransportStep, TransportResult
    <2>8. ASSUME NEW c \in ConnectionId, ConnectionClosed(c) PROVE Attempted'
      <3>1. \A q \in Peer : peers'[q].dial = peers[q].dial
        <4>1. peers \in [Peer -> PeerStates]
          BY <1>3, Zenon DEF IInv, TypeOK, PeerStates
        <4>2. peers' = [peers EXCEPT ![remote[c]] = State!on_connection_closed(@, c)]
          BY <2>8, Zenon DEF ConnectionClosed
        <4>3. \A q \in Peer : State!on_connection_closed(peers[q], c).dial = peers[q].dial
          BY <4>1, ClosedState, Zenon
        <4>4. QED
          BY <4>1, <4>2, <4>3, Zenon
      <3>2. UNCHANGED <<pending_connections, transports>>
        BY <2>8, Zenon DEF ConnectionClosed, pending
      <3>3. QED
        BY <1>3, <3>1, <3>2, UndialedAttempted, Zenon
    <2>9. CASE ConnectionStep
      BY ZenonT(30), <2>1, <2>8, <2>9
      DEF ConnectionStep, AcceptCompleted, CloseConnection, pending
    <2>10. CASE UNCHANGED vars
      BY Zenon, <2>1, <2>10 DEF vars, pending, network
    <2>11. QED
      BY ZenonT(30), <1>3, <2>3, <2>4, <2>7, <2>9, <2>10 DEF Next
  <1>4. IInv /\ NoOrphanDial /\ [Next]_vars => NoOrphanDial'
    <2>1. NoOrphanDial' <=> (DialsUnlimited => Attempted')
      BY Zenon DEF NoOrphanDial, DialsUnlimited, Attempted, Attempt
    <2>2. QED
      BY ZenonT(30), <1>1, <1>3, <2>1
  <1>5. Init => NoOrphanDial
    BY <1>1, <1>2, Zenon
  <1>6. QED
    BY <1>4, <1>5, Invariance, PTL DEF Spec

(* The user hears that a peer has disconnected only when its last          *)
(* connection has ended.                                                   *)
THEOREM ClosedLast == Spec => ClosedIsLast
  <1>1. ASSUME IInv, IInv', [Next]_vars, NEW p \in connected \ connected'
        PROVE  ~\E c \in ConnectionId : remote[c] = p /\ task'[c] \in {"accepting", "running"}
    <2>1. CASE DialStep
      BY ZenonT(30), <1>1, <2>1 DEF DialStep, Dial, dial, dial_in_progress, dial_opens, DialAddress,
         dial_address, HandleDial, HandleDialAddress, add_known_address, history
    <2>2. CASE ProcessCommand
      BY ZenonT(30), <1>1, <2>2 DEF ProcessCommand, dial, dial_in_progress, dial_opens, dial_address, history
    <2>3. TransportStep => connected' = connected
      <3>1. ASSUME NEW t \in Installed, NEW c \in ConnectionId,
                   DialFailure(t, c) \/ OpenFailure(t, c) \/ ConnectionOpened(t, c)
                     \/ RawCanceled(t, c) \/ InboundFailure(t, c)
            PROVE  connected' = connected
        BY Zenon, <3>1 DEF DialFailure, ReportDialFailure, OpenFailure, ConnectionOpened, RawCanceled,
           InboundFailure, history
      <3>2. ASSUME NEW t \in Installed, PendingInboundConnection(t) \/ WebRtcInbound(t)
            PROVE  connected' = connected
        BY <3>2, Zenon DEF PendingInboundConnection, WebRtcInbound, history
      <3>3. ASSUME NEW t \in Installed, NEW c \in ConnectionId, NEW q \in Peer,
                   RejectConnection(t, c, q) \/ AcceptConnection(t, c, q)
                     \/ AcceptFailure(t, c, q)
            PROVE  connected' = connected
        BY <3>3, Zenon DEF RejectConnection, AcceptConnection, AcceptFailure, history
      <3>4. QED
        BY <3>1, <3>2, <3>3, Zenon DEF TransportStep, TransportResult
    <2>4. CASE UNCHANGED vars
      BY <1>1, <2>4, ZenonT(30) DEF vars, history
    <2>5. ASSUME NEW c \in ConnectionId, AcceptCompleted(c) \/ CloseConnection(c) PROVE FALSE
      BY <1>1, <2>5, Zenon DEF AcceptCompleted, CloseConnection, history
    <2>6. ASSUME NEW c \in ConnectionId, ConnectionClosed(c)
          PROVE  ~\E d \in ConnectionId : remote[d] = p /\ task'[d] \in {"accepting", "running"}
      <3>1. /\ p \in Peer /\ p = remote[c] /\ State!last_connection_closed(peers[p], c)
            /\ remote' = remote /\ peers[p] \in PeerStates
        BY ZenonT(30), <1>1, <2>6, DialTyping DEF ConnectionClosed, IInv, TypeOK, DialsTyped
      <3>2. peers'[p] = State!on_connection_closed(peers[p], c)
        BY <1>1, <2>6, <3>1, Zenon DEF ConnectionClosed, IInv, TypeOK
      <3>3. State!Connections(peers'[p]) = {}
        <4>1. peers'[p] \in PeerStates /\ peers'[p].kind # "Connected"
          BY <3>1, <3>2, ClosedState, SMTT(30) DEF State!last_connection_closed
        <4>2. QED
          BY <4>1, StateFields, ZenonT(30)
      <3>4. {d \in Live' : remote'[d] = p} = {}
        BY ZenonT(30), <1>1, <3>1, <3>3 DEF IInv, ConnectionsAccounted
      <3>5. QED
        BY <3>1, <3>4, Zenon DEF Live
    <2>7. QED
      BY <1>1, <2>1, <2>2, <2>3, <2>4, <2>5, <2>6, Zenon DEF Next, ConnectionStep
  <1>2. IInv /\ IInv' /\ [Next]_vars =>
          [\A p \in Peer : p \in connected \ connected' =>
             ~\E c \in ConnectionId : remote[c] = p /\ task'[c] \in {"accepting", "running"}]_vars
    BY <1>1, Zenon
  <1>3. QED
    BY <1>2, Invariance, PTL DEF Spec, ClosedIsLast
=============================================================================
