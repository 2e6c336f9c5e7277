--------------------- MODULE TransportManagerDialProofs ---------------------
(***************************************************************************)
(* The first part of the proof that IInv is an invariant of                *)
(* TransportManager, for every set of peers and transports, every limit    *)
(* and every number of connections: what the operations on a peer state    *)
(* return, the initial state, and the steps that start a dial, fail it,    *)
(* reject an established connection, and admit or drop an inbound one.     *)
(***************************************************************************)
EXTENDS TransportManager, TLAPS

-----------------------------------------------------------------------------
(* Peer states, the initial state and the start of a dial *)

PeerStates == State!States(ConnectionId, DialTransport)

(* None is not a connection id. *)
LEMMA NoneNotId == None \notin ConnectionId
  BY NoneAssumption, BoundAssumption DEF ConnectionId

-----------------------------------------------------------------------------
(* What the operations on a peer state (peer_state.rs) return. *)

(* What the type of a PeerState says of its fields. *)
LEMMA StateFields ==
  ASSUME NEW s \in PeerStates
  PROVE  /\ s.kind \in {"Connected", "Opening", "Dialing", "Disconnected"}
         /\ s.dial \in ConnectionId \cup {None}
         /\ s.kind = "Opening" => s.dial \in ConnectionId
         /\ s.transports \in SUBSET DialTransport
         /\ s.kind # "Opening" => s.transports = {}
         /\ State!Connections(s) \subseteq ConnectionId
         /\ s.kind = "Connected" <=> State!Connections(s) # {}
         /\ s.secondary # None => s.dial = None
  BY NoneNotId DEF PeerStates, State!States, State!WellFormed, State!Connections

(* A disconnected state has no connection. *)
LEMMA DisconnectedState ==
  ASSUME NEW d \in ConnectionId \cup {None}
  PROVE  LET s == State!Disconnected(d) IN
         /\ s \in PeerStates
         /\ s.kind = "Disconnected"
         /\ s.dial = d
         /\ State!Connections(s) = {}
  BY NoneNotId, Zenon DEF PeerStates, State!States, State!WellFormed, State!Disconnected,
                   State!Connections

(* dial_single_address of a peer that can be dialed. *)
LEMMA DialState ==
  ASSUME NEW s \in PeerStates, NEW c \in ConnectionId, State!can_dial(s)
  PROVE  /\ State!dial_single_address(s, c) = State!Dialing(c)
         /\ State!Dialing(c) \in PeerStates
         /\ State!Connections(s) = {}
         /\ State!Connections(State!Dialing(c)) = {}
  BY NoneNotId, Zenon DEF PeerStates, State!States, State!WellFormed, State!Dialing,
                   State!Connections, State!dial_single_address, State!can_dial

(* dial_addresses of a peer that can be dialed. *)
LEMMA OpeningState ==
  ASSUME NEW s \in PeerStates, NEW c \in ConnectionId, State!can_dial(s),
         NEW ts \in SUBSET DialTransport
  PROVE  /\ State!dial_addresses(s, c, ts, ts) = State!Opening(c, ts, ts)
         /\ State!Opening(c, ts, ts) \in PeerStates
         /\ State!Connections(s) = {}
         /\ State!Connections(State!Opening(c, ts, ts)) = {}
  BY NoneNotId, Zenon DEF PeerStates, State!States, State!WellFormed, State!Opening,
                   State!Connections, State!dial_addresses, State!can_dial

(* on_dial_failure forgets the dial record of this attempt, and nothing    *)
(* else.                                                                   *)
LEMMA DialFailureState ==
  ASSUME NEW s \in PeerStates, NEW c \in ConnectionId
  PROVE  LET r == State!on_dial_failure(s, c) IN
         /\ r \in PeerStates
         /\ State!Connections(r) = State!Connections(s)
         /\ s.kind = "Opening" => r = s
         /\ s.dial # c => r = s
         /\ s.kind # "Opening" => r.kind # "Opening"
         /\ s.kind # "Opening" /\ s.dial = c => r.dial = None
         /\ r.secondary = s.secondary /\ r.record = s.record
  BY NoneNotId, Zenon DEF PeerStates, State!States, State!WellFormed, State!Connected,
                   State!Disconnected, State!Connections, State!on_dial_failure

(* on_connection_established of a connection that is accepted. *)
LEMMA EstablishedState ==
  ASSUME NEW s \in PeerStates, NEW c \in ConnectionId, State!accepts_connection(s, c)
  PROVE  LET r == State!on_connection_established(s, c) IN
         /\ r \in PeerStates
         /\ r.kind = "Connected"
         /\ State!Connections(r) = State!Connections(s) \cup {c}
         /\ s.kind = "Opening" => r.dial = None
         /\ s.kind # "Opening" => r.dial = IF s.dial = c THEN None ELSE s.dial
         /\ r.secondary # None => r.record \in State!Connections(s) /\ r.secondary = c
  BY NoneNotId, Zenon DEF PeerStates, State!States, State!WellFormed, State!Connected,
                   State!Connections, State!on_connection_established,
                   State!accepts_connection

(* on_connection_closed removes the connection; only the last one          *)
(* disconnects.                                                            *)
LEMMA ClosedState ==
  ASSUME NEW s \in PeerStates, NEW c \in ConnectionId
  PROVE  LET r == State!on_connection_closed(s, c) IN
         /\ r \in PeerStates
         /\ s.kind # "Opening" => r.kind # "Opening"
         /\ s.record # s.secondary => State!Connections(r) = State!Connections(s) \ {c}
         /\ r.dial = s.dial
         /\ s.kind = "Opening" => r = s
         /\ r.secondary # None => r.secondary = s.secondary /\ r.record = s.record
         /\ s.kind = "Connected" =>
              (r.kind = "Connected" <=> ~State!last_connection_closed(s, c))
  BY NoneNotId, Zenon DEF PeerStates, State!States, State!WellFormed, State!Connected,
                   State!Disconnected, State!Connections, State!on_connection_closed,
                   State!last_connection_closed

(* on_open_failure removes one transport, and the last one ends the        *)
(* attempt.                                                                *)
LEMMA OpenFailureState ==
  ASSUME NEW s \in PeerStates, NEW t, s.kind = "Opening"
  PROVE  LET r == State!on_open_failure(s, t) IN
         /\ r \in PeerStates
         /\ State!Connections(r) = State!Connections(s)
         /\ State!Connections(r) = {}
         /\ r.secondary = None
         /\ \/ r.kind = "Disconnected" /\ r.dial = None /\ s.transports \subseteq {t}
            \/ /\ r.kind = "Opening"
               /\ r.dial = s.dial
               /\ r.addresses = s.addresses
               /\ r.transports = s.transports \ {t}
  BY NoneNotId, Zenon DEF PeerStates, State!States, State!WellFormed, State!Disconnected,
                   State!Opening, State!Connections, State!on_open_failure

(* on_connection_opened makes the attempt a dial. *)
LEMMA OpenedState ==
  ASSUME NEW s \in PeerStates, NEW c \in ConnectionId, s.kind = "Opening"
  PROVE  LET r == State!on_connection_opened(s, c) IN
         /\ r \in PeerStates
         /\ r.kind = "Dialing"
         /\ r.dial = c
         /\ State!Connections(r) = {}
         /\ State!Connections(s) = {}
         /\ r.secondary = None
  BY NoneNotId, Zenon DEF PeerStates, State!States, State!WellFormed, State!Dialing,
                   State!Connections, State!on_connection_opened

-----------------------------------------------------------------------------
(* Each action preserves the inductive invariant. *)

(* The invariant holds initially. *)
LEMMA InitInv == Init => IInv
  <1> SUFFICES ASSUME Init PROVE IInv
    OBVIOUS
  <1>1. TypeOK
    <2>1. peers \in [Peer -> State!States(ConnectionId, DialTransport)]
      BY DisconnectedState, Zenon DEF Init, PeerStates
    <2>2. transports \in [Installed -> [ConnectionId -> Socket!Stage]]
      BY Zenon DEF Init, Socket!Stage
    <2>3. /\ next_connection_id \in 0 .. MaxConnections
          /\ commands \in Seq(Command)
          /\ connection_limits \in [incoming_connections : SUBSET ConnectionId,
                                    outgoing_connections : SUBSET ConnectionId]
      BY BoundAssumption DEF Init, Limits!new
    <2>4. QED
      BY Zenon, <2>1, <2>2, <2>3 DEF Init, TypeOK, Task
  <1>2. ConnectionsAccounted /\ LimitsCounted
    BY DisconnectedState, Zenon DEF Init, ConnectionsAccounted, LimitsCounted, Live, Limits!new
  <1>3. UnallocatedUnused /\ EstablishedOnce /\ AcceptedHasRemote
    BY Zenon DEF Init, UnallocatedUnused, EstablishedOnce, AcceptedHasRemote
  <1>4. DialRecordUnaccepted /\ SecondaryDistinct /\ OpeningAttempted /\ OpeningErrorsComplete
    BY Zenon DEF Init, DialRecordUnaccepted, SecondaryDistinct, OpeningAttempted,
           OpeningErrorsComplete, State!Disconnected
  <1>5. DialingNotOpening /\ PendingIsDialed /\ OpenAttemptTracked /\ DialAttemptTracked
    BY Zenon DEF Init, DialingNotOpening, PendingIsDialed, OpenAttemptTracked, DialAttemptTracked
  <1>6. UserView
    BY Zenon DEF Init, UserView, Live
  <1>7. QED
    BY <1>1, <1>2, <1>3, <1>4, <1>5, <1>6, Zenon DEF IInv

(* The types of the fields that the arguments below compare. *)
DialsTyped ==
  /\ \A q \in Peer : peers[q] \in PeerStates
  /\ \A q \in Peer : peers[q].dial \in ConnectionId \cup {None}
  /\ \A q \in Peer : peers[q].kind = "Opening" => peers[q].dial \in ConnectionId
  /\ \A d \in ConnectionId : remote[d] \in Peer \cup {None}
  /\ \A d \in ConnectionId : pending_connections[d] \in Peer \cup {None}

(* The types of the dials follow from the types. *)
LEMMA DialTyping == TypeOK => DialsTyped
  BY StateFields, Zenon DEF TypeOK, PeerStates, DialsTyped

(* Steps that change neither the manager's bookkeeping nor the network. *)
LEMMA BookkeepingUnchanged ==
  ASSUME IInv, TypeOK', UserView',
         UNCHANGED <<peers, pending, connection_limits, network>>
  PROVE  IInv'
  BY DEF IInv, pending, network, UnallocatedUnused, DialRecordUnaccepted, SecondaryDistinct,
         AcceptedHasRemote, EstablishedOnce, DialingNotOpening, OpeningAttempted,
         PendingIsDialed, ConnectionsAccounted, LimitsCounted, OpenAttemptTracked,
         DialAttemptTracked, OpeningErrorsComplete, Live, Allocated

(* The next connection id is fresh; allocating it adds it to the allocated ones. *)
LEMMA Allocation ==
  ASSUME IInv, next_connection_id < MaxConnections,
         next_connection_id' = next_connection_id + 1
  PROVE  /\ next_connection_id \in ConnectionId \ Allocated
         /\ next_connection_id' \in 0 .. MaxConnections
         /\ Allocated' = Allocated \cup {next_connection_id}
  BY BoundAssumption DEF IInv, TypeOK, ConnectionId, Allocated

(* Dialing a peer: a fresh id, raw attempts on the selected transports. *)
LEMMA DialOpensInv ==
  ASSUME IInv, NEW p \in Peer, NEW ts \in Selections(p), dial_opens(p, ts),
         commands' \in Seq(Command)
  PROVE  IInv'
  <1> DEFINE c == next_connection_id
  <1> USE NoneNotId
  <1>0. /\ UnallocatedUnused /\ DialRecordUnaccepted /\ SecondaryDistinct /\ AcceptedHasRemote
        /\ EstablishedOnce /\ DialingNotOpening /\ OpeningAttempted /\ PendingIsDialed
        /\ ConnectionsAccounted /\ LimitsCounted /\ OpenAttemptTracked /\ DialAttemptTracked
        /\ OpeningErrorsComplete /\ UserView
    BY Zenon DEF IInv
  <1>1. /\ c \in ConnectionId /\ c \notin Allocated
        /\ next_connection_id' \in 0 .. MaxConnections
        /\ Allocated' = Allocated \cup {c}
    BY Allocation, Zenon DEF dial_opens
  <1>2. ts \in SUBSET DialTransport /\ ts # {}
    BY DEF IInv, TypeOK, Selections
  <1>3. peers[p] \in PeerStates /\ State!can_dial(peers[p])
    BY Zenon DEF IInv, TypeOK, PeerStates, dial_opens
  <1>4. /\ State!dial_addresses(peers[p], c, ts, ts) = State!Opening(c, ts, ts)
        /\ State!Opening(c, ts, ts) \in PeerStates
        /\ State!Connections(State!Opening(c, ts, ts)) = State!Connections(peers[p])
    BY Zenon, <1>1, <1>2, <1>3, OpeningState
  <1>5. TypeOK'
    BY <1>1, <1>4, Zenon DEF dial_opens, IInv, TypeOK, PeerStates, Socket!open, Socket!Stage
  <1>6. /\ peers'[p].kind = "Opening" /\ peers'[p].dial = c /\ peers'[p].secondary = None
        /\ peers'[p].addresses = ts /\ peers'[p].transports = ts
        /\ \A q \in Peer : q # p => peers'[q] = peers[q]
        /\ peers[p].kind # "Opening" /\ peers[p].dial = None
    BY <1>3, <1>4 DEF IInv, TypeOK, dial_opens, State!Opening, State!can_dial
  <1>7. /\ \A d \in ConnectionId : remote'[d] = IF d = c THEN p ELSE remote[d]
        /\ \A d \in ConnectionId :
             pending_connections'[d] = IF d = c THEN p ELSE pending_connections[d]
        /\ UNCHANGED <<opening_errors, connection_limits, listener, task, connected>>
    BY <1>1, Zenon DEF IInv, TypeOK, dial_opens
  <1>8. \A t \in Installed, d \in ConnectionId :
          transports'[t][d] = IF d = c /\ t \in ts THEN "raw" ELSE transports[t][d]
    BY <1>1, Zenon DEF IInv, TypeOK, dial_opens, Socket!open
  <1>9. DialsTyped
    BY DialTyping, Zenon DEF IInv
  <1>10. UnallocatedUnused' /\ AcceptedHasRemote' /\ SecondaryDistinct'
    BY <1>0, <1>1, <1>6, <1>7, <1>8
    DEF UnallocatedUnused, AcceptedHasRemote, SecondaryDistinct
  <1>11. \A q \in Peer : q # p /\ peers[q].dial # None =>
           /\ peers[q].dial \in ConnectionId
           /\ peers[q].dial # c
    BY <1>0, <1>1, <1>9, SMTT(30) DEF DialsTyped, DialRecordUnaccepted
  <1>12. DialRecordUnaccepted' /\ EstablishedOnce'
    BY <1>0, <1>1, <1>6, <1>7, <1>8, <1>9, <1>11, SMTT(30)
    DEF DialsTyped, UnallocatedUnused, EstablishedOnce, DialRecordUnaccepted
  <1>13. DialingNotOpening' /\ DialAttemptTracked'
    BY <1>0, <1>1, <1>6, <1>7, <1>8, <1>9, SMTT(30) DEF DialsTyped, UnallocatedUnused, DialingNotOpening,
       DialAttemptTracked, PendingIsDialed
  <1>14. OpeningAttempted'
    BY <1>0, <1>1, <1>6, <1>7, <1>8, <1>9, <1>11 DEF DialsTyped, OpeningAttempted
  <1>15. OpeningErrorsComplete'
    BY <1>0, <1>1, <1>6, <1>7, SMTT(30) DEF UnallocatedUnused, OpeningErrorsComplete
  <1>16. PendingIsDialed'
    BY <1>0, <1>1, <1>6, <1>7, <1>9, SMTT(30) DEF DialsTyped, PendingIsDialed
  <1>17. OpenAttemptTracked'
    BY <1>0, <1>1, <1>6, <1>7, <1>8, <1>9, NoneAssumption
    DEF DialsTyped, UnallocatedUnused, OpenAttemptTracked
  <1>18. ConnectionsAccounted' /\ LimitsCounted' /\ UserView'
    <2>1. c \notin Live /\ Live' = Live /\ Live \subseteq ConnectionId
      BY <1>0, <1>1, <1>7, Zenon DEF UnallocatedUnused, Live
    <2>2. \A q \in Peer : State!Connections(peers'[q]) = State!Connections(peers[q])
      BY <1>4, <1>6, Zenon DEF dial_opens, IInv, TypeOK
    <2>3. ConnectionsAccounted'
      BY <2>1, <2>2, <1>0, <1>7 DEF ConnectionsAccounted
    <2>4. LimitsCounted' /\ UserView'
      BY <2>1, <1>0, <1>7, Zenon DEF LimitsCounted, UserView
    <2>5. QED
      BY <2>3, <2>4, Zenon
  <1>19. QED
    BY <1>5, <1>10, <1>11, <1>12, <1>13, <1>14, <1>15, <1>16, <1>17, <1>18, Zenon DEF IInv

(* Dialing one address: the peer waits for c if it could be dialed, and c  *)
(* is pending and in the transport if the transport is installed too.      *)
LEMMA DialAddressInv ==
  ASSUME IInv, NEW p \in Peer, NEW t \in DialTransport, dial_address(p, t),
         commands' \in Seq(Command)
  PROVE  IInv'
  <1> DEFINE c == next_connection_id
             dials == State!can_dial(peers[p])
             starts == dials /\ t \in Installed
  <1> USE NoneNotId
  <1>0. /\ UnallocatedUnused /\ DialRecordUnaccepted /\ SecondaryDistinct /\ AcceptedHasRemote
        /\ EstablishedOnce /\ DialingNotOpening /\ OpeningAttempted /\ PendingIsDialed
        /\ ConnectionsAccounted /\ LimitsCounted /\ OpenAttemptTracked /\ DialAttemptTracked
        /\ OpeningErrorsComplete /\ UserView
    BY Zenon DEF IInv
  <1>1. /\ c \in ConnectionId /\ c \notin Allocated
        /\ next_connection_id' \in 0 .. MaxConnections
        /\ Allocated' = Allocated \cup {c}
    BY Allocation, Zenon DEF dial_address
  <1>2. DialsTyped
    BY DialTyping, Zenon DEF IInv
  <1>3. /\ peers' = [peers EXCEPT ![p] = State!dial_single_address(peers[p], c)]
        /\ State!dial_single_address(peers[p], c) \in PeerStates
        /\ State!Connections(State!dial_single_address(peers[p], c)) = State!Connections(peers[p])
    <2>1. CASE dials
      BY Zenon, <2>1, <1>1, <1>2, DialState DEF dial_address, DialsTyped
    <2>2. CASE ~dials
      BY <2>2, <1>2, Zenon DEF dial_address, DialsTyped, State!dial_single_address
    <2>3. QED
      BY <2>1, <2>2, Zenon
  <1>4. TypeOK'
    <2>1. transports' \in [Installed -> [ConnectionId -> Socket!Stage]]
      <3>1. transports \in [Installed -> [ConnectionId -> Socket!Stage]]
        BY Zenon DEF IInv, TypeOK
      <3>2. CASE starts
        <4>1. /\ t \in Installed
              /\ transports' = [transports EXCEPT
                                  ![t] = [transports[t] EXCEPT ![next_connection_id] = "dialing"]]
          BY <3>2, Zenon DEF dial_address, Socket!dial
        <4> QED BY <3>1, <4>1, Zenon DEF Socket!Stage
      <3>3. CASE ~starts
        BY <3>1, <3>3, Zenon DEF dial_address
      <3> QED BY <3>2, <3>3, Zenon
    <2>2. /\ pending_connections' \in [ConnectionId -> Peer \cup {None}]
          /\ addresses' \in [Peer -> SUBSET DialTransport]
          /\ remote' \in [ConnectionId -> Peer \cup {None}]
          /\ awaiting' \subseteq Peer
      BY <1>1, Zenon DEF dial_address, IInv, TypeOK
    <2>3. QED
      BY <2>1, <2>2, <1>1, <1>3, SMTT(30) DEF dial_address, IInv, TypeOK, PeerStates
  <1>5. /\ \A q \in Peer : q # p => peers'[q] = peers[q]
        /\ ~dials => peers'[p] = peers[p]
        /\ dials => /\ peers'[p].kind = "Dialing" /\ peers'[p].dial = c
                    /\ peers'[p].secondary = None
                    /\ peers[p].kind # "Opening" /\ peers[p].dial = None
    BY <1>3, Zenon DEF IInv, TypeOK, State!dial_single_address, State!can_dial, State!Dialing
  <1>6. /\ \A d \in ConnectionId : remote'[d] = IF d = c THEN p ELSE remote[d]
        /\ \A d \in ConnectionId :
             pending_connections'[d] = IF d = c /\ starts THEN p ELSE pending_connections[d]
        /\ UNCHANGED <<opening_errors, connection_limits, listener, task, connected>>
    BY <1>1, Zenon DEF IInv, TypeOK, dial_address
  <1>7. \A u \in Installed, d \in ConnectionId :
          transports'[u][d] = IF d = c /\ u = t /\ starts THEN "dialing" ELSE transports[u][d]
    BY <1>1 DEF IInv, TypeOK, dial_address, Socket!dial
  <1>8. \A q \in Peer : peers[q].dial # None =>
           /\ peers[q].dial \in ConnectionId
           /\ peers[q].dial # c
    BY <1>0, <1>1, <1>2 DEF DialsTyped, DialRecordUnaccepted
  <1>9. UnallocatedUnused' /\ AcceptedHasRemote' /\ SecondaryDistinct'
    BY <1>0, <1>1, <1>5, <1>6, <1>7 DEF UnallocatedUnused, AcceptedHasRemote, SecondaryDistinct
  <1>10. DialRecordUnaccepted' /\ EstablishedOnce'
    BY <1>0, <1>1, <1>5, <1>6, <1>7, <1>8
    DEF UnallocatedUnused, EstablishedOnce, DialRecordUnaccepted
  <1>11. DialingNotOpening' /\ DialAttemptTracked'
    BY <1>0, <1>1, <1>2, <1>5, <1>6, <1>7, NoneAssumption
    DEF DialsTyped, DialingNotOpening, DialAttemptTracked, UnallocatedUnused
  <1>12. OpeningAttempted' /\ OpeningErrorsComplete'
    BY <1>0, <1>1, <1>2, <1>5, <1>6, <1>7, <1>8
    DEF DialsTyped, OpeningAttempted, OpeningErrorsComplete
  <1>13. PendingIsDialed'
    BY <1>0, <1>1, <1>2, <1>5, <1>6, <1>8 DEF DialsTyped, PendingIsDialed
  <1>14. OpenAttemptTracked'
    BY <1>0, <1>1, <1>2, <1>5, <1>6, <1>7
    DEF DialsTyped, UnallocatedUnused, OpenAttemptTracked
  <1>15. ConnectionsAccounted' /\ LimitsCounted' /\ UserView'
    <2>1. c \notin Live /\ Live' = Live /\ Live \subseteq ConnectionId
      BY <1>0, <1>1, <1>6, Zenon DEF UnallocatedUnused, Live
    <2>2. \A q \in Peer : State!Connections(peers'[q]) = State!Connections(peers[q])
      BY <1>3, <1>5, Zenon DEF IInv, TypeOK
    <2>3. ConnectionsAccounted'
      BY <2>1, <2>2, <1>0, <1>6 DEF ConnectionsAccounted
    <2>4. LimitsCounted' /\ UserView'
      BY <2>1, <1>0, <1>6, Zenon DEF LimitsCounted, UserView
    <2>5. QED
      BY <2>3, <2>4, Zenon
  <1>16. QED
    BY <1>4, <1>9, <1>10, <1>11, <1>12, <1>13, <1>14, <1>15, Zenon DEF IInv

-----------------------------------------------------------------------------
(* Rejected connections, failed dials, and new inbound connections *)

(* What an established connection finds: it is new to the manager, and no  *)
(* open attempt shares its id.                                             *)
LEMMA EstablishedFacts ==
  ASSUME IInv, NEW t \in Installed, NEW c \in ConnectionId, NEW p \in Peer,
         Established(t, c, p)
  PROVE  /\ task[c] = "none" /\ c \notin Live /\ c \in Allocated
         /\ transports[t][c] \in {"inbound", "dialing", "negotiated"}
         /\ \A u \in Installed : u # t => transports[u][c] \in {"none", "aborted"}
         /\ \A q \in Peer : peers[q].kind = "Opening" => peers[q].dial # c
         /\ \A q \in Peer : peers[q].dial = c => q = p
         /\ c \notin listener => t \in DialTransport
         /\ remote' \in [ConnectionId -> Peer \cup {None}]
         /\ \A d \in ConnectionId : remote'[d] = IF d = c THEN p ELSE remote[d]
         /\ opening_errors' \in [ConnectionId -> SUBSET DialTransport]
         /\ \A d \in ConnectionId :
              opening_errors'[d] = IF d = c THEN {} ELSE opening_errors[d]
         /\ addresses' \in [Peer -> SUBSET DialTransport]
  <1> USE NoneNotId
  <1>1. /\ EstablishedOnce /\ DialingNotOpening /\ DialRecordUnaccepted /\ UnallocatedUnused
        /\ DialsTyped
    BY DialTyping, Zenon DEF IInv
  <1>2. /\ transports[t][c] \in {"inbound", "dialing", "negotiated"}
        /\ c \in listener \/ remote[c] = p
    BY Zenon DEF Established
  <1>3. /\ task[c] = "none" /\ c \notin Live
        /\ \A u \in Installed : u # t => transports[u][c] \in {"none", "aborted"}
        /\ transports[t][c] = "inbound" => c \in listener
        /\ c \notin listener => t \in DialTransport
    BY <1>1, <1>2, Zenon DEF EstablishedOnce, Live
  <1>4. c \in Allocated
    BY <1>1, <1>2, Zenon DEF UnallocatedUnused
  <1>5. /\ \A q \in Peer : peers[q].dial = c => q = p
        /\ \A q \in Peer : peers[q].kind = "Opening" => peers[q].dial # c
    BY <1>1, <1>2, <1>3 DEF DialRecordUnaccepted, DialingNotOpening
  <1>6. /\ remote' \in [ConnectionId -> Peer \cup {None}]
        /\ \A d \in ConnectionId : remote'[d] = IF d = c THEN p ELSE remote[d]
        /\ opening_errors' \in [ConnectionId -> SUBSET DialTransport]
        /\ \A d \in ConnectionId :
             opening_errors'[d] = IF d = c THEN {} ELSE opening_errors[d]
    BY Zenon DEF Established, IInv, TypeOK
  <1>7. addresses' \in [Peer -> SUBSET DialTransport]
    BY <1>3, Zenon DEF Established, is_listener, IInv, TypeOK
  <1>8. QED
    BY <1>2, <1>3, <1>4, <1>5, <1>6, <1>7, Zenon

(* A connection that is rejected keeps the invariant. *)
LEMMA RejectConnectionInv ==
  ASSUME IInv, NEW t \in Installed, NEW c \in ConnectionId, NEW p \in Peer,
         RejectConnection(t, c, p)
  PROVE  IInv'
  <1> USE NoneNotId
  <1>0. /\ UnallocatedUnused /\ DialRecordUnaccepted /\ SecondaryDistinct /\ AcceptedHasRemote
        /\ EstablishedOnce /\ DialingNotOpening /\ OpeningAttempted /\ PendingIsDialed
        /\ ConnectionsAccounted /\ LimitsCounted /\ OpenAttemptTracked /\ DialAttemptTracked
        /\ OpeningErrorsComplete /\ UserView
    BY Zenon DEF IInv
  <1>1. DialsTyped
    BY DialTyping, Zenon DEF IInv
  <1>2. /\ task[c] = "none" /\ c \notin Live /\ c \in Allocated
        /\ \A u \in Installed : u # t => transports[u][c] \in {"none", "aborted"}
        /\ \A q \in Peer : peers[q].kind = "Opening" => peers[q].dial # c
        /\ \A q \in Peer : peers[q].dial = c => q = p
        /\ \A d \in ConnectionId : remote'[d] = IF d = c THEN p ELSE remote[d]
        /\ \A d \in ConnectionId :
             opening_errors'[d] = IF d = c THEN {} ELSE opening_errors[d]
    BY EstablishedFacts DEF RejectConnection
  <1>3. UNCHANGED <<peers, connection_limits, commands, listener, task, next_connection_id,
                    panicked, connected, awaiting>>
    BY Zenon DEF RejectConnection, history
  <1>4. /\ transports' \in [Installed -> [ConnectionId -> Socket!Stage]]
        /\ \A u \in Installed, d \in ConnectionId :
             transports'[u][d] = IF d = c /\ u = t THEN "none" ELSE transports[u][d]
    <2>1. /\ transports \in [Installed -> [ConnectionId -> Socket!Stage]]
          /\ transports[t] \in [ConnectionId -> Socket!Stage]
      BY Zenon DEF IInv, TypeOK
    <2>2. Socket!reject(Socket!poll_established(transports[t], c), c) =
            [transports[t] EXCEPT ![c] = "none"]
      BY <2>1, Zenon DEF Socket!reject, Socket!poll_established
    <2>3. transports' = [transports EXCEPT ![t] = [transports[t] EXCEPT ![c] = "none"]]
      BY <2>2, Zenon DEF RejectConnection
    <2>4. QED
      BY <2>1, <2>3, Zenon DEF Socket!Stage
  <1>5. /\ pending_connections' \in [ConnectionId -> Peer \cup {None}]
        /\ \A d \in ConnectionId :
             pending_connections'[d] = IF d = c THEN None ELSE pending_connections[d]
    BY Zenon DEF RejectConnection, IInv, TypeOK
  <1>6. TypeOK'
    BY <1>3, <1>4, <1>5, EstablishedFacts DEF RejectConnection, IInv, TypeOK
  <1>7. UnallocatedUnused' /\ AcceptedHasRemote' /\ SecondaryDistinct'
    <2>1. UnallocatedUnused'
      BY <1>0, <1>2, <1>3, <1>4, <1>5 DEF UnallocatedUnused, Allocated
    <2>2. AcceptedHasRemote' /\ SecondaryDistinct'
      BY <1>0, <1>2, <1>3, Zenon DEF AcceptedHasRemote, SecondaryDistinct
    <2>3. QED
      BY <2>1, <2>2, Zenon
  <1>8. DialRecordUnaccepted' /\ EstablishedOnce'
    BY <1>0, <1>1, <1>2, <1>3, <1>4, SMTT(30)
    DEF EstablishedOnce, DialRecordUnaccepted, Allocated, DialsTyped
  <1>9. DialingNotOpening' /\ DialAttemptTracked'
    BY <1>0, <1>2, <1>3, <1>4, <1>5, SMTT(30) DEF DialingNotOpening, DialAttemptTracked
  <1>10. OpeningAttempted' /\ OpeningErrorsComplete'
    BY <1>0, <1>1, <1>2, <1>3, <1>4, <1>5, SMTT(30)
    DEF DialsTyped, OpeningAttempted, OpeningErrorsComplete
  <1>11. PendingIsDialed' /\ OpenAttemptTracked'
    BY <1>0, <1>2, <1>3, <1>4, <1>5, SMTT(30) DEF PendingIsDialed, OpenAttemptTracked
  <1>12. ConnectionsAccounted' /\ LimitsCounted' /\ UserView'
    <2>1. Live' = Live /\ Live \subseteq ConnectionId
      BY <1>3, Zenon DEF Live
    <2>2. QED
      BY <2>1, <1>0, <1>2, <1>3 DEF ConnectionsAccounted, LimitsCounted, UserView
  <1>13. QED
    BY <1>6, <1>7, <1>8, <1>9, <1>10, <1>11, <1>12, Zenon DEF IInv

(* A dial fails: it was pending, so its peer loses the dial record. *)
LEMMA DialFailureInv ==
  ASSUME IInv, NEW t \in Installed, NEW c \in ConnectionId, DialFailure(t, c)
  PROVE  IInv'
  <1> DEFINE p == remote[c]
  <1> USE NoneNotId
  <1>0. /\ UnallocatedUnused /\ DialRecordUnaccepted /\ SecondaryDistinct /\ AcceptedHasRemote
        /\ EstablishedOnce /\ DialingNotOpening /\ OpeningAttempted /\ PendingIsDialed
        /\ ConnectionsAccounted /\ LimitsCounted /\ OpenAttemptTracked /\ DialAttemptTracked
        /\ OpeningErrorsComplete /\ UserView
    BY Zenon DEF IInv
  <1>1. DialsTyped
    BY DialTyping, Zenon DEF IInv
  <1>2. /\ p \in Peer /\ pending_connections[c] = p /\ p # None
        /\ peers[p] \in PeerStates
        /\ peers[p].kind # "Opening" /\ peers[p].dial = c
        /\ t \in DialTransport
    BY <1>0, <1>1, NoneAssumption
    DEF DialFailure, DialsTyped, DialAttemptTracked, DialingNotOpening, PendingIsDialed,
        EstablishedOnce
  <1>3. LET r == State!on_dial_failure(peers[p], c) IN
        /\ peers' = [peers EXCEPT ![p] = r]
        /\ r \in PeerStates
        /\ State!Connections(r) = State!Connections(peers[p])
        /\ r.kind # "Opening" /\ r.dial = None
        /\ r.secondary = peers[p].secondary /\ r.record = peers[p].record
    BY <1>2, DialFailureState, Zenon DEF DialFailure
  <1>4. TypeOK'
    <2>1. transports' \in [Installed -> [ConnectionId -> Socket!Stage]]
      BY Zenon DEF DialFailure, IInv, TypeOK, Socket!poll_failed, Socket!Stage
    <2>2. /\ pending_connections' \in [ConnectionId -> Peer \cup {None}]
          /\ addresses' \in [Peer -> SUBSET DialTransport]
          /\ awaiting' \subseteq Peer /\ connected' \subseteq Peer
      BY <1>2, Zenon DEF DialFailure, ReportDialFailure, IInv, TypeOK
    <2>3. QED
      BY <2>1, <2>2, <1>3, Zenon DEF DialFailure, IInv, TypeOK, PeerStates
  <1>5. /\ \A q \in Peer : q # p => peers'[q] = peers[q]
        /\ peers'[p].kind # "Opening" /\ peers'[p].dial = None
        /\ peers'[p].secondary = peers[p].secondary /\ peers'[p].record = peers[p].record
        /\ \A q \in Peer : State!Connections(peers'[q]) = State!Connections(peers[q])
    BY <1>2, <1>3, Zenon DEF IInv, TypeOK
  <1>6. /\ \A d \in ConnectionId :
             pending_connections'[d] = IF d = c THEN None ELSE pending_connections[d]
        /\ UNCHANGED <<remote, opening_errors, connection_limits, listener, task, connected,
                       next_connection_id>>
    BY <1>2, Zenon DEF IInv, TypeOK, DialFailure, ReportDialFailure
  <1>7. \A u \in Installed, d \in ConnectionId :
          transports'[u][d] = IF d = c /\ u = t THEN "none" ELSE transports[u][d]
    BY Zenon DEF IInv, TypeOK, DialFailure, Socket!poll_failed
  <1>8. UnallocatedUnused' /\ AcceptedHasRemote' /\ SecondaryDistinct'
    BY <1>0, <1>5, <1>6, <1>7, SMTT(30)
    DEF UnallocatedUnused, AcceptedHasRemote, SecondaryDistinct, Allocated
  <1>9. DialRecordUnaccepted' /\ EstablishedOnce'
    BY <1>0, <1>5, <1>6, <1>7, SMTT(30) DEF EstablishedOnce, DialRecordUnaccepted, Allocated
  <1>10. DialingNotOpening' /\ DialAttemptTracked'
    BY <1>0, <1>1, <1>2, <1>5, <1>6, <1>7, SMTT(30)
    DEF DialsTyped, DialingNotOpening, DialAttemptTracked, EstablishedOnce, DialFailure
  <1>11. OpeningAttempted' /\ OpeningErrorsComplete'
    <2>1. ASSUME NEW q \in Peer, peers'[q].kind = "Opening"
          PROVE  /\ peers'[q] = peers[q]
                 /\ peers[q].dial \in ConnectionId /\ peers[q].dial # c
      <3>1. q # p /\ peers'[q] = peers[q]
        BY <1>5, <2>1, Zenon
      <3>2. peers[q].dial \in ConnectionId
        BY <1>1, <2>1, <3>1, Zenon DEF DialsTyped
      <3>3. remote[peers[q].dial] = q /\ remote[c] = p
        BY <1>0, <1>2, <3>2, Zenon DEF DialRecordUnaccepted
      <3> QED BY <3>1, <3>2, <3>3, Zenon
    <2>2. OpeningAttempted'
      <3>1. ASSUME NEW q \in Peer, peers'[q].kind = "Opening"
            PROVE  pending_connections'[peers'[q].dial] = q
        BY <1>0, <1>6, <2>1, <3>1 DEF OpeningAttempted
      <3>2. ASSUME NEW q \in Peer, peers'[q].kind = "Opening",
                   NEW u \in peers'[q].transports \cap Installed
            PROVE  transports'[u][peers'[q].dial] = "raw"
        <4>1. transports[u][peers[q].dial] = "raw"
          BY <1>0, <2>1, <3>2, Zenon DEF OpeningAttempted
        <4>2. transports'[u][peers[q].dial] = transports[u][peers[q].dial]
          BY <1>7, <2>1, <3>2, Zenon
        <4> QED BY <2>1, <3>2, <4>1, <4>2, Zenon
      <3> QED BY <3>1, <3>2, Zenon DEF OpeningAttempted
    <2>3. OpeningErrorsComplete'
      BY <1>0, <1>6, <2>1, Zenon DEF OpeningErrorsComplete
    <2> QED BY <2>2, <2>3, Zenon
  <1>12. PendingIsDialed' /\ OpenAttemptTracked'
    BY <1>0, <1>1, <1>2, <1>5, <1>6, <1>7, SMTT(30) DEF DialsTyped, PendingIsDialed, OpenAttemptTracked
  <1>13. ConnectionsAccounted' /\ LimitsCounted' /\ UserView'
    BY <1>0, <1>5, <1>6 DEF ConnectionsAccounted, LimitsCounted, UserView, Live
  <1>14. QED
    BY <1>4, <1>8, <1>9, <1>10, <1>11, <1>12, <1>13, Zenon DEF IInv

(* A transport drops a connection that nobody waits for. *)
LEMMA SocketDroppedInv ==
  ASSUME IInv, NEW t \in Installed, NEW c \in ConnectionId,
         RawCanceled(t, c) \/ InboundFailure(t, c)
  PROVE  IInv'
  <1> USE NoneNotId
  <1>0. /\ UnallocatedUnused /\ DialRecordUnaccepted /\ SecondaryDistinct /\ AcceptedHasRemote
        /\ EstablishedOnce /\ DialingNotOpening /\ OpeningAttempted /\ PendingIsDialed
        /\ ConnectionsAccounted /\ LimitsCounted /\ OpenAttemptTracked /\ DialAttemptTracked
        /\ OpeningErrorsComplete /\ UserView
    BY Zenon DEF IInv
  <1>1. /\ transports[t][c] \in {"inbound", "aborted"}
        /\ transports' = [transports EXCEPT ![t] = Socket!poll_failed(@, c)]
        /\ UNCHANGED <<peers, addresses, pending_connections, opening_errors, connection_limits,
                       commands, remote, listener, task, next_connection_id, panicked,
                       connected, awaiting>>
    BY Zenon DEF RawCanceled, InboundFailure, pending, history
  <1>2. TypeOK'
    <2>1. transports' \in [Installed -> [ConnectionId -> Socket!Stage]]
      BY <1>1, Zenon DEF IInv, TypeOK, Socket!poll_failed, Socket!Stage
    <2>2. QED
      BY <2>1, <1>1, Zenon DEF IInv, TypeOK
  <1>3. \A u \in Installed, d \in ConnectionId :
          transports'[u][d] = IF d = c /\ u = t THEN "none" ELSE transports[u][d]
    BY <1>1, ZenonT(30) DEF IInv, TypeOK, Socket!poll_failed
  <1>4. UnallocatedUnused' /\ EstablishedOnce' /\ DialingNotOpening' /\ DialAttemptTracked'
    BY <1>0, <1>1, <1>3, SMTT(30) DEF UnallocatedUnused, EstablishedOnce, DialingNotOpening,
       DialAttemptTracked, Allocated
  <1>5. OpeningAttempted' /\ OpenAttemptTracked'
    BY <1>0, <1>1, <1>3, DialTyping
    DEF OpeningAttempted, OpenAttemptTracked, IInv, DialsTyped
  <1>6. /\ DialRecordUnaccepted' /\ SecondaryDistinct' /\ AcceptedHasRemote'
        /\ PendingIsDialed' /\ OpeningErrorsComplete'
    BY <1>0, <1>1, Zenon DEF DialRecordUnaccepted, SecondaryDistinct, AcceptedHasRemote,
       PendingIsDialed, OpeningErrorsComplete, Allocated
  <1>7. ConnectionsAccounted' /\ LimitsCounted' /\ UserView'
    <2>1. Live' = Live
      BY <1>1, Zenon DEF Live
    <2> QED BY <1>0, <1>1, <2>1, Zenon DEF ConnectionsAccounted, LimitsCounted, UserView
  <1>8. QED
    BY <1>2, <1>4, <1>5, <1>6, <1>7, Zenon DEF IInv

(* A new inbound connection, which the manager admits or drops. *)
LEMMA NewInboundInv ==
  ASSUME IInv, NEW t \in Installed, PendingInboundConnection(t) \/ WebRtcInbound(t)
  PROVE  IInv'
  <1> DEFINE c == next_connection_id
  <1> USE NoneNotId
  <1>0. /\ UnallocatedUnused /\ DialRecordUnaccepted /\ SecondaryDistinct /\ AcceptedHasRemote
        /\ EstablishedOnce /\ DialingNotOpening /\ OpeningAttempted /\ PendingIsDialed
        /\ ConnectionsAccounted /\ LimitsCounted /\ OpenAttemptTracked /\ DialAttemptTracked
        /\ OpeningErrorsComplete /\ UserView
    BY Zenon DEF IInv
  <1>1. /\ c \in ConnectionId /\ c \notin Allocated
        /\ next_connection_id' \in 0 .. MaxConnections
        /\ Allocated' = Allocated \cup {c}
    <2>1. c < MaxConnections /\ next_connection_id' = c + 1
      BY BoundAssumption DEF IdAvailable, PendingInboundConnection, WebRtcInbound, IInv, TypeOK
    <2>2. QED
      BY <2>1, Allocation, Zenon
  <1>2. UNCHANGED <<peers, addresses, pending_connections, opening_errors, connection_limits,
                    commands, remote, task, panicked, connected, awaiting>>
    BY Zenon DEF PendingInboundConnection, WebRtcInbound, pending, history
  <1>3. \E stage \in {"none", "inbound"} :
          /\ transports' = [transports EXCEPT ![t] = [@ EXCEPT ![c] = stage]]
          /\ listener' = IF stage = "inbound" THEN listener \cup {c} ELSE listener
    <2>1. transports[t] \in [ConnectionId -> Socket!Stage]
      BY Zenon DEF IInv, TypeOK
    <2>2. CASE WebRtcInbound(t)
      BY <2>1, <2>2, Zenon DEF WebRtcInbound
    <2>3. CASE PendingInboundConnection(t)
      BY <2>1, <2>3, <1>1, Zenon DEF PendingInboundConnection, Socket!listener, Socket!accept_pending,
         Socket!reject_pending
    <2>4. QED
      BY <2>2, <2>3, Zenon
  <1>4. PICK stage \in {"none", "inbound"} :
          /\ transports' = [transports EXCEPT ![t] = [@ EXCEPT ![c] = stage]]
          /\ listener' = IF stage = "inbound" THEN listener \cup {c} ELSE listener
    BY Zenon, <1>3
  <1>5. TypeOK'
    <2>1. transports' \in [Installed -> [ConnectionId -> Socket!Stage]]
      BY Zenon, <1>4 DEF IInv, TypeOK, Socket!Stage
    <2>2. QED
      BY Zenon, <2>1, <1>1, <1>2, <1>4 DEF IInv, TypeOK
  <1>6. \A u \in Installed, d \in ConnectionId :
          transports'[u][d] = IF d = c /\ u = t THEN stage ELSE transports[u][d]
    BY <1>1, <1>4, Zenon DEF IInv, TypeOK
  <1>7. UnallocatedUnused' /\ EstablishedOnce' /\ DialingNotOpening' /\ DialAttemptTracked'
    BY <1>0, <1>1, <1>2, <1>4, <1>6, SMTT(30) DEF UnallocatedUnused, EstablishedOnce, DialingNotOpening,
       DialAttemptTracked
  <1>8. DialRecordUnaccepted' /\ OpeningAttempted' /\ OpenAttemptTracked'
    BY <1>0, <1>1, <1>2, <1>4, <1>6, DialTyping, SMTT(30)
    DEF DialRecordUnaccepted, OpeningAttempted, OpenAttemptTracked, IInv, DialsTyped
  <1>9. Live' = Live /\ c \notin Live /\ LimitsCounted'
    <2>1. Live' = Live /\ c \notin Live
      BY <1>0, <1>1, <1>2, Zenon DEF UnallocatedUnused, Live
    <2>2. QED
      BY <2>1, <1>0, <1>2, <1>4, Zenon DEF LimitsCounted
  <1>10. QED
    BY <1>0, <1>2, <1>5, <1>7, <1>8, <1>9, Zenon
    DEF IInv, SecondaryDistinct, AcceptedHasRemote, PendingIsDialed, ConnectionsAccounted,
        OpeningErrorsComplete, UserView
=============================================================================
