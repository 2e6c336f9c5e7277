-------------------- MODULE TransportManagerEventProofs --------------------
(***************************************************************************)
(* The steps of the proof that IInv is an invariant of TransportManager in *)
(* which a transport opens a connection, or fails to, and in which an      *)
(* established connection is accepted.                                     *)
(***************************************************************************)
EXTENDS TransportManagerDialProofs

-----------------------------------------------------------------------------
(* The end of an open attempt *)

(* What the event of an open attempt finds (OpenAttemptTracked). *)
LEMMA OpenAttempt ==
  ASSUME IInv, NEW t \in Installed, NEW c \in ConnectionId, transports[t][c] = "raw"
  PROVE  /\ remote[c] \in Peer /\ remote[c] # None
         /\ pending_connections[c] = remote[c]
         /\ peers[remote[c]] \in PeerStates
         /\ peers[remote[c]].kind = "Opening" /\ peers[remote[c]].dial = c
         /\ t \in peers[remote[c]].transports /\ t \in DialTransport
         /\ c \notin listener
         /\ \A u \in Installed : transports[u][c] \in {"none", "raw", "aborted"}
         /\ \A u \in peers[remote[c]].transports \cap Installed : transports[u][c] = "raw"
         /\ \A u \in Installed : transports[u][c] = "raw" => u \in peers[remote[c]].transports
         /\ \A q \in Peer : peers[q].dial = c => q = remote[c]
         /\ opening_errors[c] \cup peers[remote[c]].transports = peers[remote[c]].addresses
         /\ opening_errors[c] \cap peers[remote[c]].transports = {}
  <1>1. /\ DialsTyped /\ OpenAttemptTracked /\ PendingIsDialed /\ DialRecordUnaccepted
        /\ EstablishedOnce /\ DialingNotOpening /\ OpeningAttempted /\ OpeningErrorsComplete
    BY DialTyping, Zenon DEF IInv
  <1>2. /\ remote[c] \in Peer /\ remote[c] # None
        /\ pending_connections[c] = remote[c]
        /\ peers[remote[c]] \in PeerStates
        /\ peers[remote[c]].kind = "Opening" /\ t \in peers[remote[c]].transports
    BY <1>1, NoneAssumption, Zenon DEF OpenAttemptTracked, DialsTyped
  <1>3. peers[remote[c]].dial = c /\ t \in DialTransport
    BY <1>1, <1>2, StateFields, Zenon DEF PendingIsDialed
  <1>4. c # None
    BY NoneNotId, Zenon
  <1>5. c \notin listener /\ \A q \in Peer : peers[q].dial = c => q = remote[c]
    BY <1>1, <1>2, <1>3, <1>4, Zenon DEF DialRecordUnaccepted
  <1>6. \A u \in Installed : transports[u][c] \in {"none", "raw", "aborted"}
    BY <1>1, <1>2, <1>5, Zenon DEF EstablishedOnce, DialingNotOpening
  <1>7. /\ \A u \in peers[remote[c]].transports \cap Installed : transports[u][c] = "raw"
        /\ \A u \in Installed : transports[u][c] = "raw" => u \in peers[remote[c]].transports
        /\ opening_errors[c] \cup peers[remote[c]].transports = peers[remote[c]].addresses
        /\ opening_errors[c] \cap peers[remote[c]].transports = {}
    BY <1>1, <1>2, <1>3, SMTT(30) DEF OpeningAttempted, OpenAttemptTracked, OpeningErrorsComplete
  <1>8. QED
    BY <1>2, <1>3, <1>5, <1>6, <1>7, Zenon

(* The connection opened by t: the attempts of the other transports are    *)
(* cancelled, t negotiates, and the peer is Dialing.                       *)
LEMMA ConnectionOpenedFacts ==
  ASSUME IInv, NEW t \in Installed, NEW c \in ConnectionId, ConnectionOpened(t, c)
  PROVE  LET p == remote[c]
             r == State!on_connection_opened(peers[p], c) IN
         /\ transports[t][c] = "raw"
         /\ p \in Peer /\ p # None /\ pending_connections[c] = p
         /\ peers[p].kind = "Opening" /\ peers[p].dial = c
         /\ t \in DialTransport /\ c \notin listener
         /\ \A u \in Installed : transports[u][c] \in {"none", "raw", "aborted"}
         /\ \A q \in Peer : peers[q].dial = c => q = p
         /\ transports' \in [Installed -> [ConnectionId -> Socket!Stage]]
         /\ \A u \in Installed, d \in ConnectionId :
              transports'[u][d] = IF d = c THEN IF u = t THEN "negotiated"
                                                ELSE IF transports[u][c] = "raw" THEN "aborted"
                                                ELSE transports[u][c]
                                  ELSE transports[u][d]
         /\ peers' = [peers EXCEPT ![p] = r]
         /\ r \in PeerStates /\ r.kind = "Dialing" /\ r.dial = c /\ r.secondary = None
         /\ State!Connections(r) = State!Connections(peers[p])
         /\ \A d \in ConnectionId : pending_connections'[d] = pending_connections[d]
         /\ pending_connections' \in [ConnectionId -> Peer \cup {None}]
         /\ addresses' = [addresses EXCEPT ![p] = @ \cup {t}]
         /\ panicked' = CancelPanics(peers[p])
  <1> DEFINE p == remote[c]
             T == peers[p].transports
  <1> USE NoneNotId
  <1>r. transports[t][c] = "raw"
    BY ZenonT(30) DEF ConnectionOpened
  <1>2. /\ transports[t][c] = "raw"
        /\ p \in Peer /\ p # None /\ pending_connections[c] = p
        /\ peers[p] \in PeerStates /\ peers[p].kind = "Opening" /\ peers[p].dial = c
        /\ t \in T /\ t \in DialTransport /\ c \notin listener
        /\ \A u \in Installed : transports[u][c] \in {"none", "raw", "aborted"}
        /\ \A u \in Installed : transports[u][c] = "raw" => u \in T
        /\ \A q \in Peer : peers[q].dial = c => q = p
    BY <1>r, OpenAttempt
  <1> DEFINE opened == [transports EXCEPT ![t] = Socket!poll_opened(@, c)]
             cancelled == CancelAll(opened, T, c)
  <1>3. /\ transports' = [cancelled EXCEPT ![t] = Socket!negotiate(@, c)]
        /\ IF cancelled[t][c] = "opened"
             THEN /\ peers' = [peers EXCEPT ![p] = State!on_connection_opened(@, c)]
                  /\ pending_connections' =
                       [[pending_connections EXCEPT ![c] = None] EXCEPT ![c] = p]
             ELSE /\ peers' = [peers EXCEPT ![p] = State!Disconnected(None)]
                  /\ pending_connections' = [pending_connections EXCEPT ![c] = None]
        /\ addresses' = [addresses EXCEPT ![p] = @ \cup {t}]
        /\ panicked' = CancelPanics(peers[p])
    BY Zenon, <1>2 DEF ConnectionOpened
  <1>4. /\ transports \in [Installed -> [ConnectionId -> Socket!Stage]]
        /\ transports[t] \in [ConnectionId -> Socket!Stage]
    BY Zenon DEF IInv, TypeOK
  <1>5. /\ opened \in [Installed -> [ConnectionId -> Socket!Stage]]
        /\ \A u \in Installed, d \in ConnectionId :
             opened[u][d] = IF d = c /\ u = t THEN "opened" ELSE transports[u][d]
    BY <1>4, Zenon DEF Socket!poll_opened, Socket!Stage
  <1>6. /\ cancelled \in [Installed -> [ConnectionId -> Socket!Stage]]
        /\ \A u \in Installed, d \in ConnectionId :
             cancelled[u][d] = IF d = c /\ u \in T /\ opened[u][d] = "raw"
                                 THEN "aborted" ELSE opened[u][d]
    BY <1>5, Zenon DEF CancelAll, Socket!cancel, Socket!Stage
  <1>7. cancelled[t][c] = "opened"
    BY Zenon, <1>5, <1>6
  <1>8. /\ transports' \in [Installed -> [ConnectionId -> Socket!Stage]]
        /\ \A u \in Installed, d \in ConnectionId :
             transports'[u][d] = IF d = c THEN IF u = t THEN "negotiated"
                                               ELSE IF transports[u][c] = "raw" THEN "aborted"
                                               ELSE transports[u][c]
                                 ELSE transports[u][d]
    <2>1. \A u \in Installed, d \in ConnectionId :
             transports'[u][d] = IF u = t /\ d = c THEN "negotiated" ELSE cancelled[u][d]
      BY Zenon, <1>3, <1>6, <1>7 DEF Socket!negotiate
    <2>2. transports' \in [Installed -> [ConnectionId -> Socket!Stage]]
      BY Zenon, <1>3, <1>6, <1>7 DEF Socket!negotiate, Socket!Stage
    <2> HIDE DEF opened, cancelled
    <2>3. \A u \in Installed, d \in ConnectionId :
             transports'[u][d] = IF d = c THEN IF u = t THEN "negotiated"
                                               ELSE IF transports[u][c] = "raw" THEN "aborted"
                                               ELSE transports[u][c]
                                 ELSE transports[u][d]
      BY <2>1, <1>2, <1>5, <1>6, SMTT(30)
    <2>4. QED
      BY <2>2, <2>3, Zenon
  <1> DEFINE r == State!on_connection_opened(peers[p], c)
  <1>9. /\ peers' = [peers EXCEPT ![p] = r]
        /\ r \in PeerStates /\ r.kind = "Dialing" /\ r.dial = c /\ r.secondary = None
        /\ State!Connections(r) = State!Connections(peers[p])
        /\ \A d \in ConnectionId : pending_connections'[d] = pending_connections[d]
        /\ pending_connections' \in [ConnectionId -> Peer \cup {None}]
    BY <1>2, <1>3, <1>7, OpenedState, SMTT(30) DEF IInv, TypeOK
  <1>10. QED
    BY <1>2, <1>3, <1>8, <1>9, Zenon

(* One transport opens the connection: the others are cancelled. *)
LEMMA ConnectionOpenedInv ==
  ASSUME IInv, NEW t \in Installed, NEW c \in ConnectionId, ConnectionOpened(t, c)
  PROVE  IInv'
  <1> DEFINE p == remote[c]
             r == State!on_connection_opened(peers[p], c)
  <1> USE NoneNotId
  <1>0. /\ UnallocatedUnused /\ DialRecordUnaccepted /\ SecondaryDistinct /\ AcceptedHasRemote
        /\ EstablishedOnce /\ DialingNotOpening /\ OpeningAttempted /\ PendingIsDialed
        /\ ConnectionsAccounted /\ LimitsCounted /\ OpenAttemptTracked /\ DialAttemptTracked
        /\ OpeningErrorsComplete /\ UserView
    BY Zenon DEF IInv
  <1>1. DialsTyped
    BY DialTyping, Zenon DEF IInv
  <1>2. /\ transports[t][c] = "raw"
        /\ p \in Peer /\ p # None /\ pending_connections[c] = p
        /\ peers[p].kind = "Opening" /\ peers[p].dial = c
        /\ t \in DialTransport /\ c \notin listener
        /\ \A u \in Installed : transports[u][c] \in {"none", "raw", "aborted"}
        /\ \A q \in Peer : peers[q].dial = c => q = p
    BY ConnectionOpenedFacts, SMTT(30)
  <1>3. /\ addresses' = [addresses EXCEPT ![p] = @ \cup {t}]
        /\ panicked' = CancelPanics(peers[p])
    BY ConnectionOpenedFacts, SMTT(30)
  <1>8. /\ transports' \in [Installed -> [ConnectionId -> Socket!Stage]]
        /\ \A u \in Installed, d \in ConnectionId :
             transports'[u][d] = IF d = c THEN IF u = t THEN "negotiated"
                                               ELSE IF transports[u][c] = "raw" THEN "aborted"
                                               ELSE transports[u][c]
                                 ELSE transports[u][d]
    BY ConnectionOpenedFacts, SMTT(30)
  <1>9. /\ peers' = [peers EXCEPT ![p] = r]
        /\ r \in PeerStates /\ r.kind = "Dialing" /\ r.dial = c /\ r.secondary = None
        /\ State!Connections(r) = State!Connections(peers[p])
        /\ \A d \in ConnectionId : pending_connections'[d] = pending_connections[d]
        /\ pending_connections' \in [ConnectionId -> Peer \cup {None}]
    BY ConnectionOpenedFacts
  <1> HIDE DEF r
  <1>10. /\ \A q \in Peer : q # p => peers'[q] = peers[q]
         /\ peers'[p].kind = "Dialing" /\ peers'[p].dial = c /\ peers'[p].secondary = None
         /\ \A q \in Peer : State!Connections(peers'[q]) = State!Connections(peers[q])
    BY <1>2, <1>9, ZenonT(30) DEF IInv, TypeOK
  <1>11. /\ UNCHANGED <<connection_limits, commands, remote, listener, task,
                        next_connection_id, connected, awaiting>>
         /\ \A d \in ConnectionId :
              opening_errors'[d] = IF d = c THEN {} ELSE opening_errors[d]
    BY Zenon DEF ConnectionOpened, history, IInv, TypeOK
  <1>12. TypeOK'
    <2>1. /\ opening_errors' \in [ConnectionId -> SUBSET DialTransport]
          /\ addresses' \in [Peer -> SUBSET DialTransport]
          /\ panicked' \in BOOLEAN
      BY <1>2, <1>3, Zenon DEF ConnectionOpened, CancelPanics, IInv, TypeOK
    <2>2. peers' \in [Peer -> State!States(ConnectionId, DialTransport)]
      BY ZenonT(30), <1>9 DEF IInv, TypeOK, PeerStates
    <2>3. QED
      BY <2>1, <2>2, <1>8, <1>9, <1>11, Zenon DEF IInv, TypeOK
  <1>13. UnallocatedUnused' /\ AcceptedHasRemote' /\ SecondaryDistinct'
    BY <1>0, <1>8, <1>9, <1>10, <1>11, <1>2, SMTT(30)
    DEF UnallocatedUnused, AcceptedHasRemote, SecondaryDistinct, Allocated
  <1>14. DialRecordUnaccepted' /\ EstablishedOnce'
    <2>1. DialRecordUnaccepted'
      BY <1>0, <1>2, <1>10, <1>11, SMTT(30) DEF DialRecordUnaccepted, Allocated
    <2>2. EstablishedOnce'
      BY <1>0, <1>2, <1>8, <1>11 DEF EstablishedOnce
    <2>3. QED
      BY <2>1, <2>2, Zenon
  <1>15. DialingNotOpening' /\ DialAttemptTracked'
    <2>1. \A u \in Installed, d \in ConnectionId :
            transports'[u][d] \in {"dialing", "negotiated"} =>
              d = c \/ transports[u][d] \in {"dialing", "negotiated"}
      BY <1>8, Zenon
    <2>2. DialAttemptTracked'
      BY <2>1, <1>0, <1>2, <1>9, <1>11, SMTT(30) DEF DialAttemptTracked
    <2>3. DialingNotOpening'
      BY <2>1, <1>0, <1>1, <1>2, <1>10, <1>11, SMTT(30)
      DEF DialsTyped, DialingNotOpening, DialAttemptTracked
    <2>4. QED
      BY <2>2, <2>3, Zenon
  <1>16. OpeningAttempted' /\ OpeningErrorsComplete'
    BY <1>0, <1>1, <1>2, <1>8, <1>9, <1>10, <1>11, SMTT(30)
    DEF DialsTyped, OpeningAttempted, OpeningErrorsComplete
  <1>17. PendingIsDialed' /\ OpenAttemptTracked'
    BY <1>0, <1>1, <1>2, <1>8, <1>9, <1>10, <1>11, SMTT(30)
    DEF DialsTyped, PendingIsDialed, OpenAttemptTracked
  <1>18. ConnectionsAccounted' /\ LimitsCounted' /\ UserView'
    BY <1>0, <1>10, <1>11 DEF ConnectionsAccounted, LimitsCounted, UserView, Live
  <1>19. QED
    BY <1>12, <1>13, <1>14, <1>15, <1>16, <1>17, <1>18, Zenon DEF IInv

(* One transport fails to open: the dial goes on with the others, or ends. *)
LEMMA OpenFailureInv ==
  ASSUME IInv, NEW t \in Installed, NEW c \in ConnectionId, OpenFailure(t, c)
  PROVE  IInv'
  <1> DEFINE p == remote[c]
             s == peers[p]
             r == State!on_open_failure(s, t)
             ends == r.kind = "Disconnected"
  <1> USE NoneNotId
  <1>0. /\ UnallocatedUnused /\ DialRecordUnaccepted /\ SecondaryDistinct /\ AcceptedHasRemote
        /\ EstablishedOnce /\ DialingNotOpening /\ OpeningAttempted /\ PendingIsDialed
        /\ ConnectionsAccounted /\ LimitsCounted /\ OpenAttemptTracked /\ DialAttemptTracked
        /\ OpeningErrorsComplete /\ UserView
    BY Zenon DEF IInv
  <1>1. DialsTyped
    BY DialTyping, Zenon DEF IInv
  <1>r. transports[t][c] = "raw"
    BY Zenon DEF OpenFailure
  <1>2. /\ transports[t][c] = "raw"
        /\ p \in Peer /\ p # None /\ pending_connections[c] = p
        /\ s \in PeerStates /\ s.kind = "Opening" /\ s.dial = c
        /\ t \in s.transports /\ t \in DialTransport
        /\ \A u \in Installed : transports[u][c] = "raw" => u \in s.transports
        /\ \A u \in s.transports \cap Installed : transports[u][c] = "raw"
        /\ \A u \in Installed : transports[u][c] \in {"none", "raw", "aborted"}
        /\ \A q \in Peer : peers[q].dial = c => q = p
        /\ opening_errors[c] \cup s.transports = s.addresses
        /\ opening_errors[c] \cap s.transports = {}
    BY <1>r, OpenAttempt, SMTT(30)
  <1>3. /\ r \in PeerStates /\ r.secondary = None
        /\ State!Connections(r) = State!Connections(s)
        /\ \/ ends /\ r.dial = None /\ r.kind # "Opening" /\ s.transports \subseteq {t}
           \/ /\ ~ends /\ r.kind = "Opening" /\ r.dial = c
              /\ r.addresses = s.addresses /\ r.transports = s.transports \ {t}
    BY <1>2, OpenFailureState
  <1>4. r # s
    BY <1>2, <1>3, ZenonT(30)
  <1>5. /\ peers' = [peers EXCEPT ![p] = r]
        /\ transports' = [transports EXCEPT ![t] = Socket!poll_failed(@, c)]
        /\ addresses' = [addresses EXCEPT ![p] = @ \cup {t}]
        /\ UNCHANGED <<connection_limits, commands, remote, listener, task,
                       next_connection_id, panicked, connected>>
        /\ peers'[p] = r
    BY <1>2, <1>4, SMTT(30) DEF OpenFailure, ReportDialFailure, history, IInv, TypeOK
  <1>6. /\ pending_connections' =
             IF ends THEN [pending_connections EXCEPT ![c] = None] ELSE pending_connections
        /\ opening_errors' =
             [opening_errors EXCEPT ![c] = IF ends THEN {} ELSE opening_errors[c] \cup {t}]
        /\ awaiting' = IF ends THEN awaiting \ {p} ELSE awaiting
    BY <1>2, <1>4, <1>5 DEF OpenFailure, ReportDialFailure, history
  <1> HIDE DEF r
  <1>7. TypeOK'
    <2>1. transports' \in [Installed -> [ConnectionId -> Socket!Stage]]
      BY <1>5, ZenonT(30) DEF IInv, TypeOK, Socket!poll_failed, Socket!Stage
    <2>2. /\ pending_connections' \in [ConnectionId -> Peer \cup {None}]
          /\ opening_errors' \in [ConnectionId -> SUBSET DialTransport]
          /\ addresses' \in [Peer -> SUBSET DialTransport]
          /\ awaiting' \subseteq Peer
      BY <1>2, <1>5, <1>6 DEF IInv, TypeOK
    <2>3. QED
      BY <2>1, <2>2, <1>3, <1>5, Zenon DEF IInv, TypeOK, PeerStates
  <1>8. /\ \A q \in Peer : q # p => peers'[q] = peers[q]
        /\ \A q \in Peer : State!Connections(peers'[q]) = State!Connections(peers[q])
    BY <1>2, <1>3, <1>5, Zenon DEF IInv, TypeOK
  <1>9. /\ \A d \in ConnectionId :
             pending_connections'[d] = IF d = c /\ ends THEN None ELSE pending_connections[d]
        /\ \A d \in ConnectionId : d # c => opening_errors'[d] = opening_errors[d]
        /\ opening_errors'[c] = IF ends THEN {} ELSE opening_errors[c] \cup {t}
    BY <1>6, Zenon DEF IInv, TypeOK
  <1>10. \A u \in Installed, d \in ConnectionId :
           transports'[u][d] = IF d = c /\ u = t THEN "none" ELSE transports[u][d]
    BY <1>5, ZenonT(30) DEF IInv, TypeOK, Socket!poll_failed
  <1>11. UnallocatedUnused' /\ AcceptedHasRemote' /\ SecondaryDistinct'
    <2>1. c \in Allocated
      BY <1>0, <1>2, ZenonT(30) DEF UnallocatedUnused
    <2>2. QED
      BY <2>1, <1>0, <1>3, <1>5, <1>8, <1>9, <1>10, SMTT(30)
      DEF UnallocatedUnused, AcceptedHasRemote, SecondaryDistinct, Allocated
  <1>12. DialRecordUnaccepted' /\ EstablishedOnce'
    BY <1>0, <1>2, <1>3, <1>5, <1>8, <1>10, SMTT(30) DEF EstablishedOnce, DialRecordUnaccepted, Allocated
  <1>13. DialingNotOpening' /\ DialAttemptTracked'
    <2>1. \A u \in Installed, d \in ConnectionId :
            transports'[u][d] \in {"dialing", "negotiated"} =>
              d # c /\ transports[u][d] \in {"dialing", "negotiated"}
      BY <1>2, <1>10, SMTT(30)
    <2>2. DialAttemptTracked'
      BY <2>1, <1>0, <1>5, <1>9, Zenon DEF DialAttemptTracked
    <2>3. \A u \in Installed, d \in ConnectionId :
            transports'[u][d] \in {"dialing", "negotiated"} => remote[d] \in Peer /\ remote[d] # p
      BY <2>1, <1>0, <1>1, <1>2 DEF DialsTyped, DialingNotOpening, DialAttemptTracked
    <2>4. DialingNotOpening'
      BY <2>1, <2>3, <1>0, <1>5, <1>8 DEF DialingNotOpening
    <2>5. QED
      BY <2>2, <2>4, Zenon
  <1>14. OpeningAttempted' /\ OpeningErrorsComplete'
    <2>1. \A q \in Peer : q # p /\ peers[q].kind = "Opening" =>
            peers[q].dial \in ConnectionId /\ peers[q].dial # c
      BY <1>1, <1>2, ZenonT(30) DEF DialsTyped
    <2>2. OpeningAttempted'
      BY <2>1, <1>0, <1>2, <1>3, <1>5, <1>8, <1>9, <1>10, SMTT(30) DEF OpeningAttempted
    <2>3. OpeningErrorsComplete'
      BY <2>1, <1>0, <1>2, <1>3, <1>5, <1>8, <1>9 DEF OpeningErrorsComplete
    <2>4. QED
      BY <2>2, <2>3, Zenon
  <1>15. PendingIsDialed' /\ OpenAttemptTracked'
    <2>1. PendingIsDialed'
      BY <1>0, <1>1, <1>2, <1>3, <1>5, <1>8, <1>9, SMTT(30) DEF DialsTyped, PendingIsDialed
    <2>2. \A u \in Installed, d \in ConnectionId : transports'[u][d] = "raw" =>
            /\ transports[u][d] = "raw" /\ (d = c => u # t)
            /\ remote[d] \in Peer /\ (remote[d] = p => d = c)
      BY <1>0, <1>1, <1>2, <1>10 DEF DialsTyped, PendingIsDialed, OpenAttemptTracked
    <2>3. OpenAttemptTracked'
      BY <2>2, <1>0, <1>2, <1>3, <1>5, <1>8, <1>9, SMTT(30) DEF OpenAttemptTracked
    <2>4. QED
      BY <2>1, <2>3, Zenon
  <1>16. ConnectionsAccounted' /\ LimitsCounted' /\ UserView'
    BY <1>0, <1>5, <1>8, Zenon DEF ConnectionsAccounted, LimitsCounted, UserView, Live
  <1>17. QED
    BY <1>7, <1>11, <1>12, <1>13, <1>14, <1>15, <1>16, Zenon DEF IInv

-----------------------------------------------------------------------------
(* Accepted connections *)

(* What accepting a connection does to the transports and to the pending   *)
(* connections: c is handed over, the open attempts of p are cancelled.    *)
LEMMA AcceptedFacts ==
  ASSUME IInv, NEW t \in Installed, NEW c \in ConnectionId, NEW p \in Peer,
         Accepted(t, c, p)
  PROVE  LET forgets(d) == peers[p].kind = "Opening" /\ d = peers[p].dial IN
         /\ transports' \in [Installed -> [ConnectionId -> Socket!Stage]]
         /\ \A u \in Installed, d \in ConnectionId :
              transports'[u][d] =
                IF u = t /\ d = c THEN "none"
                ELSE IF forgets(d) /\ transports[u][d] = "raw" THEN "aborted"
                ELSE transports[u][d]
         /\ pending_connections' \in [ConnectionId -> Peer \cup {None}]
         /\ \A d \in ConnectionId :
              pending_connections'[d] = IF d = c \/ forgets(d) THEN None
                                        ELSE pending_connections[d]
         /\ panicked' \in BOOLEAN
  <1> USE NoneNotId
  <1> DEFINE s == peers[p]
             established == [transports EXCEPT ![t] = Socket!poll_established(@, c)]
             cancelled == CancelAll(established, s.transports, s.dial)
  <1>1. /\ transports \in [Installed -> [ConnectionId -> Socket!Stage]]
        /\ transports[t] \in [ConnectionId -> Socket!Stage]
        /\ s \in PeerStates /\ DialsTyped /\ OpenAttemptTracked /\ DialRecordUnaccepted
        /\ s.kind = "Opening" => s.dial # c /\ s.dial \in ConnectionId /\ s.dial # None
    <2>1. DialsTyped
      BY DialTyping, Zenon DEF IInv
    <2>2. QED
      BY <2>1, EstablishedFacts, SMTT(30) DEF IInv, TypeOK, Accepted, DialsTyped
  <1>2. /\ established \in [Installed -> [ConnectionId -> Socket!Stage]]
        /\ \A u \in Installed, d \in ConnectionId :
             established[u][d] = IF d = c /\ u = t THEN "pending_open" ELSE transports[u][d]
    BY <1>1, Zenon DEF Socket!poll_established, Socket!Stage
  <1>3. s.kind # "Opening" => cancelled = established
    BY Zenon, <1>1, <1>2, StateFields DEF CancelAll
  <1>4. s.kind = "Opening" =>
          /\ cancelled \in [Installed -> [ConnectionId -> Socket!Stage]]
          /\ \A u \in Installed, d \in ConnectionId :
               cancelled[u][d] =
                 IF d = s.dial /\ u \in s.transports /\ established[u][d] = "raw"
                   THEN "aborted" ELSE established[u][d]
    BY <1>1, <1>2, Zenon DEF CancelAll, Socket!cancel, Socket!Stage
  <1> HIDE DEF established
  <1>5. \A u \in Installed, d \in ConnectionId :
          s.kind = "Opening" /\ d = s.dial /\ transports[u][d] = "raw" => u \in s.transports
    BY <1>1 DEF OpenAttemptTracked, DialRecordUnaccepted
  <1> DEFINE forgets(d) == s.kind = "Opening" /\ d = s.dial
  <1> HIDE DEF cancelled
  <1>6. /\ cancelled \in [Installed -> [ConnectionId -> Socket!Stage]]
        /\ \A u \in Installed, d \in ConnectionId :
             cancelled[u][d] =
               IF u = t /\ d = c THEN "pending_open"
               ELSE IF forgets(d) /\ transports[u][d] = "raw" THEN "aborted"
               ELSE transports[u][d]
    <2>1. CASE s.kind = "Opening"
      BY <2>1, <1>1, <1>2, <1>4, <1>5, SMTT(30)
    <2>2. CASE s.kind # "Opening"
      BY <2>2, <1>2, <1>3
    <2>3. QED
      BY <2>1, <2>2, Zenon
  <1>7. transports' = [cancelled EXCEPT ![t] = Socket!accept(@, c)]
    BY Zenon DEF Accepted, cancelled, established
  <1>8. transports' = [cancelled EXCEPT ![t] = [cancelled[t] EXCEPT ![c] = "none"]]
    BY Zenon, <1>6, <1>7 DEF Socket!accept
  <1>9. /\ transports' \in [Installed -> [ConnectionId -> Socket!Stage]]
        /\ \A u \in Installed, d \in ConnectionId :
             transports'[u][d] = IF u = t /\ d = c THEN "none" ELSE cancelled[u][d]
    BY <1>6, <1>8, Zenon DEF Socket!Stage
  <1>10. /\ pending_connections' \in [ConnectionId -> Peer \cup {None}]
         /\ \A d \in ConnectionId :
              pending_connections'[d] = IF d = c \/ forgets(d) THEN None
                                        ELSE pending_connections[d]
         /\ panicked' \in BOOLEAN
    BY Zenon DEF Accepted, CancelPanics, IInv, TypeOK
  <1>11. QED
    BY <1>6, <1>9, <1>10

(* The parts of the invariant that do not depend on whether the accepted   *)
(* connection goes on to live.                                             *)
LEMMA AcceptedInv ==
  ASSUME IInv, NEW t \in Installed, NEW c \in ConnectionId, NEW p \in Peer,
         Accepted(t, c, p),
         \A q \in Peer : q # p => peers'[q] = peers[q],
         peers'[p].kind # "Opening",
         peers[p].kind = "Opening" => peers'[p].dial = None,
         peers[p].kind # "Opening" =>
           peers'[p].dial = IF peers[p].dial = c THEN None ELSE peers[p].dial,
         \A d \in ConnectionId : d # c => task'[d] = task[d],
         \A d \in ConnectionId : d # c => (d \in listener' <=> d \in listener),
         c \in listener => c \in listener',
         UNCHANGED next_connection_id
  PROVE  /\ UnallocatedUnused' /\ DialRecordUnaccepted' /\ AcceptedHasRemote'
         /\ EstablishedOnce' /\ DialingNotOpening' /\ OpeningAttempted' /\ PendingIsDialed'
         /\ OpenAttemptTracked' /\ DialAttemptTracked' /\ OpeningErrorsComplete'
  <1> DEFINE forgets(d) == peers[p].kind = "Opening" /\ d = peers[p].dial
  <1> USE NoneNotId
  <1>0. /\ UnallocatedUnused /\ DialRecordUnaccepted /\ SecondaryDistinct /\ AcceptedHasRemote
        /\ EstablishedOnce /\ DialingNotOpening /\ OpeningAttempted /\ PendingIsDialed
        /\ ConnectionsAccounted /\ LimitsCounted /\ OpenAttemptTracked /\ DialAttemptTracked
        /\ OpeningErrorsComplete /\ UserView
    BY Zenon DEF IInv
  <1>1. DialsTyped
    BY DialTyping, ZenonT(30) DEF IInv
  <1>2. /\ task[c] = "none" /\ c \in Allocated
        /\ \A u \in Installed : u # t => transports[u][c] \in {"none", "aborted"}
        /\ \A q \in Peer : peers[q].kind = "Opening" => peers[q].dial # c
        /\ \A q \in Peer : peers[q].dial = c => q = p
        /\ \A d \in ConnectionId : remote'[d] = IF d = c THEN p ELSE remote[d]
        /\ \A d \in ConnectionId :
             opening_errors'[d] = IF d = c THEN {} ELSE opening_errors[d]
    BY EstablishedFacts, SMTT(30) DEF Accepted
  <1>3. /\ \A u \in Installed, d \in ConnectionId :
             transports'[u][d] =
               IF u = t /\ d = c THEN "none"
               ELSE IF forgets(d) /\ transports[u][d] = "raw" THEN "aborted"
               ELSE transports[u][d]
        /\ \A d \in ConnectionId :
             pending_connections'[d] = IF d = c \/ forgets(d) THEN None
                                       ELSE pending_connections[d]
    BY AcceptedFacts
  <1>4. \A d \in ConnectionId : forgets(d) => d \in Allocated /\ remote[d] = p
    BY <1>0, <1>1 DEF DialsTyped, DialRecordUnaccepted
  <1>5. \A u \in Installed, d \in ConnectionId :
          /\ transports'[u][d] = "raw" => transports[u][d] = "raw" /\ d # c /\ ~forgets(d)
          /\ transports'[u][d] \in {"dialing", "negotiated"} =>
               transports[u][d] = transports'[u][d] /\ d # c /\ ~forgets(d)
    BY <1>0, <1>2, <1>3, <1>4, SMTT(30) DEF DialingNotOpening
  <1>6. UnallocatedUnused' /\ AcceptedHasRemote'
    BY <1>0, <1>2, <1>3, <1>4, NoneAssumption DEF UnallocatedUnused, AcceptedHasRemote, Allocated
  <1>7. DialRecordUnaccepted'
    BY <1>0, <1>1, <1>2, SMTT(30) DEF DialsTyped, DialRecordUnaccepted, Allocated
  <1>8. EstablishedOnce'
    BY <1>0, <1>2, <1>3, SMTT(30) DEF EstablishedOnce
  <1>9. DialingNotOpening' /\ DialAttemptTracked'
    BY <1>0, <1>1, <1>2, <1>3, <1>5, SMTT(30) DEF DialsTyped, DialingNotOpening, DialAttemptTracked
  <1>10. OpeningAttempted' /\ OpeningErrorsComplete'
    <2>1. \A q \in Peer : q # p /\ peers[q].kind = "Opening" =>
            peers[q].dial \in ConnectionId /\ peers[q].dial # c /\ ~forgets(peers[q].dial)
      BY <1>0, <1>1, <1>2, <1>4 DEF DialsTyped, DialRecordUnaccepted
    <2>2. QED
      BY <2>1, <1>0, <1>2, <1>3, SMTT(30) DEF OpeningAttempted, OpeningErrorsComplete
  <1>11. PendingIsDialed'
    BY <1>0, <1>1, <1>2, <1>3, SMTT(30) DEF DialsTyped, PendingIsDialed
  <1>12. OpenAttemptTracked'
    <2>1. \A u \in Installed, d \in ConnectionId :
            transports'[u][d] = "raw" => remote[d] \in Peer /\ remote[d] # p
      BY <1>0, <1>1, <1>5, SMTT(30) DEF DialsTyped, OpenAttemptTracked, PendingIsDialed
    <2>2. QED
      BY <2>1, <1>0, <1>2, <1>3, <1>5, SMTT(30) DEF OpenAttemptTracked
  <1>13. QED
    BY <1>6, <1>7, <1>8, <1>9, <1>10, <1>11, <1>12, Zenon

(* A connection that is accepted keeps the invariant. *)
LEMMA AcceptConnectionInv ==
  ASSUME IInv, NEW t \in Installed, NEW c \in ConnectionId, NEW p \in Peer,
         AcceptConnection(t, c, p)
  PROVE  IInv'
  <1> DEFINE s == peers[p]
             r == State!on_connection_established(s, c)
  <1> USE NoneNotId
  <1>0. /\ SecondaryDistinct /\ ConnectionsAccounted /\ LimitsCounted /\ UserView
        /\ DialsTyped /\ AcceptedHasRemote
    BY DialTyping, Zenon DEF IInv
  <1>1. /\ Accepted(t, c, p) /\ Established(t, c, p)
        /\ s \in PeerStates /\ State!accepts_connection(s, c)
    BY <1>0, Zenon DEF AcceptConnection, Accepted, Accepts, DialsTyped
  <1>2. /\ task[c] = "none" /\ c \notin Live
        /\ \A d \in ConnectionId : remote'[d] = IF d = c THEN p ELSE remote[d]
    BY <1>1, EstablishedFacts, SMTT(30)
  <1>3. /\ peers' = [peers EXCEPT ![p] = r]
        /\ r \in PeerStates /\ r.kind # "Opening"
        /\ State!Connections(r) = State!Connections(s) \cup {c}
        /\ s.kind = "Opening" => r.dial = None
        /\ s.kind # "Opening" => r.dial = IF s.dial = c THEN None ELSE s.dial
        /\ r.secondary # None => r.record \in State!Connections(s) /\ r.secondary = c
    BY <1>1, EstablishedState, SMTT(30) DEF AcceptConnection
  <1> HIDE DEF r
  <1>4. /\ peers'[p] = r
        /\ \A q \in Peer : q # p => peers'[q] = peers[q]
        /\ task' \in [ConnectionId -> Task]
        /\ \A d \in ConnectionId : task'[d] = IF d = c THEN "accepting" ELSE task[d]
        /\ listener' \subseteq ConnectionId
        /\ \A d \in ConnectionId : d # c => (d \in listener' <=> d \in listener)
        /\ c \in listener' <=> is_listener(t, c)
        /\ c \in listener => c \in listener'
        /\ UNCHANGED <<commands, next_connection_id, connected, awaiting>>
    BY <1>3, Zenon DEF AcceptConnection, is_listener, history, IInv, TypeOK, Task
  <1>5. /\ UnallocatedUnused' /\ DialRecordUnaccepted' /\ AcceptedHasRemote'
        /\ EstablishedOnce' /\ DialingNotOpening' /\ OpeningAttempted' /\ PendingIsDialed'
        /\ OpenAttemptTracked' /\ DialAttemptTracked' /\ OpeningErrorsComplete'
    <2>1. /\ peers'[p].kind # "Opening"
          /\ peers[p].kind = "Opening" => peers'[p].dial = None
          /\ peers[p].kind # "Opening" =>
               peers'[p].dial = IF peers[p].dial = c THEN None ELSE peers[p].dial
      BY <1>3, <1>4, Zenon
    <2>2. \A d \in ConnectionId : d # c => task'[d] = task[d]
      BY <1>4, Zenon
    <2>3. UNCHANGED next_connection_id
      BY <1>4, Zenon
    <2> QED BY <1>1, <1>4, <2>1, <2>2, <2>3, AcceptedInv, Zenon
  <1>6. Live' = Live \cup {c}
    BY <1>2, <1>4, Zenon DEF Live
  <1>7. connection_limits' \in [incoming_connections : SUBSET ConnectionId,
                                outgoing_connections : SUBSET ConnectionId]
        /\ LimitsCounted'
    <2>1. connection_limits \in [incoming_connections : SUBSET ConnectionId,
                                 outgoing_connections : SUBSET ConnectionId]
      BY Zenon DEF IInv, TypeOK
    <2>2. connection_limits' = Limits!accept_established_connection(
                                  connection_limits, c, is_listener(t, c))
      BY Zenon DEF AcceptConnection
    <2>3. CASE is_listener(t, c)
      <3>1. /\ Live' \cap listener' = (Live \cap listener) \cup {c}
            /\ Live' \ listener' = Live \ listener
        BY <2>3, <1>2, <1>4, <1>6, Zenon DEF Live
      <3>2. QED
        BY <3>1, <2>1, <2>2, <2>3, <1>0, Zenon
        DEF Limits!accept_established_connection, LimitsCounted
    <2>4. CASE ~is_listener(t, c)
      <3>1. /\ Live' \cap listener' = Live \cap listener
            /\ Live' \ listener' = (Live \ listener) \cup {c}
        BY <2>4, <1>2, <1>4, <1>6, Zenon DEF Live
      <3>2. QED
        BY <3>1, <2>1, <2>2, <2>4, <1>0, Zenon
        DEF Limits!accept_established_connection, LimitsCounted
    <2>5. QED
      BY <2>3, <2>4, Zenon
  <1>8. TypeOK'
    BY ZenonT(30), <1>1, <1>3, <1>4, <1>7, EstablishedFacts, AcceptedFacts DEF IInv, TypeOK, PeerStates
  <1>9. ConnectionsAccounted' /\ UserView'
    <2>1. Live \subseteq ConnectionId
      BY ZenonT(30) DEF Live
    <2>2. ConnectionsAccounted'
      <3>1. remote'[c] = p /\ \A d \in Live : remote'[d] = remote[d]
        BY <2>1, <1>2, Zenon
      <3>2. ASSUME NEW q \in Peer, q # p
            PROVE  {d \in Live' : remote'[d] = q} = {d \in Live : remote[d] = q}
        BY <3>1, <3>2, <1>6, Zenon
      <3>3. {d \in Live' : remote'[d] = p} = {d \in Live : remote[d] = p} \cup {c}
        BY <3>1, <1>6, Zenon
      <3>4. State!Connections(s) = {d \in Live : remote[d] = p}
        BY <1>0, Zenon DEF ConnectionsAccounted
      <3>5. State!Connections(peers'[p]) = {d \in Live' : remote'[d] = p}
        BY <3>3, <3>4, <1>3, <1>4, Zenon
      <3>6. ASSUME NEW q \in Peer, q # p
            PROVE  State!Connections(peers'[q]) = {d \in Live' : remote'[d] = q}
        BY <3>2, <3>6, <1>0, <1>4, ZenonT(30) DEF ConnectionsAccounted
      <3>7. QED
        BY <3>5, <3>6, Zenon DEF ConnectionsAccounted
    <2>3. UserView'
      BY <2>1, <1>0, <1>2, <1>4, <1>6, Zenon DEF UserView
    <2>4. QED
      BY <2>2, <2>3, Zenon
  <1>10. SecondaryDistinct'
    BY <1>0, <1>2, <1>3, <1>4, SMTT(30) DEF SecondaryDistinct, ConnectionsAccounted
  <1>11. QED
    BY <1>5, <1>7, <1>8, <1>9, <1>10, Zenon DEF IInv

(* ... and so does one whose acceptance fails in the transport. *)
LEMMA AcceptFailureInv ==
  ASSUME IInv, NEW t \in Installed, NEW c \in ConnectionId, NEW p \in Peer,
         AcceptFailure(t, c, p)
  PROVE  IInv'
  <1> DEFINE s == peers[p]
             e == State!on_connection_established(s, c)
             r == State!on_connection_closed(e, c)
  <1> USE NoneNotId
  <1>0. /\ SecondaryDistinct /\ ConnectionsAccounted /\ LimitsCounted /\ UserView
        /\ DialsTyped
    BY DialTyping, Zenon DEF IInv
  <1>1. /\ Accepted(t, c, p) /\ Established(t, c, p)
        /\ s \in PeerStates /\ State!accepts_connection(s, c)
    BY <1>0, Zenon DEF AcceptFailure, Accepted, Accepts, DialsTyped
  <1>2. /\ task[c] = "none" /\ c \notin Live
        /\ \A d \in ConnectionId : remote'[d] = IF d = c THEN p ELSE remote[d]
    BY <1>1, EstablishedFacts
  <1>3. c \notin State!Connections(s)
    BY <1>0, <1>2, Zenon DEF ConnectionsAccounted
  <1>4. /\ e \in PeerStates /\ e.kind = "Connected"
        /\ State!Connections(e) = State!Connections(s) \cup {c}
        /\ s.kind = "Opening" => e.dial = None
        /\ s.kind # "Opening" => e.dial = IF s.dial = c THEN None ELSE s.dial
        /\ e.secondary # None => e.record \in State!Connections(s) /\ e.secondary = c
    BY <1>1, EstablishedState, SMTT(30)
  <1>5. e.record # e.secondary
    <2>1. e.record # None
      BY <1>4, Zenon DEF PeerStates, State!States, State!WellFormed
    <2>2. QED
      BY <2>1, <1>3, <1>4, Zenon
  <1> HIDE DEF e
  <1>6. /\ r \in PeerStates /\ r.kind # "Opening" /\ r.dial = e.dial
        /\ State!Connections(r) = State!Connections(e) \ {c}
        /\ r.secondary # None => r.secondary = e.secondary /\ r.record = e.record
    BY <1>4, <1>5, ClosedState, Zenon
  <1>7. peers' = [peers EXCEPT ![p] = r]
    BY Zenon DEF AcceptFailure, e
  <1> HIDE DEF r
  <1>8. /\ peers'[p] = r
        /\ \A q \in Peer : q # p => peers'[q] = peers[q]
        /\ UNCHANGED <<commands, listener, next_connection_id, connected, awaiting, task>>
    BY <1>7, Zenon DEF AcceptFailure, history, IInv, TypeOK
  <1>9. /\ UnallocatedUnused' /\ DialRecordUnaccepted' /\ AcceptedHasRemote'
        /\ EstablishedOnce' /\ DialingNotOpening' /\ OpeningAttempted' /\ PendingIsDialed'
        /\ OpenAttemptTracked' /\ DialAttemptTracked' /\ OpeningErrorsComplete'
    BY <1>1, <1>4, <1>6, <1>8, AcceptedInv, Zenon
  <1>10. connection_limits' = connection_limits
    <2>1. connection_limits \in [incoming_connections : SUBSET ConnectionId,
                                 outgoing_connections : SUBSET ConnectionId]
      BY Zenon DEF IInv, TypeOK
    <2>2. /\ c \notin connection_limits.incoming_connections
          /\ c \notin connection_limits.outgoing_connections
      BY <1>0, <1>2, Zenon DEF LimitsCounted
    <2>3. connection_limits' = Limits!on_connection_closed(
            Limits!accept_established_connection(connection_limits, c, is_listener(t, c)), c)
      BY Zenon DEF AcceptFailure
    <2>4. CASE is_listener(t, c)
      BY <2>1, <2>2, <2>3, <2>4, Zenon
      DEF Limits!on_connection_closed, Limits!accept_established_connection
    <2>5. CASE ~is_listener(t, c)
      BY <2>1, <2>2, <2>3, <2>5, Zenon
      DEF Limits!on_connection_closed, Limits!accept_established_connection
    <2>6. QED
      BY <2>4, <2>5, Zenon
  <1>11. TypeOK'
    BY Zenon, <1>1, <1>6, <1>7, <1>8, <1>10, EstablishedFacts, AcceptedFacts
    DEF IInv, TypeOK, PeerStates
  <1>12. ConnectionsAccounted' /\ LimitsCounted' /\ UserView'
    <2>1. Live' = Live /\ Live \subseteq ConnectionId
      BY <1>8, Zenon DEF Live
    <2>2. State!Connections(r) = State!Connections(s)
      BY <1>3, <1>4, <1>6, ZenonT(30)
    <2>3. ConnectionsAccounted'
      <3>1. \A d \in Live : remote'[d] = remote[d]
        BY <2>1, <1>2, Zenon
      <3>2. ASSUME NEW q \in Peer
            PROVE  {d \in Live' : remote'[d] = q} = {d \in Live : remote[d] = q}
        BY <2>1, <3>1, Zenon
      <3>3. QED
        BY <2>2, <3>2, <1>0, <1>8, Zenon DEF ConnectionsAccounted
    <2>4. LimitsCounted' /\ UserView'
      BY <2>1, <1>0, <1>2, <1>8, <1>10, Zenon DEF UserView, LimitsCounted
    <2>5. QED
      BY <2>3, <2>4, Zenon
  <1>13. SecondaryDistinct'
    BY <1>0, <1>5, <1>6, <1>8, Zenon DEF SecondaryDistinct
  <1>14. QED
    BY <1>9, <1>11, <1>12, <1>13, Zenon DEF IInv
=============================================================================
