-------------------------- MODULE TransportManager --------------------------
(***************************************************************************)
(* The transport manager (transport/manager/mod.rs) with the handle that   *)
(* protocols dial through (transport/manager/handle.rs), the transports it *)
(* drives and the tasks of the connections it has accepted.                *)
(*                                                                         *)
(* A transport produces an event inside TransportManager::next, and the    *)
(* event is handled in the same branch of its select!, so a result of a    *)
(* transport and its handler are one action.  Peers, addresses and errors  *)
(* are abstracted to what the control depends on: an address is the        *)
(* transport that dials it, an error is the transport that reported it.    *)
(***************************************************************************)
EXTENDS Naturals, Sequences, FiniteSets

CONSTANTS
  Peer,                      \* remote peers
  Transport,                 \* SupportedTransport
  Installed,                 \* transports passed to register_transport
  InboundOnly,               \* transports that cannot dial (WebRTC)
  OpensAsListener,           \* transports that forget they opened a connection (QUIC)
  None,                      \* Option::None
  max_incoming_connections,  \* ConnectionLimitsConfig
  max_outgoing_connections,
  CommandCapacity,           \* capacity of the handle's command channel
  MaxConnections             \* bound: connection ids ever allocated

ConnectionId == 0 .. MaxConnections - 1
DialTransport == Transport \ InboundOnly

ASSUME TransportAssumption ==
  /\ Installed \subseteq Transport
  /\ InboundOnly \subseteq Transport
  /\ OpensAsListener \subseteq Transport

ASSUME BoundAssumption ==
  /\ MaxConnections \in Nat
  /\ CommandCapacity \in Nat

ASSUME LimitAssumption ==
  /\ max_incoming_connections \in Nat \cup {None}
  /\ max_outgoing_connections \in Nat \cup {None}

ASSUME NoneAssumption == None \notin Peer \cup Nat

State  == INSTANCE PeerState
Limits == INSTANCE ConnectionLimits
Socket == INSTANCE SocketTransport

VARIABLES
  peers,                \* PeerContext::state
  addresses,            \* PeerContext::addresses
  pending_connections,  \* connection id -> dialed peer, or None
  opening_errors,       \* connection id -> errors of the transports that failed
  connection_limits,
  next_connection_id,
  commands,             \* cmd_tx / cmd_rx
  transports,           \* transport -> connection id -> stage
  remote,               \* connection id -> the peer dialed, or at the other end
  listener,             \* connection ids whose endpoint is a listener
  task,                 \* connection id -> stage of the accepted connection
  panicked,             \* an expect() of the manager has failed
  connected,            \* history: peers the user has been told are connected
  awaiting              \* history: peers whose dial returned Ok, with no event since

pending == <<pending_connections, opening_errors>>
network == <<transports, remote, listener, task, next_connection_id>>
history == <<connected, awaiting>>
vars == <<peers, addresses, pending, connection_limits, commands, network,
          panicked, history>>

(* pending_accept holds "accepting"; event_rx holds the ConnectionClosed   *)
(* event of "closing".                                                     *)
Task == {"none", "accepting", "running", "closing", "closed"}
Command == [peer : Peer, address : DialTransport \cup {None}]

TypeOK ==
  /\ peers \in [Peer -> State!States(ConnectionId, DialTransport)]
  /\ addresses \in [Peer -> SUBSET DialTransport]
  /\ pending_connections \in [ConnectionId -> Peer \cup {None}]
  /\ opening_errors \in [ConnectionId -> SUBSET DialTransport]
  /\ connection_limits \in [incoming_connections : SUBSET ConnectionId,
                            outgoing_connections : SUBSET ConnectionId]
  /\ next_connection_id \in 0 .. MaxConnections
  /\ commands \in Seq(Command)
  /\ transports \in [Installed -> [ConnectionId -> Socket!Stage]]
  /\ remote \in [ConnectionId -> Peer \cup {None}]
  /\ listener \subseteq ConnectionId
  /\ task \in [ConnectionId -> Task]
  /\ panicked \in BOOLEAN
  /\ connected \subseteq Peer
  /\ awaiting \subseteq Peer

Init ==
  /\ peers = [p \in Peer |-> State!Disconnected(None)]
  /\ addresses = [p \in Peer |-> {}]
  /\ pending_connections = [c \in ConnectionId |-> None]
  /\ opening_errors = [c \in ConnectionId |-> {}]
  /\ connection_limits = Limits!new
  /\ next_connection_id = 0
  /\ commands = <<>>
  /\ transports = [t \in Installed |-> [c \in ConnectionId |-> "none"]]
  /\ remote = [c \in ConnectionId |-> None]
  /\ listener = {}
  /\ task = [c \in ConnectionId |-> "none"]
  /\ panicked = FALSE
  /\ connected = {}
  /\ awaiting = {}

(* The task of the manager, which an expect() that fails would end. *)
Running == ~panicked

-----------------------------------------------------------------------------
(* Dialing *)

(* TransportManagerHandle::add_known_address keeps the addresses of the    *)
(* installed transports.                                                   *)
add_known_address(p, t) ==
  /\ t \in Installed
  /\ addresses' = [addresses EXCEPT ![p] = @ \cup {t}]
  /\ UNCHANGED <<peers, pending, connection_limits, commands, network,
                 panicked, history>>

(* AddressStore::addresses(limit): the best addresses, within the capacity *)
(* that the limits leave.                                                  *)
Selections(p) ==
  IF max_outgoing_connections = None
    THEN {addresses[p]} \ {{}}
    ELSE {ts \in (SUBSET addresses[p]) \ {{}} :
            Limits!within_capacity(connection_limits, Cardinality(ts))}

(* TransportManager::dial returns an error and changes nothing. *)
dial_fails(p) ==
  \/ ~Limits!on_dial_address(connection_limits)
  \/ State!AlreadyConnected(peers[p])
  \/ State!can_dial(peers[p]) /\ addresses[p] = {}

(* ... returns Ok because a dial is under way already. *)
dial_in_progress(p) ==
  /\ Limits!on_dial_address(connection_limits)
  /\ State!DialingInProgress(peers[p])
  /\ awaiting' = awaiting \cup {p}
  /\ UNCHANGED <<peers, addresses, pending, connection_limits, network,
                 panicked, connected>>

(* ... opens the selected addresses on every transport they belong to. *)
dial_opens(p, ts) ==
  LET c == next_connection_id IN
  /\ Limits!on_dial_address(connection_limits)
  /\ State!can_dial(peers[p])
  /\ c < MaxConnections
  /\ next_connection_id' = c + 1
  /\ peers' = [peers EXCEPT ![p] = State!dial_addresses(@, c, ts, ts)]
  /\ transports' = [t \in Installed |-> IF t \in ts THEN Socket!open(transports[t], c)
                                                    ELSE transports[t]]
  /\ remote' = [remote EXCEPT ![c] = p]
  /\ pending_connections' = [pending_connections EXCEPT ![c] = p]
  /\ awaiting' = awaiting \cup {p}
  /\ UNCHANGED <<addresses, opening_errors, connection_limits, listener, task,
                 panicked, connected>>

dial(p) ==
  \/ dial_in_progress(p)
  \/ \E ts \in Selections(p) : dial_opens(p, ts)

(* TransportManager::dial_address.  The address is stored and the peer is  *)
(* put into Dialing before the transport is looked up; an error then       *)
(* leaves both behind.                                                     *)
dial_address(p, t) ==
  LET c == next_connection_id
      starts == State!can_dial(peers[p]) /\ t \in Installed IN
  /\ Limits!on_dial_address(connection_limits)
  /\ c < MaxConnections
  /\ next_connection_id' = c + 1
  /\ addresses' = [addresses EXCEPT ![p] = @ \cup {t}]
  /\ peers' = [peers EXCEPT ![p] = State!dial_single_address(@, c)]
  /\ remote' = [remote EXCEPT ![c] = p]
  /\ IF starts
       THEN /\ transports' = [transports EXCEPT ![t] = Socket!dial(@, c)]
            /\ pending_connections' = [pending_connections EXCEPT ![c] = p]
       ELSE UNCHANGED <<transports, pending_connections>>
  /\ awaiting' = IF starts \/ State!DialingInProgress(peers[p])
                   THEN awaiting \cup {p} ELSE awaiting
  /\ UNCHANGED <<opening_errors, connection_limits, listener, task, panicked,
                 connected>>

(* Bound: a queued command keeps a connection id for itself, so that the   *)
(* bound on ids never holds up the command channel.                        *)
IdAvailable == next_connection_id + Len(commands) < MaxConnections

(* Litep2p::dial and Litep2p::dial_address call the manager directly. *)
Dial(p) == Running /\ IdAvailable /\ dial(p) /\ UNCHANGED commands

DialAddress(p, t) ==
  Running /\ IdAvailable /\ dial_address(p, t) /\ UNCHANGED commands

(* TransportManagerHandle::dial reads the peer state under the lock it     *)
(* shares with the manager, and queues a command for the manager.          *)
HandleDial(p) ==
  /\ ~State!AlreadyConnected(peers[p])
  /\ awaiting' = awaiting \cup {p}
  /\ IF State!DialingInProgress(peers[p])
       THEN UNCHANGED commands
       ELSE /\ addresses[p] # {}
            /\ IdAvailable
            /\ Len(commands) < CommandCapacity
            /\ commands' = Append(commands, [peer |-> p, address |-> None])
  /\ UNCHANGED <<peers, addresses, pending, connection_limits, network,
                 panicked, connected>>

(* TransportManagerHandle::dial_address only looks for a peer id. *)
HandleDialAddress(p, t) ==
  /\ IdAvailable
  /\ Len(commands) < CommandCapacity
  /\ commands' = Append(commands, [peer |-> p, address |-> t])
  /\ UNCHANGED <<peers, addresses, pending, connection_limits, network,
                 panicked, history>>

(* The cmd_rx branch of next: an error of the dial is only logged. *)
ProcessCommand ==
  /\ Running
  /\ commands # <<>>
  /\ commands' = Tail(commands)
  /\ LET p == Head(commands).peer
         t == Head(commands).address IN
       IF t = None
         THEN \/ dial(p)
              \/ /\ dial_fails(p)
                 /\ UNCHANGED <<peers, addresses, pending, connection_limits,
                                network, panicked, history>>
         ELSE \/ dial_address(p, t)
              \/ /\ ~Limits!on_dial_address(connection_limits)
                 /\ UNCHANGED <<peers, addresses, pending, connection_limits,
                                network, panicked, history>>

-----------------------------------------------------------------------------
(* Results of dials and opens *)

(* The user and every protocol are told how a dial of p ended. *)
ReportDialFailure(p) ==
  /\ awaiting' = awaiting \ {p}
  /\ UNCHANGED connected

(* TransportEvent::DialFailure: update_address_on_dial_failure, then       *)
(* on_dial_failure.                                                        *)
DialFailure(t, c) ==
  LET p == pending_connections[c] IN
  /\ Running
  /\ transports[t][c] = "dialing"
  /\ transports' = [transports EXCEPT ![t] = Socket!poll_failed(@, c)]
  /\ addresses' = [addresses EXCEPT ![remote[c]] = @ \cup {t}]
  /\ pending_connections' = [pending_connections EXCEPT ![c] = None]
  /\ IF p = None
       THEN UNCHANGED <<peers, history>>
       ELSE /\ peers' = [peers EXCEPT ![p] = State!on_dial_failure(@, c)]
            /\ ReportDialFailure(remote[c])
  /\ UNCHANGED <<opening_errors, connection_limits, commands, remote, listener,
                 task, next_connection_id, panicked>>

(* The cancel() of connection d on each of the transports ts. *)
CancelAll(socks, ts, d) ==
  [t \in Installed |-> IF t \in ts THEN Socket!cancel(socks[t], d) ELSE socks[t]]

(* The expect("transport to exist") on the transports of an Opening state. *)
CancelPanics(s) == s.kind = "Opening" /\ ~(s.transports \subseteq Installed)

(* TransportEvent::ConnectionOpened and on_connection_opened: the open     *)
(* attempts of the other transports are cancelled and the connection is    *)
(* negotiated.                                                             *)
ConnectionOpened(t, c) ==
  LET p == pending_connections[c]
      d == peers[p].dial
      forgotten == [pending_connections EXCEPT ![c] = None]
      opened == [transports EXCEPT ![t] = Socket!poll_opened(@, c)]
      cancelled == CancelAll(opened, peers[p].transports, d) IN
  /\ Running
  /\ transports[t][c] = "raw"
  /\ opening_errors' = [opening_errors EXCEPT ![c] = {}]
  /\ IF p = None
       THEN UNCHANGED addresses
       ELSE addresses' = [addresses EXCEPT ![p] = @ \cup {t}]
  /\ IF p = None \/ peers[p].kind # "Opening"
       THEN /\ transports' = opened
            /\ pending_connections' = forgotten
            /\ UNCHANGED <<peers, panicked>>
       ELSE /\ transports' = [cancelled EXCEPT ![t] = Socket!negotiate(@, d)]
            /\ IF cancelled[t][d] = "opened"
                 THEN /\ peers' = [peers EXCEPT ![p] = State!on_connection_opened(@, c)]
                      /\ pending_connections' = [forgotten EXCEPT ![d] = p]
                 ELSE /\ peers' = [peers EXCEPT ![p] = State!Disconnected(None)]
                      /\ pending_connections' = forgotten
            /\ panicked' = CancelPanics(peers[p])
  /\ UNCHANGED <<connection_limits, commands, remote, listener, task,
                 next_connection_id, history>>

(* TransportEvent::OpenFailure and on_open_failure: the dial has failed    *)
(* once its last transport has.                                            *)
OpenFailure(t, c) ==
  LET p == pending_connections[c] IN
  /\ Running
  /\ transports[t][c] = "raw"
  /\ transports' = [transports EXCEPT ![t] = Socket!poll_failed(@, c)]
  /\ addresses' = [addresses EXCEPT ![remote[c]] = @ \cup {t}]
  /\ IF p = None \/ State!on_open_failure(peers[p], t) = peers[p]
       THEN UNCHANGED <<peers, pending, history>>
       ELSE /\ peers' = [peers EXCEPT ![p] = State!on_open_failure(@, t)]
            /\ IF peers'[p].kind = "Disconnected"
                 THEN /\ pending_connections' = [pending_connections EXCEPT ![c] = None]
                      /\ opening_errors' = [opening_errors EXCEPT ![c] = {}]
                      /\ ReportDialFailure(p)
                 ELSE /\ opening_errors' = [opening_errors EXCEPT ![c] = @ \cup {t}]
                      /\ UNCHANGED <<pending_connections, history>>
  /\ UNCHANGED <<connection_limits, commands, remote, listener, task,
                 next_connection_id, panicked>>

(* RawConnectionResult::Canceled: the future is dropped, with no event. *)
RawCanceled(t, c) ==
  /\ Running
  /\ transports[t][c] = "aborted"
  /\ transports' = [transports EXCEPT ![t] = Socket!poll_failed(@, c)]
  /\ UNCHANGED <<peers, addresses, pending, connection_limits, commands, remote,
                 listener, task, next_connection_id, panicked, history>>

-----------------------------------------------------------------------------
(* Established connections *)

(* TransportEvent::PendingInboundConnection: the listener has a socket, and *)
(* the manager admits it or drops it.                                      *)
PendingInboundConnection(t) ==
  LET c == next_connection_id
      socket == Socket!listener(transports[t], c) IN
  /\ Running
  /\ t \notin InboundOnly
  /\ IdAvailable
  /\ next_connection_id' = c + 1
  /\ IF Limits!on_incoming(connection_limits)
       THEN /\ transports' = [transports EXCEPT ![t] = Socket!accept_pending(socket, c)]
            /\ listener' = listener \cup {c}
       ELSE /\ transports' = [transports EXCEPT ![t] = Socket!reject_pending(socket, c)]
            /\ UNCHANGED listener
  /\ UNCHANGED <<peers, addresses, pending, connection_limits, commands, remote,
                 task, panicked, history>>

(* WebRTC starts the handshake without asking the manager. *)
WebRtcInbound(t) ==
  LET c == next_connection_id IN
  /\ Running
  /\ t \in InboundOnly
  /\ IdAvailable
  /\ next_connection_id' = c + 1
  /\ transports' = [transports EXCEPT ![t][c] = "inbound"]
  /\ listener' = listener \cup {c}
  /\ UNCHANGED <<peers, addresses, pending, connection_limits, commands, remote,
                 task, panicked, history>>

(* The handshake of an inbound connection fails: nobody is told. *)
InboundFailure(t, c) ==
  /\ Running
  /\ transports[t][c] = "inbound"
  /\ transports' = [transports EXCEPT ![t] = Socket!poll_failed(@, c)]
  /\ UNCHANGED <<peers, addresses, pending, connection_limits, commands, remote,
                 listener, task, next_connection_id, panicked, history>>

(* The endpoint a transport reports.  QUIC makes a dialer only of an id in *)
(* pending_dials, where dial() puts it and open() does not.                *)
is_listener(t, c) ==
  \/ c \in listener
  \/ t \in OpensAsListener /\ transports[t][c] = "negotiated"

(* poll_next yields ConnectionEstablished { p, c }.  The remote of an      *)
(* inbound connection is learned in the handshake.                         *)
Established(t, c, p) ==
  /\ Running
  /\ transports[t][c] \in {"inbound", "dialing", "negotiated"}
  /\ c \in listener \/ remote[c] = p
  /\ remote' = [remote EXCEPT ![c] = p]
  /\ opening_errors' = [opening_errors EXCEPT ![c] = {}]
  /\ addresses' = IF is_listener(t, c) THEN addresses
                  ELSE [addresses EXCEPT ![p] = @ \cup {t}]

(* on_connection_established accepts: the pending entry names no other     *)
(* peer, the limits allow it and the peer state has room.                  *)
Accepts(t, c, p) ==
  /\ pending_connections[c] \in {None, p}
  /\ Limits!can_accept_connection(connection_limits, is_listener(t, c))
  /\ State!accepts_connection(peers[p], c)

(* The transport drops a rejected connection.  A dial that c was made for  *)
(* keeps its dial record.                                                  *)
RejectConnection(t, c, p) ==
  /\ Established(t, c, p)
  /\ ~Accepts(t, c, p)
  /\ pending_connections' = [pending_connections EXCEPT ![c] = None]
  /\ transports' = [transports EXCEPT ![t] =
                      Socket!reject(Socket!poll_established(@, c), c)]
  /\ UNCHANGED <<peers, connection_limits, commands, listener, task,
                 next_connection_id, panicked, history>>

(* What accepting c changes, whether or not the transport still has it:    *)
(* the open attempts of an Opening state are cancelled and forgotten.      *)
Accepted(t, c, p) ==
  LET established == [transports EXCEPT ![t] = Socket!poll_established(@, c)]
      cancelled == CancelAll(established, peers[p].transports, peers[p].dial) IN
  /\ Established(t, c, p)
  /\ Accepts(t, c, p)
  /\ pending_connections' =
       [d \in ConnectionId |->
          IF d = c \/ (peers[p].kind = "Opening" /\ d = peers[p].dial)
            THEN None ELSE pending_connections[d]]
  /\ transports' = [cancelled EXCEPT ![t] = Socket!accept(@, c)]
  /\ panicked' = CancelPanics(peers[p])

AcceptConnection(t, c, p) ==
  /\ Accepted(t, c, p)
  /\ peers' = [peers EXCEPT ![p] = State!on_connection_established(@, c)]
  /\ connection_limits' = Limits!accept_established_connection(
                             connection_limits, c, is_listener(t, c))
  /\ listener' = IF is_listener(t, c) THEN listener \cup {c} ELSE listener
  /\ task' = [task EXCEPT ![c] = "accepting"]
  /\ UNCHANGED <<commands, next_connection_id, history>>

(* Mutant: the limits keep counting a connection that was not accepted. *)
AcceptFailure_counted(t, c, p) ==
  /\ t \in InboundOnly
  /\ Accepted(t, c, p)
  /\ peers' = [peers EXCEPT ![p] = State!on_connection_closed(
                               State!on_connection_established(@, c), c)]
  /\ connection_limits' = Limits!accept_established_connection(
                             connection_limits, c, is_listener(t, c))
  /\ UNCHANGED <<commands, listener, task, next_connection_id, history>>

(* accept() of a WebRTC connection that was dropped in the meantime fails, *)
(* and the manager handles the connection as closed.                       *)
AcceptFailure(t, c, p) ==
  LET accepted == Limits!accept_established_connection(
                    connection_limits, c, is_listener(t, c)) IN
  /\ t \in InboundOnly
  /\ Accepted(t, c, p)
  /\ peers' = [peers EXCEPT ![p] = State!on_connection_closed(
                               State!on_connection_established(@, c), c)]
  /\ connection_limits' = Limits!on_connection_closed(accepted, c)
  /\ UNCHANGED <<commands, listener, task, next_connection_id, history>>

(* The pending_accept branch of next: all protocols know of the connection, *)
(* its task is started and the user is told, in one poll.                  *)
AcceptCompleted(c) ==
  /\ Running
  /\ task[c] = "accepting"
  /\ task' = [task EXCEPT ![c] = "running"]
  /\ connected' = connected \cup {remote[c]}
  /\ awaiting' = awaiting \ {remote[c]}
  /\ UNCHANGED <<peers, addresses, pending, connection_limits, commands,
                 transports, remote, listener, next_connection_id, panicked>>

(* The task of the connection ends and sends ConnectionClosed. *)
CloseConnection(c) ==
  /\ task[c] = "running"
  /\ task' = [task EXCEPT ![c] = "closing"]
  /\ UNCHANGED <<peers, addresses, pending, connection_limits, commands,
                 transports, remote, listener, next_connection_id, panicked,
                 history>>

(* The event_rx branch of next: on_connection_closed, and the user is told *)
(* when it was the last connection of the peer.                            *)
ConnectionClosed(c) ==
  LET p == remote[c] IN
  /\ Running
  /\ task[c] = "closing"
  /\ task' = [task EXCEPT ![c] = "closed"]
  /\ connection_limits' = Limits!on_connection_closed(connection_limits, c)
  /\ peers' = [peers EXCEPT ![p] = State!on_connection_closed(@, c)]
  /\ connected' = IF State!last_connection_closed(peers[p], c)
                    THEN connected \ {p} ELSE connected
  /\ UNCHANGED <<addresses, pending, commands, transports, remote, listener,
                 next_connection_id, panicked, awaiting>>

-----------------------------------------------------------------------------
DialStep ==
  \E p \in Peer :
    \/ Dial(p)
    \/ HandleDial(p)
    \/ \E t \in DialTransport :
         add_known_address(p, t) \/ DialAddress(p, t) \/ HandleDialAddress(p, t)

(* A result of the transport t for the connection c, and its handler. *)
TransportResult(t, c) ==
  \/ DialFailure(t, c)
  \/ ConnectionOpened(t, c)
  \/ OpenFailure(t, c)
  \/ RawCanceled(t, c)
  \/ InboundFailure(t, c)
  \/ \E p \in Peer : \/ RejectConnection(t, c, p)
                    \/ AcceptConnection(t, c, p)
                    \/ AcceptFailure(t, c, p)

TransportStep ==
  \E t \in Installed :
    \/ PendingInboundConnection(t)
    \/ WebRtcInbound(t)
    \/ \E c \in ConnectionId : TransportResult(t, c)

ConnectionStep ==
  \E c \in ConnectionId :
    AcceptCompleted(c) \/ CloseConnection(c) \/ ConnectionClosed(c)

Next == DialStep \/ ProcessCommand \/ TransportStep \/ ConnectionStep

Spec == Init /\ [][Next]_vars

(* select! picks among its ready branches at random, so none of them       *)
(* starves; dial, open and handshake futures all end by a timeout.         *)
Fairness ==
  /\ WF_vars(ProcessCommand)
  /\ \A c \in ConnectionId :
       /\ WF_vars(AcceptCompleted(c))
       /\ WF_vars(ConnectionClosed(c))
       /\ \A t \in Installed : WF_vars(TransportResult(t, c))

FairSpec == Spec /\ Fairness

-----------------------------------------------------------------------------
(* Properties *)

(* The accepted connections the manager has not yet seen close. *)
Live == {c \in ConnectionId : task[c] \in {"accepting", "running", "closing"}}

(* A pending connection is the dial its peer is waiting for: whatever      *)
(* inbound connections, failures and cancellations come in between, no     *)
(* entry of pending_connections outlives the dial record it stands for.    *)
PendingIsDialed ==
  \A c \in ConnectionId :
    pending_connections[c] # None => peers[pending_connections[c]].dial = c

(* The peer state accounts for exactly the connections that are live, so a *)
(* peer never has more than two and no live connection is ever forgotten.  *)
ConnectionsAccounted ==
  \A p \in Peer :
    State!Connections(peers[p]) = {c \in Live : remote[c] = p}

(* The limits count exactly the live connections of their direction: what  *)
(* accept_established_connection adds, on_connection_closed takes away.    *)
LimitsCounted ==
  /\ connection_limits.incoming_connections =
       IF max_incoming_connections = None THEN {} ELSE Live \cap listener
  /\ connection_limits.outgoing_connections =
       IF max_outgoing_connections = None THEN {} ELSE Live \ listener

(* No more connections are live than the configured maximum, although      *)
(* several dials and handshakes pass the early checks of on_dial_address   *)
(* and on_incoming before the first of them is established.                *)
LimitsRespected ==
  /\ max_incoming_connections # None =>
       Cardinality(Live \cap listener) <= max_incoming_connections
  /\ max_outgoing_connections # None =>
       Cardinality(Live \ listener) <= max_outgoing_connections

(* The event of an open attempt that was not cancelled always finds its    *)
(* dial: the race described at on_connection_established (the pending      *)
(* entry cleared by an inbound connection before ConnectionOpened arrives, *)
(* which would trip the debug_assert of on_connection_opened) cannot       *)
(* happen, nor can an open failure hit a state that does not expect it.    *)
OpenAttemptTracked ==
  \A t \in Installed, c \in ConnectionId :
    transports[t][c] = "raw" =>
      /\ remote[c] # None
      /\ pending_connections[c] = remote[c]
      /\ peers[remote[c]].kind = "Opening"
      /\ t \in peers[remote[c]].transports

(* A connection being dialed or negotiated is pending for the peer of its  *)
(* address, so the debug_assert on mismatching peers cannot fail and a     *)
(* dial failure always has a peer to report.                               *)
DialAttemptTracked ==
  \A t \in Installed, c \in ConnectionId :
    transports[t][c] \in {"dialing", "negotiated"} =>
      remote[c] # None /\ pending_connections[c] = remote[c]

(* opening_errors and the transports still opening split the addresses of  *)
(* the dial: the OpenFailure the user gets names every one of them.        *)
OpeningErrorsComplete ==
  \A p \in Peer :
    peers[p].kind = "Opening" =>
      /\ opening_errors[peers[p].dial] \cup peers[p].transports = peers[p].addresses
      /\ opening_errors[peers[p].dial] \cap peers[p].transports = {}

(* A dial record always has an attempt working on it, when no limit can    *)
(* reject its connection and every address can be dialed.  Otherwise the   *)
(* peer could never be dialed again.                                       *)
NoOrphanDial ==
  (/\ max_outgoing_connections = None
   /\ max_incoming_connections = None \/ OpensAsListener = {}
   /\ DialTransport \subseteq Installed) =>
    \A p \in Peer :
      peers[p].dial # None =>
        /\ pending_connections[peers[p].dial] = p
        /\ \E t \in Installed :
             transports[t][peers[p].dial] \in {"raw", "dialing", "negotiated"}

(* The user's view: a peer reported as connected still has a connection    *)
(* that is live, and a connection that was reported belongs to a peer the  *)
(* user has as connected.                                                  *)
UserView ==
  /\ \A p \in connected : \E c \in Live : remote[c] = p
  /\ \A c \in Live : task[c] # "accepting" => remote[c] \in connected

(* No expect() of the manager fails. *)
NoPanic == ~panicked

-----------------------------------------------------------------------------
(* The inductive invariant of the proofs *)

(* The connection ids handed out so far. *)
Allocated == {c \in ConnectionId : c < next_connection_id}

(* Nothing is known of a connection id before it is allocated. *)
UnallocatedUnused ==
  \A c \in ConnectionId \ Allocated :
    /\ pending_connections[c] = None
    /\ opening_errors[c] = {}
    /\ c \notin listener
    /\ task[c] = "none"
    /\ \A t \in Installed : transports[t][c] = "none"

(* A dial record belongs to an outbound connection of the peer that was    *)
(* never accepted; so no two peers share one.                              *)
DialRecordUnaccepted ==
  \A p \in Peer : peers[p].dial # None =>
    /\ peers[p].dial \in Allocated
    /\ remote[peers[p].dial] = p
    /\ peers[p].dial \notin listener
    /\ task[peers[p].dial] = "none"

(* The two connections of a peer are different ones. *)
SecondaryDistinct ==
  \A p \in Peer : peers[p].secondary # None => peers[p].secondary # peers[p].record

(* An accepted connection has a remote peer. *)
AcceptedHasRemote ==
  \A c \in ConnectionId : task[c] # "none" => remote[c] # None

(* A connection that can still be established is established once: it is   *)
(* not accepted yet, and no other transport works on the same id.          *)
EstablishedOnce ==
  \A t \in Installed, c \in ConnectionId :
    /\ transports[t][c] \in {"none", "inbound", "dialing", "raw", "aborted", "negotiated"}
    /\ transports[t][c] = "inbound" => c \in listener
    /\ transports[t][c] \in {"dialing", "negotiated"} =>
         c \notin listener /\ t \in DialTransport
    /\ transports[t][c] \in {"inbound", "dialing", "raw", "negotiated"} => task[c] = "none"
    /\ transports[t][c] \in {"inbound", "dialing", "negotiated"} =>
         \A u \in Installed \ {t} : transports[u][c] \in {"none", "aborted"}

(* The dial of a connection past the opening stage is not Opening. *)
DialingNotOpening ==
  \A t \in Installed, c \in ConnectionId :
    transports[t][c] \in {"dialing", "negotiated"} =>
      peers[remote[c]].kind # "Opening"

(* Every installed transport of an Opening state has its attempt running. *)
OpeningAttempted ==
  \A p \in Peer : peers[p].kind = "Opening" =>
    /\ pending_connections[peers[p].dial] = p
    /\ \A t \in peers[p].transports \cap Installed : transports[t][peers[p].dial] = "raw"

IInv ==
  /\ TypeOK
  /\ UnallocatedUnused
  /\ DialRecordUnaccepted
  /\ SecondaryDistinct
  /\ AcceptedHasRemote
  /\ EstablishedOnce
  /\ DialingNotOpening
  /\ OpeningAttempted
  /\ PendingIsDialed
  /\ ConnectionsAccounted
  /\ LimitsCounted
  /\ OpenAttemptTracked
  /\ DialAttemptTracked
  /\ OpeningErrorsComplete
  /\ UserView

-----------------------------------------------------------------------------
(* Action and liveness properties *)

(* Events about a peer alternate: ConnectionClosed is sent only while the  *)
(* user has the peer as connected and its last connection ends.            *)
ClosedIsLast ==
  [][\A p \in Peer : p \in connected \ connected' =>
        ~\E c \in ConnectionId : remote[c] = p /\ task'[c] \in {"accepting", "running"}]_vars

(* can_dial: "The dialing state is already in progress, an event will be   *)
(* emitted later."  Whoever was told that a dial is under way hears how it *)
(* ended.                                                                  *)
DialReported ==
  \A p \in Peer : []<>(p \notin awaiting)
=============================================================================
