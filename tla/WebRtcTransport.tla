--------------------------- MODULE WebRtcTransport ---------------------------
(***************************************************************************)
(* The WebRTC transport (transport/webrtc/mod.rs) and the connections that *)
(* it opens (opening.rs): datagrams are routed by the pair of addresses to *)
(* an open connection, to an opening one, or make a new one; an opening    *)
(* connection goes through the noise handshake, is reported, and is then   *)
(* accepted or rejected by the transport manager.                          *)
(*                                                                         *)
(* str0m is external: Processed gives the events it can raise.             *)
(***************************************************************************)
EXTENDS Naturals, Sequences

CONSTANTS
  Addrs,            \* AddressPair
  MaxConnections

VARIABLES
  opening,             \* address -> [id, state]; id 0 when there is none
  connections,         \* connections that wait for accept or reject: id -> address, in pairs
  open,                \* address -> id of the open connection, or 0
  closed_connections,  \* the watchers: pairs of address and id
  timeouts,            \* addresses with a timer
  pending_events,      \* ids of ConnectionEstablished events
  phase,               \* where poll_next is: "idle", "sockets" or "timers"
  expired,             \* addresses whose timer poll_next has found expired
  next_id,
  reported,            \* external: ids the manager knows and has not answered
  live                 \* pairs of address and id of connections that run

vars == <<opening, connections, open, closed_connections, timeouts, pending_events, phase,
          expired, next_id, reported, live>>

NoOpening == [id |-> 0, state |-> "none"]

Init ==
  /\ opening = [a \in Addrs |-> NoOpening]
  /\ connections = {}
  /\ open = [a \in Addrs |-> 0]
  /\ closed_connections = {} /\ timeouts = {}
  /\ pending_events = <<>>
  /\ phase = "idle" /\ expired = {}
  /\ next_id = 1
  /\ reported = {} /\ live = {}

-----------------------------------------------------------------------------
(* OpeningWebRtcConnection *)

(* poll_process, with an event of str0m or none, as pairs of the new state *)
(* and the result: Connected, the opening of the noise channel and its     *)
(* data each expect one state and fail in the others.                      *)
Processed(state) ==
  {<<state, "timeout">>, <<state, "closed">>}
  \cup (IF state = "closed" THEN {<<"opened", "timeout">>} ELSE {})
  \cup (IF state = "opened" THEN {<<"handshake_sent", "timeout">>} ELSE {})
  \cup (IF state = "handshake_sent" THEN {<<"validating", "established">>} ELSE {})

(* It has closed before it was accepted or rejected. *)
Closes(a, id) ==
  /\ opening' = [opening EXCEPT ![a] = NoOpening]
  /\ connections' = connections \ {<<id, a>>}
  /\ UNCHANGED pending_events

(* poll_connection and what poll_next does with its events: it is polled   *)
(* until it sets a timer or has closed.                                    *)
PollConnection(a, id, state) ==
  \E p \in Processed(state) :
    \/ /\ p[2] = "timeout"
       /\ opening' = [opening EXCEPT ![a] = [id |-> id, state |-> p[1]]]
       /\ timeouts' = timeouts \cup {a}
       /\ UNCHANGED <<connections, pending_events>>
    \/ /\ p[2] = "established"
       /\ opening' = [opening EXCEPT ![a] = [id |-> id, state |-> p[1]]]
       /\ connections' = connections \cup {<<id, a>>}
       /\ pending_events' = Append(pending_events, id)
       /\ timeouts' = timeouts \cup {a}
    \/ /\ p[2] = "closed"
       /\ Closes(a, id)
       /\ timeouts' = timeouts \ {a}

-----------------------------------------------------------------------------
(* poll_next *)

Deliver ==
  /\ phase = "idle" /\ pending_events # <<>>
  /\ reported' = reported \cup {Head(pending_events)}
  /\ pending_events' = Tail(pending_events)
  /\ UNCHANGED <<opening, connections, open, closed_connections, timeouts, phase, expired,
                 next_id, live>>

(* Mutant: the watcher of an old connection removes its successor. *)
Watched_any(a, ended) == \E w \in ended : w[1] = a

(* The watchers of connections that have ended remove them from open,      *)
(* unless another connection has taken the address since.                  *)
Watched(a, ended) == <<a, open[a]>> \in ended

PollStart ==
  LET ended == closed_connections \ live IN
  /\ phase = "idle" /\ pending_events = <<>>
  /\ closed_connections' = closed_connections \ ended
  /\ open' = [a \in Addrs |-> IF Watched(a, ended) THEN 0 ELSE open[a]]
  /\ phase' = "sockets"
  /\ UNCHANGED <<opening, connections, timeouts, pending_events, expired, next_id, reported, live>>

(* on_socket_input of a datagram of an open connection: it is passed on,   *)
(* dropped if the channel is full, or finds the connection gone.           *)
OpenDatagram(a) ==
  /\ phase = "sockets" /\ open[a] # 0
  /\ <<a, open[a]>> \notin live
  /\ open' = [open EXCEPT ![a] = 0]
  /\ UNCHANGED <<opening, connections, closed_connections, timeouts, pending_events, phase,
                 expired, next_id, reported, live>>

(* ... of an opening connection *)
OpeningDatagram(a) ==
  /\ phase = "sockets" /\ open[a] = 0
  /\ opening[a].id # 0
  /\ PollConnection(a, opening[a].id, opening[a].state)
  /\ UNCHANGED <<open, closed_connections, phase, expired, next_id, reported, live>>

(* ... and a STUN packet of an address that has none *)
StunDatagram(a) ==
  /\ phase = "sockets" /\ open[a] = 0
  /\ opening[a].id = 0
  /\ next_id <= MaxConnections
  /\ next_id' = next_id + 1
  /\ PollConnection(a, next_id, "closed")
  /\ UNCHANGED <<open, closed_connections, phase, expired, reported, live>>

(* The sockets have nothing more; any of the timers may have expired. *)
PollTimeouts ==
  /\ phase = "sockets"
  /\ phase' = "timers"
  /\ expired' \in SUBSET timeouts
  /\ UNCHANGED <<opening, connections, open, closed_connections, timeouts, pending_events,
                 next_id, reported, live>>

TimeoutExpires(a) ==
  /\ phase = "timers" /\ a \in expired
  /\ expired' = expired \ {a}
  /\ IF opening[a].id # 0
       THEN PollConnection(a, opening[a].id, opening[a].state)
       ELSE UNCHANGED <<opening, connections, timeouts, pending_events>>
  /\ UNCHANGED <<open, closed_connections, phase, next_id, reported, live>>

PollEnd ==
  /\ phase = "timers" /\ expired = {}
  /\ phase' = "idle"
  /\ timeouts' = {a \in timeouts : opening[a].id # 0}
  /\ UNCHANGED <<opening, connections, open, closed_connections, pending_events, expired,
                 next_id, reported, live>>

-----------------------------------------------------------------------------
(* The transport manager answers, and a connection ends. *)

(* accept.  on_accept consumes the opening connection, and fails if the    *)
(* second noise message cannot be written.                                 *)
Accept(id) ==
  /\ phase = "idle" /\ id \in reported
  /\ reported' = reported \ {id}
  /\ \/ /\ \A a \in Addrs : <<id, a>> \notin connections
        /\ UNCHANGED <<connections, opening, open, closed_connections, live>>
     \/ \E a \in Addrs :
          /\ <<id, a>> \in connections
          /\ connections' = connections \ {<<id, a>>}
          /\ opening' = [opening EXCEPT ![a] = NoOpening]
          /\ \/ UNCHANGED <<open, closed_connections, live>>
             \/ /\ opening[a].state = "validating"
                /\ closed_connections' = closed_connections \cup {<<a, id>>}
                /\ open' = [open EXCEPT ![a] = id]
                /\ live' = live \cup {<<a, id>>}
  /\ UNCHANGED <<timeouts, pending_events, phase, expired, next_id>>

Reject(id) ==
  /\ phase = "idle" /\ id \in reported
  /\ reported' = reported \ {id}
  /\ connections' = {c \in connections : c[1] # id}
  /\ opening' = [a \in Addrs |-> IF <<id, a>> \in connections THEN NoOpening ELSE opening[a]]
  /\ UNCHANGED <<open, closed_connections, timeouts, pending_events, phase, expired, next_id,
                 live>>

(* run_event_loop of a connection returns. *)
ConnectionEnds ==
  /\ \E c \in live : live' = live \ {c}
  /\ UNCHANGED <<opening, connections, open, closed_connections, timeouts, pending_events, phase,
                 expired, next_id, reported>>

Next ==
  \/ Deliver \/ PollStart \/ PollTimeouts \/ PollEnd
  \/ \E a \in Addrs : OpenDatagram(a) \/ OpeningDatagram(a) \/ StunDatagram(a) \/ TimeoutExpires(a)
  \/ \E id \in 1 .. MaxConnections : Accept(id) \/ Reject(id)
  \/ ConnectionEnds

Spec == Init /\ [][Next]_vars

-----------------------------------------------------------------------------
(* Properties *)

States == {"none", "closed", "opened", "handshake_sent", "validating"}
Ids == Nat \ {0}

(* Every variable has its type. *)
TypeOK ==
  /\ opening \in [Addrs -> [id : Nat, state : States]]
  /\ connections \subseteq Ids \X Addrs
  /\ open \in [Addrs -> Nat]
  /\ closed_connections \subseteq Addrs \X Ids /\ live \subseteq Addrs \X Ids
  /\ timeouts \subseteq Addrs /\ expired \subseteq Addrs
  /\ pending_events \in Seq(Ids)
  /\ phase \in {"idle", "sockets", "timers"}
  /\ next_id \in Ids
  /\ reported \subseteq Ids

(* A connection that may be accepted is still opening, under its own       *)
(* address, and has its handshake done: only a connection that has closed  *)
(* meanwhile is unknown to accept and reject.                              *)
AcceptReady ==
  \A c \in connections :
    opening[c[2]] = [id |-> c[1], state |-> "validating"]

(* Every opening connection has a timer, so a remote that has gone silent  *)
(* is noticed.                                                             *)
OpeningTimed == \A a \in Addrs : opening[a].id # 0 => a \in timeouts

(* An address does not lead to an opening and to an open connection, even  *)
(* to one that has ended and is not cleaned up.                            *)
OpeningOrOpen == \A a \in Addrs : opening[a].id # 0 => open[a] = 0

(* A connection that runs gets the datagrams of its address, also after an *)
(* earlier connection of the address has ended and is cleaned up late.     *)
LiveIsRouted == \A c \in live : open[c[1]] = c[2]

(* An address leads to its connection, opening or open, from the first     *)
(* datagram to the end, also across connections that follow each other.    *)
Inv == TypeOK /\ AcceptReady /\ OpeningTimed /\ OpeningOrOpen /\ LiveIsRouted
=============================================================================
