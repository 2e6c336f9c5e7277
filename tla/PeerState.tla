------------------------------ MODULE PeerState ------------------------------
(***************************************************************************)
(* The per-peer connection state of the transport manager                  *)
(* (transport/manager/peer_state.rs), as pure operators on a state.        *)
(*                                                                         *)
(* A connection record is abstracted to its connection id.  The Rust enum  *)
(* is one record here:                                                     *)
(*                                                                         *)
(*   Connected { record, secondary: Some(Secondary(s)) }   secondary = s   *)
(*   Connected { record, secondary: Some(Dialing(d)) }     dial = d        *)
(*   Opening { connection_id, addresses, transports }      dial = the id   *)
(*   Dialing { dial_record }                               dial = its id   *)
(*   Disconnected { dial_record }                          dial = its id   *)
(*                                                                         *)
(* so that "dial" is always the dial in flight, if there is one.  The      *)
(* addresses of an Opening state are abstracted to their transports.       *)
(***************************************************************************)
CONSTANT None   \* Option::None

Connected(record, secondary, dial) ==
  [kind |-> "Connected", record |-> record, secondary |-> secondary,
   dial |-> dial, addresses |-> {}, transports |-> {}]

Opening(id, addresses, transports) ==
  [kind |-> "Opening", record |-> None, secondary |-> None,
   dial |-> id, addresses |-> addresses, transports |-> transports]

Dialing(dial) ==
  [kind |-> "Dialing", record |-> None, secondary |-> None,
   dial |-> dial, addresses |-> {}, transports |-> {}]

Disconnected(dial) ==
  [kind |-> "Disconnected", record |-> None, secondary |-> None,
   dial |-> dial, addresses |-> {}, transports |-> {}]

(* The states the Rust enum can represent. *)
WellFormed(s) ==
  /\ s.kind = "Connected" <=> s.record # None
  /\ s.secondary # None => s.kind = "Connected" /\ s.dial = None
  /\ s.kind \in {"Opening", "Dialing"} => s.dial # None
  /\ s.kind # "Opening" => s.addresses = {} /\ s.transports = {}

States(Id, Transport) ==
  {s \in [kind : {"Connected", "Opening", "Dialing", "Disconnected"},
          record : Id \cup {None}, secondary : Id \cup {None}, dial : Id \cup {None},
          addresses : SUBSET Transport, transports : SUBSET Transport] :
     WellFormed(s)}

(* StateDialResult: the three answers to a dial request. *)
AlreadyConnected(s) == s.kind = "Connected"
DialingInProgress(s) == s.kind # "Connected" /\ s.dial # None
can_dial(s) == s.kind = "Disconnected" /\ s.dial = None

dial_single_address(s, c) == IF can_dial(s) THEN Dialing(c) ELSE s

dial_addresses(s, c, addresses, transports) ==
  IF can_dial(s) THEN Opening(c, addresses, transports) ELSE s

(* Mutant: the failure of a dial that a since closed inbound connection    *)
(* overtook is ignored.                                                    *)
on_dial_failure_not_disconnected(s, c) ==
  IF s.dial = c /\ s.kind \in {"Connected", "Dialing"}
    THEN IF s.kind = "Connected"
           THEN Connected(s.record, s.secondary, None)
           ELSE Disconnected(None)
    ELSE s

(* Clear the dial record if the connection id matches. *)
on_dial_failure(s, c) ==
  IF s.dial = c /\ s.kind # "Opening"
    THEN IF s.kind = "Connected"
           THEN Connected(s.record, s.secondary, None)
           ELSE Disconnected(None)
    ELSE s

(* A peer takes a second connection, unless that place is held by the      *)
(* secondary or reserved for a dial that is still in flight.               *)
accepts_connection(s, c) ==
  s.kind = "Connected" => s.secondary = None /\ s.dial \in {None, c}

on_connection_established(s, c) ==
  IF ~accepts_connection(s, c) THEN s
  ELSE IF s.kind = "Connected" THEN Connected(s.record, c, None)
  ELSE IF s.kind = "Opening" \/ s.dial = c THEN Connected(c, None, None)
  ELSE Connected(c, None, s.dial)

(* Mutant: the secondary connection is not looked at. *)
last_connection_closed_primary(s, c) == s.kind = "Connected" /\ s.record = c

(* TRUE if the closed connection was the last one, which is what the user  *)
(* is told about.                                                          *)
last_connection_closed(s, c) ==
  s.kind = "Connected" /\ s.record = c /\ s.secondary = None

on_connection_closed(s, c) ==
  IF s.kind # "Connected" THEN s
  ELSE IF s.record = c
    THEN IF s.secondary # None THEN Connected(s.secondary, None, None)
                               ELSE Disconnected(s.dial)
  ELSE IF s.secondary = c THEN Connected(s.record, None, None)
  ELSE s

(* Mutant: the failure of the last transport does not end the dial. *)
on_open_failure_never_last(s, t) ==
  IF s.kind # "Opening" THEN s
  ELSE Opening(s.dial, s.addresses, s.transports \ {t})

on_open_failure(s, t) ==
  IF s.kind # "Opening" THEN s
  ELSE IF s.transports \ {t} = {} THEN Disconnected(None)
  ELSE Opening(s.dial, s.addresses, s.transports \ {t})

on_connection_opened(s, c) == IF s.kind = "Opening" THEN Dialing(c) ELSE s

(* The established connections the state accounts for. *)
Connections(s) == {s.record, s.secondary} \ {None}
==============================================================================
