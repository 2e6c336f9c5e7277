--------------------------- MODULE ConnectionLimits ---------------------------
(***************************************************************************)
(* The limits on established connections (transport/manager/limits.rs), as *)
(* pure operators on a record of the two sets of counted connections.  A   *)
(* maximum of None is no limit, and nothing is counted against it.         *)
(***************************************************************************)
EXTENDS Naturals, FiniteSets

CONSTANTS None,
          max_incoming_connections,
          max_outgoing_connections

new == [incoming_connections |-> {}, outgoing_connections |-> {}]

(* Mutant: off by one. *)
Exceeded_by_one(connections, max) == max # None /\ Cardinality(connections) > max

Exceeded(connections, max) == max # None /\ Cardinality(connections) >= max

(* Ok(capacity) of on_dial_address: the addresses that may be dialed, when *)
(* it is not an error.                                                     *)
on_dial_address(l) == ~Exceeded(l.outgoing_connections, max_outgoing_connections)

within_capacity(l, n) ==
  \/ max_outgoing_connections = None
  \/ n + Cardinality(l.outgoing_connections) <= max_outgoing_connections

on_incoming(l) == ~Exceeded(l.incoming_connections, max_incoming_connections)

can_accept_connection(l, is_listener) ==
  IF is_listener THEN on_incoming(l) ELSE on_dial_address(l)

accept_established_connection(l, c, is_listener) ==
  IF is_listener
    THEN IF max_incoming_connections # None
           THEN [l EXCEPT !.incoming_connections = @ \cup {c}] ELSE l
    ELSE IF max_outgoing_connections # None
           THEN [l EXCEPT !.outgoing_connections = @ \cup {c}] ELSE l

on_connection_closed(l, c) ==
  [incoming_connections |-> l.incoming_connections \ {c},
   outgoing_connections |-> l.outgoing_connections \ {c}]
==============================================================================
