-------------------------------- MODULE Mdns --------------------------------
(***************************************************************************)
(* mDNS discovery (protocol/mdns.rs): nodes that multicast a query every   *)
(* interval, answer the queries of others with their addresses, and report *)
(* each address they learn once.  Datagrams are lost and reordered, a node   *)
(* hears its own, and a socket that fails is recreated at the next tick of *)
(* the interval.                                                           *)
(***************************************************************************)
EXTENDS Naturals, FiniteSets

CONSTANTS
  Node,
  Addresses,      \* node -> its listen addresses
  MaxFailures,    \* bound: failures and losses at a node
  MaxReports      \* bound on the history: reports of one address counted

VARIABLES
  socket,         \* node -> its socket is there
  inbox,          \* node -> datagrams on their way to it
  failures,       \* node -> failures of its socket and datagrams lost so far
  discovered,     \* node -> addresses it has heard of
  reported        \* history: node -> address -> times it was given to the user

vars == <<socket, inbox, failures, discovered, reported>>

Address == UNION {Addresses[n] : n \in Node}

Init ==
  /\ socket = [n \in Node |-> FALSE]
  /\ inbox = [n \in Node |-> {}]
  /\ failures = [n \in Node |-> 0]
  /\ discovered = [n \in Node |-> {}]
  /\ reported = [n \in Node |-> [a \in Address |-> 0]]

-----------------------------------------------------------------------------

(* send_to of the multicast address: every node may hear it, the sender    *)
(* too.                                                                    *)
Multicast(d, box) ==
  [n \in Node |-> IF socket[n] THEN box[n] \cup {d} ELSE box[n]]

(* The socket is dropped, with what it has not been read of. *)
Drops(n) ==
  /\ socket' = [socket EXCEPT ![n] = FALSE]
  /\ inbox' = [inbox EXCEPT ![n] = {}]

(* Mutant: the socket is set up once, and not again. *)
MaySetUp_once(n) == ~socket[n] /\ failures[n] = 0

(* start has no socket. *)
MaySetUp(n) == ~socket[n]

(* setup_socket at a tick; it may fail, and is tried at the next one.      *)
SetupSocket(n) ==
  /\ MaySetUp(n)
  /\ socket' = [socket EXCEPT ![n] = TRUE]
  /\ UNCHANGED <<inbox, failures, discovered, reported>>

(* on_outbound_request *)
Query(n) ==
  /\ socket[n]
  /\ inbox' = Multicast([kind |-> "query"], inbox)
  /\ UNCHANGED <<socket, failures, discovered, reported>>

(* send_to or recv_from fails. *)
SocketFails(n) ==
  /\ socket[n]
  /\ failures[n] < MaxFailures
  /\ failures' = [failures EXCEPT ![n] = @ + 1]
  /\ Drops(n)
  /\ UNCHANGED <<discovered, reported>>

(* on_inbound_request: any query is answered, the own one too. *)
InboundRequest(n) ==
  /\ [kind |-> "query"] \in inbox[n]
  /\ inbox' = Multicast([kind |-> "response", name |-> n],
                        [inbox EXCEPT ![n] = @ \ {[kind |-> "query"]}])
  /\ UNCHANGED <<socket, failures, discovered, reported>>

(* on_inbound_response: the addresses under the name in the answer, unless *)
(* it is the own name.                                                     *)
Named(n, d) == IF d.name = n THEN {} ELSE Addresses[d.name]

(* discovered.insert(address).then_some(address) *)
ToForward(n, addresses) == addresses \ discovered[n]

(* The response of m is read. *)
InboundResponse(n, m) ==
  LET d == [kind |-> "response", name |-> m] IN
  /\ d \in inbox[n]
  /\ inbox' = [inbox EXCEPT ![n] = @ \ {d}]
  /\ discovered' = [discovered EXCEPT ![n] = @ \cup Named(n, d)]
  /\ reported' = [reported EXCEPT ![n] =
                    [a \in Address |-> IF a \in ToForward(n, Named(n, d)) /\ @[a] < MaxReports
                                         THEN @[a] + 1 ELSE @[a]]]
  /\ UNCHANGED <<socket, failures>>

(* External: a datagram is lost. *)
Lost(n) ==
  /\ failures[n] < MaxFailures
  /\ failures' = [failures EXCEPT ![n] = @ + 1]
  /\ \E d \in inbox[n] : inbox' = [inbox EXCEPT ![n] = @ \ {d}]
  /\ UNCHANGED <<socket, discovered, reported>>

Next ==
  \E n \in Node :
    \/ SetupSocket(n)
    \/ Query(n)
    \/ SocketFails(n)
    \/ InboundRequest(n)
    \/ \E m \in Node : InboundResponse(n, m)
    \/ Lost(n)

(* The interval ticks, and the task polls its socket. *)
Fairness ==
  \A n \in Node :
    /\ WF_vars(SetupSocket(n))
    /\ WF_vars(Query(n))
    /\ WF_vars(InboundRequest(n))
    /\ \A m \in Node : WF_vars(InboundResponse(n, m))

Spec == Init /\ [][Next]_vars /\ Fairness

-----------------------------------------------------------------------------

Discovered ==
  \A n, m \in Node : \A a \in Addresses[m] : reported[n][a] = IF m = n THEN 0 ELSE 1

(* Whichever datagrams are lost and sockets fail on the way, once they no  *)
(* longer do the user of every node has heard of each address of the       *)
(* others, once, however often it was announced, and of none of its own.   *)
AllDiscovered == <>[]Discovered
=============================================================================
