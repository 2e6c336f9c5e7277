----------------------------- MODULE MCKademlia -----------------------------
(***************************************************************************)
(* Kademlia for TLC.  One run checks several instances: part says which    *)
(* one a behaviour is of, and the variables of the others keep their       *)
(* initial values.                                                         *)
(*                                                                         *)
(*   peers     two peers, one query of any kind;                           *)
(*   closest   two peers asked one after the other, FIND_NODE only;        *)
(*   queries   one peer, two queries, responses that cannot be parsed;     *)
(*   table     the routing table, of keys of three bits;                   *)
(*   store     the store.                                                  *)
(***************************************************************************)
EXTENDS Naturals

CONSTANTS None, Parts, RecordKey

VARIABLES
  part,
  sessions, requested, answers, known, actions, pending_substreams, pending_dials, futures,
  queries, table, stored, providing, next_query_id, commands, ended, records, answered,
  buckets,
  now, store_records, provider_keys, local_providers, pending_provider_refresh

Requests ==
  {"find_node", "put_record", "put_record_to_peers", "add_provider", "get_record", "get_providers"}

Two == INSTANCE Kademlia WITH
  Peer <- {1, 2}, local_peer_id <- 3, replication_factor <- 1, parallelism_factor <- 2,
  InvalidMessages <- FALSE, Quorums <- {1, 2}, MaxQueries <- 1, MaxSubstreams <- 2,
  CommandCapacity <- 1

Serial == INSTANCE Kademlia WITH
  Peer <- {1, 2}, local_peer_id <- 3, replication_factor <- 1, parallelism_factor <- 1,
  InvalidMessages <- FALSE, Requests <- {"find_node"}, Quorums <- {1}, MaxQueries <- 1,
  MaxSubstreams <- 2, CommandCapacity <- 1

One == INSTANCE Kademlia WITH
  Peer <- {1}, local_peer_id <- 3, replication_factor <- 1, parallelism_factor <- 1,
  InvalidMessages <- TRUE, Requests <- {"find_node", "put_record"}, Quorums <- {1},
  MaxQueries <- 2, MaxSubstreams <- 2, CommandCapacity <- 1

Table == INSTANCE RoutingTable WITH
  NumBuckets <- 3, BucketSize <- 2, local_key <- 5, Keys <- {1, 2, 3, 4, 7}

Store == INSTANCE MemoryStore WITH
  records <- store_records, Provider <- {1, 3, 4}, local_peer_id <- 2, max_records <- 1,
  max_provider_keys <- 1, max_providers_per_key <- 2, provider_ttl <- 1, MaxTime <- 2,
  MaxTimers <- 2

kademlia == <<sessions, requested, answers, known, actions, pending_substreams, pending_dials,
  futures, queries, table, stored, providing, next_query_id, commands, ended, records, answered>>
store == <<now, store_records, provider_keys, local_providers, pending_provider_refresh>>
vars == <<part, kademlia, buckets, store>>

Init ==
  /\ part \in Parts
  /\ CASE part = "queries" -> One!Init [] part = "closest" -> Serial!Init [] OTHER -> Two!Init
  /\ Table!Init
  /\ Store!Init

Next ==
  /\ UNCHANGED part
  /\ \/ part = "peers" /\ Two!Next /\ UNCHANGED <<buckets, store>>
     \/ part = "closest" /\ Serial!Next /\ UNCHANGED <<buckets, store>>
     \/ part = "queries" /\ One!Next /\ UNCHANGED <<buckets, store>>
     \/ part = "table" /\ Table!Next /\ UNCHANGED <<kademlia, store>>
     \/ part = "store" /\ Store!Next /\ UNCHANGED <<kademlia, buckets>>

Spec == Init /\ [][Next]_vars

-----------------------------------------------------------------------------

InEach(P, Q, R) == CASE part = "queries" -> R [] part = "closest" -> Q [] OTHER -> P

(* Kademlia: queries, actions under way and connections agree. *)
KademliaInv == InEach(Two!Inv, Serial!Inv, One!Inv)

(* Kademlia: a search keeps the closest of the peers that answered. *)
ClosestKept == InEach(Two!ClosestKept, Serial!ClosestKept, One!ClosestKept)

(* Kademlia: records reach the user before their query ends. *)
RecordsReported == [][part = "peers" => Two!ReportsRecords]_vars

(* RoutingTable: peers are where lookups find them, the closest first. *)
RoutingTableInv == Table!Inv

(* RoutingTable: a connected peer keeps its place. *)
ConnectedKept == Table!ConnectedKept

(* MemoryStore: the maps and timers of the store agree. *)
MemoryStoreInv == Store!Inv

(* Kademlia: a search never waits for what will not come. *)
NeverStuck == Two!NeverStuck
=============================================================================
