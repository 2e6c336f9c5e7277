---------------------------- MODULE RoutingTable ----------------------------
(***************************************************************************)
(* The routing table of Kademlia (routing_table.rs, bucket.rs, types.rs).  *)
(*                                                                         *)
(* A key is a number of NumBuckets bits and a peer is its key, so that the *)
(* distance is the exclusive or of two numbers.  A bucket holds nodes in   *)
(* the order of its vector; of the addresses of a node only whether there  *)
(* are any matters.                                                        *)
(***************************************************************************)
EXTENDS Naturals, Bitwise, SequencesExt

CONSTANTS
  None,
  NumBuckets,        \* NUM_BUCKETS
  BucketSize,        \* 20 in KBucket::entry
  local_key,
  Keys               \* the peers this node meets

BucketIndex == 0 .. NumBuckets - 1
Target == 0 .. 2 ^ NumBuckets - 1

VARIABLES
  buckets            \* bucket index -> sequence of nodes

vars == buckets

Node(p, addressed, connection) ==
  [peer |-> p, addressed |-> addressed, connection |-> connection]

(* The node that entry pushes: a random peer without addresses. *)
Placeholder == Node(None, FALSE, "not_connected")

Init == buckets = [i \in BucketIndex |-> <<>>]

-----------------------------------------------------------------------------

distance(a, b) == a ^^ b

(* Distance::ilog2 of a distance that is not zero *)
ilog2(d) == CHOOSE i \in BucketIndex : 2 ^ i <= d /\ d < 2 ^ (i + 1)

bit(d, i) == (d \div 2 ^ i) % 2 = 1

-----------------------------------------------------------------------------
(* Mutant: a connected node gives its place, too. *)
Slot_any(nodes) == IF nodes = <<>> THEN 0 ELSE 1

(* The place a full bucket gives away, or 0. *)
Slot(nodes) == SelectInSeq(nodes, LAMBDA n : n.connection = "not_connected")

(* KBucket::entry: the bucket afterwards, the kind of the entry and the    *)
(* place it refers to.                                                     *)
KBucketEntry(nodes, p) ==
  LET place == SelectInSeq(nodes, LAMBDA n : n.peer = p) IN
  IF place # 0 THEN [kind |-> "occupied", nodes |-> nodes, place |-> place]
  ELSE IF Len(nodes) < BucketSize
    THEN [kind |-> "vacant", nodes |-> Append(nodes, Placeholder), place |-> Len(nodes) + 1]
  ELSE IF Slot(nodes) # 0
    THEN [kind |-> "vacant", nodes |-> nodes, place |-> Slot(nodes)]
  ELSE [kind |-> "no_slot", nodes |-> nodes, place |-> 0]

(* RoutingTable::entry of a peer that is not the local node. *)
BucketOf(p) == ilog2(distance(local_key, p))
entry(p) == KBucketEntry(buckets[BucketOf(p)], p)

Update(p, nodes) == buckets' = [buckets EXCEPT ![BucketOf(p)] = nodes]

(* add_known_peer with addresses; it is also insert_proven_server. *)
AddKnownPeer(p, connection) ==
  LET e == entry(p) IN
  /\ p # local_key
  /\ Update(p, IF e.kind = "no_slot" THEN e.nodes
               ELSE [e.nodes EXCEPT ![e.place] = Node(p, TRUE, connection)])

(* on_connection_established, and what disconnect_peer does in the table.  *)
(* A peer that is not there leaves a placeholder.                          *)
SetConnection(p, connection) ==
  LET e == entry(p) IN
  /\ p # local_key
  /\ Update(p, IF e.kind = "occupied" THEN [e.nodes EXCEPT ![e.place].connection = connection]
                                      ELSE e.nodes)

(* on_dial_failure: the scores of addresses are not modelled here. *)
OnDialFailure(p) ==
  /\ p # local_key
  /\ Update(p, entry(p).nodes)

(* PutRecordToPeers looks a peer up. *)
LookUp(p) ==
  /\ p # local_key
  /\ Update(p, entry(p).nodes)

Next ==
  \E p \in Keys :
    \/ \E c \in {"connected", "not_connected"} : AddKnownPeer(p, c) \/ SetConnection(p, c)
    \/ OnDialFailure(p)
    \/ LookUp(p)

Spec == Init /\ [][Next]_vars

-----------------------------------------------------------------------------
(* closest *)

(* ClosestBucketsIter: the buckets in the order of next. *)
next_in(d, i) ==
  LET below == {j \in 0 .. i - 1 : bit(d, j)} IN IF below = {} THEN None ELSE Max(below)

(* Mutant: a set bit leads outwards. *)
next_out_set(d, i) ==
  LET above == {j \in i + 1 .. NumBuckets - 1 : bit(d, j)} IN IF above = {} THEN None ELSE Min(above)

next_out(d, i) ==
  LET above == {j \in i + 1 .. NumBuckets - 1 : ~bit(d, j)} IN IF above = {} THEN None ELSE Min(above)

ClosestBucketsIter(d) ==
  LET ZoomOut[i \in BucketIndex] ==
        IF next_out(d, i) = None THEN <<>> ELSE <<next_out(d, i)>> \o ZoomOut[next_out(d, i)]
      ZoomIn[i \in BucketIndex] ==
        IF next_in(d, i) = None THEN <<0>> \o ZoomOut[0]
                                ELSE <<next_in(d, i)>> \o ZoomIn[next_in(d, i)]
      start == IF d = 0 THEN 0 ELSE ilog2(d) IN
  <<start>> \o ZoomIn[start]

(* KBucket::closest_iter; no two nodes of a bucket are at one distance. *)
closest_iter(nodes, target) ==
  SetToSortSeq({n.peer : n \in {m \in ToSet(nodes) : m.addressed}},
               LAMBDA a, b : distance(target, a) < distance(target, b))

closest(target, limit) ==
  LET order == ClosestBucketsIter(distance(local_key, target))
      peers == FlattenSeq([j \in 1 .. Len(order) |-> closest_iter(buckets[order[j]], target)]) IN
  SubSeq(peers, 1, Min({limit, Len(peers)}))

-----------------------------------------------------------------------------
(* Properties *)

Members == {n.peer : n \in {m \in UNION {ToSet(buckets[i]) : i \in BucketIndex} : m.addressed}}

(* A peer is in one place of one bucket, its own, and buckets stay within  *)
(* their size, however entry reuses places.                                *)
OnePlace ==
  \A i \in BucketIndex :
    /\ Len(buckets[i]) <= BucketSize
    /\ \A j, k \in DOMAIN buckets[i] :
         buckets[i][j].peer # None =>
           /\ BucketOf(buckets[i][j].peer) = i
           /\ buckets[i][j].peer = buckets[i][k].peer => j = k

(* closest returns the peers with addresses in the order of their distance *)
(* from the target and misses none, as long as the bucket of the one key   *)
(* at distance 1 is empty: next yields that bucket twice.                  *)
ClosestRight ==
  buckets[0] = <<>> =>
    \A target \in Target : \A limit \in 1 .. Cardinality(Members) :
      closest(target, limit) =
        SubSeq(SetToSortSeq(Members, LAMBDA a, b : distance(target, a) < distance(target, b)),
               1, limit)

(* Peers are where lookups find them, and lookups find the closest. *)
Inv == OnePlace /\ ClosestRight

(* A peer that is connected keeps its place. *)
ConnectedKept ==
  [][\A i \in BucketIndex : \A j \in DOMAIN buckets[i] :
       buckets[i][j].connection = "connected" => buckets'[i][j].peer = buckets[i][j].peer]_vars
=============================================================================
