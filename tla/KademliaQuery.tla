--------------------------- MODULE KademliaQuery ---------------------------
(***************************************************************************)
(* The queries of Kademlia (protocol/libp2p/kademlia/query): what a query  *)
(* context does on a response, a failure and a call of next_action, as     *)
(* operators on contexts.                                                  *)
(*                                                                         *)
(* A peer is the number that is its distance from the target, so the maps  *)
(* ordered by distance are sets of peers.  Messages carry only what the    *)
(* contexts read: peers, whether there is a record, and providers.         *)
(***************************************************************************)
EXTENDS Naturals, FiniteSets, FiniteSetsExt, Sequences

CONSTANTS
  local_peer_id,        \* a peer
  replication_factor,
  parallelism_factor

(* QueryAction, as the contexts return it *)
NoAction == [type |-> "none"]
SendMessage(p) == [type |-> "send", peer |-> p]
QuerySucceeded == [type |-> "succeeded"]
QueryFailed == [type |-> "failed"]
PartialResult(p) == [type |-> "partial", peer |-> p]

saturating_sub(a, b) == IF a > b THEN a - b ELSE 0

(* The peers of a response that become candidates: to_query_candidate *)
NewCandidates(c, peers) ==
  {p \in peers : p \notin c.queried /\ p \notin c.pending /\ p # local_peer_id}

-----------------------------------------------------------------------------
(* find_node.rs.  late are the pending peers beyond peer_timeout.          *)

FindNodeContext(kind, quorum, in_peers) ==
  [kind |-> kind, quorum |-> quorum, pending |-> {}, late |-> {}, queried |-> {},
   candidates |-> in_peers, responses |-> {}, pending_responses |-> 0]

find_response_failure(c, p) ==
  IF p \notin c.pending THEN c
  ELSE [c EXCEPT !.pending = @ \ {p}, !.late = @ \ {p}, !.queried = @ \cup {p},
                 !.pending_responses = saturating_sub(@, 1)]

(* Mutant: the furthest response stays. *)
AddResponse_first(c, p) ==
  IF Cardinality(c.responses) < replication_factor THEN c.responses \cup {p} ELSE c.responses

(* A response is kept if there is room, or if it replaces the furthest.    *)
AddResponse(c, p) ==
  IF Cardinality(c.responses) < replication_factor THEN c.responses \cup {p}
  ELSE IF p < Max(c.responses) THEN (c.responses \cup {p}) \ {Max(c.responses)}
  ELSE c.responses

find_response(c, p, peers) ==
  IF p \notin c.pending THEN c
  ELSE LET d == find_response_failure(c, p) IN
       [d EXCEPT !.responses = AddResponse(c, p),
                 !.candidates = @ \cup NewCandidates(d, peers)]

find_schedule_next_peer(c) ==
  IF c.candidates = {} THEN [action |-> NoAction, context |-> c]
  ELSE LET p == Min(c.candidates) IN
       [action |-> SendMessage(p),
        context |-> [c EXCEPT !.candidates = @ \ {p}, !.pending = @ \cup {p},
                              !.pending_responses = @ + 1]]

is_done(c) == c.pending = {} /\ c.candidates = {}

BetterCandidate(c) == c.candidates # {} /\ Min(c.candidates) < Max(c.responses)

(* Every late peer is subtracted again in every call. *)
find_next_action(c) ==
  LET d == [c EXCEPT !.pending_responses = saturating_sub(@, Cardinality(c.late))] IN
  IF is_done(c)
    THEN [action |-> IF c.responses = {} THEN QueryFailed ELSE QuerySucceeded, context |-> c]
  ELSE IF d.pending_responses = parallelism_factor
    THEN [action |-> NoAction, context |-> d]
  ELSE IF Cardinality(c.responses) < replication_factor \/ BetterCandidate(c)
    THEN find_schedule_next_peer(d)
  ELSE [action |-> QuerySucceeded, context |-> d]

-----------------------------------------------------------------------------
(* get_record.rs.  A quorum is a number of records, or All.                *)

All == 0

Needed(quorum) == IF quorum = All THEN replication_factor ELSE quorum

GetRecordContext(quorum, in_peers, local_record) ==
  [kind |-> "get_record", quorum |-> quorum, pending |-> {}, queried |-> {},
   candidates |-> in_peers, records |-> <<>>,
   known_records |-> IF local_record THEN 1 ELSE 0,
   found_records |-> IF local_record THEN 1 ELSE 0]

sufficient_records(c) == c.known_records + c.found_records >= Needed(c.quorum)

(* register_response_failure of get_record.rs and get_providers.rs *)
record_response_failure(c, p) ==
  IF p \notin c.pending THEN c
  ELSE [c EXCEPT !.pending = @ \ {p}, !.queried = @ \cup {p}]

(* record is whether there is one, not expired. *)
record_response(c, p, record, peers) ==
  IF p \notin c.pending THEN c
  ELSE LET d == record_response_failure(c, p) IN
       [d EXCEPT !.records = IF record THEN Append(@, p) ELSE @,
                 !.found_records = IF record THEN @ + 1 ELSE @,
                 !.candidates = @ \cup NewCandidates(d, peers)]

schedule_next_peer(c) ==
  IF c.candidates = {} THEN [action |-> NoAction, context |-> c]
  ELSE LET p == Min(c.candidates) IN
       [action |-> SendMessage(p),
        context |-> [c EXCEPT !.candidates = @ \ {p}, !.pending = @ \cup {p}]]

(* Mutant: the query ends before its records are handed out. *)
record_next_action_ends(c) ==
  IF is_done(c) \/ sufficient_records(c)
    THEN [action |-> IF c.known_records + c.found_records = 0 THEN QueryFailed
                                                            ELSE QuerySucceeded,
          context |-> c]
  ELSE IF Cardinality(c.pending) = parallelism_factor THEN [action |-> NoAction, context |-> c]
  ELSE schedule_next_peer(c)

record_next_action(c) ==
  IF c.records # <<>>
    THEN [action |-> PartialResult(Head(c.records)),
          context |-> [c EXCEPT !.records = Tail(@)]]
  ELSE IF is_done(c)
    THEN [action |-> IF c.known_records + c.found_records = 0 THEN QueryFailed
                                                            ELSE QuerySucceeded,
          context |-> c]
  ELSE IF sufficient_records(c) THEN [action |-> QuerySucceeded, context |-> c]
  ELSE IF Cardinality(c.pending) = parallelism_factor THEN [action |-> NoAction, context |-> c]
  ELSE schedule_next_peer(c)

-----------------------------------------------------------------------------
(* get_providers.rs *)

GetProvidersContext(in_peers, known_providers) ==
  [kind |-> "get_providers", pending |-> {}, queried |-> {}, candidates |-> in_peers,
   known_providers |-> known_providers, found_providers |-> {}]

(* found_providers and merge_and_sort_providers, once the query is over.   *)
found_providers(c) == c.known_providers \cup c.found_providers

providers_response(c, p, providers, peers) ==
  IF p \notin c.pending THEN c
  ELSE LET d == record_response_failure(c, p) IN
       [d EXCEPT !.found_providers = @ \cup providers,
                 !.candidates = @ \cup NewCandidates(d, peers)]

providers_next_action(c) ==
  IF is_done(c)
    THEN [action |-> IF c.found_providers = {} THEN QueryFailed ELSE QuerySucceeded,
          context |-> c]
  ELSE IF Cardinality(c.pending) = parallelism_factor THEN [action |-> NoAction, context |-> c]
  ELSE schedule_next_peer(c)

-----------------------------------------------------------------------------
(* find_many_nodes.rs and target_peers.rs *)

FindManyNodesContext(quorum, peers_to_report) ==
  [kind |-> "put_record_to_peers", quorum |-> quorum, peers_to_report |-> peers_to_report]

PutToTargetPeersContext(kind, peers, quorum) ==
  LET n == Cardinality(peers) IN
  [kind |-> kind, peers |-> peers, pending_peers |-> peers, n_succeeded |-> 0,
   peers_to_succeed |->
     IF quorum = All THEN Max({n, 1}) ELSE Min({quorum, Max({n, 1})})]

target_send_success(c, p) ==
  IF p \in c.pending_peers
    THEN [c EXCEPT !.pending_peers = @ \ {p}, !.n_succeeded = @ + 1] ELSE c

target_send_failure(c, p) == [c EXCEPT !.pending_peers = @ \ {p}]

target_next_action(c) ==
  [action |-> IF c.pending_peers # {} THEN NoAction
              ELSE IF c.n_succeeded >= c.peers_to_succeed THEN QuerySucceeded ELSE QueryFailed,
   context |-> c]

-----------------------------------------------------------------------------
(* The dispatch of QueryEngine (query/mod.rs) *)

FindKinds == {"find_node", "put_record", "add_provider"}
TargetKinds == {"put_record_to_found_nodes", "add_provider_to_found_nodes"}
ReadKinds == {"get_record", "get_providers"}

register_response_failure(c, p) ==
  CASE c.kind \in FindKinds -> find_response_failure(c, p)
    [] c.kind \in ReadKinds -> record_response_failure(c, p)
    [] OTHER -> c

(* m is the message: its kind is the one the query asked for, or another. *)
register_response(c, p, m) ==
  CASE c.kind \in TargetKinds \cup {"put_record_to_peers"} -> c
    [] m.kind = "other" -> register_response_failure(c, p)
    [] c.kind \in FindKinds -> find_response(c, p, m.peers)
    [] c.kind = "get_record" -> record_response(c, p, m.record, m.peers)
    [] OTHER -> providers_response(c, p, m.providers, m.peers)

(* register_response returns the peer: it has proven to be a server. *)
proven(c, p, m) ==
  \/ c.kind \in FindKinds \cup ReadKinds /\ m.kind # "other" /\ p \in c.pending
  \/ c.kind = "put_record_to_found_nodes" /\ m.kind # "other" /\ p \in c.peers

register_send_failure(c, p) == IF c.kind \in TargetKinds THEN target_send_failure(c, p) ELSE c

register_send_success(c, p) == IF c.kind \in TargetKinds THEN target_send_success(c, p) ELSE c

register_peer_failure(c, p) == register_response_failure(register_send_failure(c, p), p)

(* next_peer_action: there is still a message to send to the peer. *)
next_peer_action(c, p) == c.kind \in FindKinds \cup ReadKinds /\ p \in c.pending

next_action(c) ==
  CASE c.kind \in FindKinds -> find_next_action(c)
    [] c.kind = "get_record" -> record_next_action(c)
    [] c.kind = "get_providers" -> providers_next_action(c)
    [] c.kind \in TargetKinds -> target_next_action(c)
    [] OTHER -> [action |-> QuerySucceeded, context |-> c]
=============================================================================
