------------------------------ MODULE Kademlia ------------------------------
(***************************************************************************)
(* The Kademlia protocol (protocol/libp2p/kademlia/mod.rs) with its query  *)
(* engine (query/mod.rs), its executor (executor.rs) and its handle, on    *)
(* top of the promises of SubstreamService.                                *)
(*                                                                         *)
(* The protocol is one task: run drains the engine, one EngineStep per     *)
(* action, and then handles one event to the end.  The routing table and   *)
(* the store are reduced here to the peers and the record they hold; they  *)
(* are the subject of RoutingTable and MemoryStore.                        *)
(***************************************************************************)
EXTENDS KademliaQuery, Functions

CONSTANTS
  Peer, None,
  InvalidMessages,       \* a response may fail to parse, or be an ADD_PROVIDER
  Requests,              \* the queries the user may start
  Quorums,               \* the quorums the user may ask for
  MaxQueries,            \* bound: queries ever started
  MaxSubstreams,         \* bound: outbound substreams ever opened
  CommandCapacity

SubstreamId == 0 .. MaxSubstreams - 1
QueryId == 0 .. MaxQueries - 1

VARIABLES
  \* the service, as SubstreamService describes it
  sessions, requested, answers,
  known,              \* keys of Kademlia.peers
  actions,            \* the pending_actions of all peers
  pending_substreams,
  pending_dials,      \* peer -> actions that wait for the dial
  futures,            \* QueryExecutor
  queries,            \* QueryEngine: query id -> context, or None
  table,              \* routing table: peer -> its connection, or "absent"
  stored,             \* the store holds the record
  providing,          \* the store holds the local provider
  next_query_id,
  commands,           \* channel cmd_rx
  \* history of event_tx
  ended,              \* query id -> final events
  records,            \* query id -> peers whose record the user was given
  answered            \* query id -> peers whose answer the query has accepted

service == <<sessions, requested, answers>>
work == <<known, actions, pending_substreams, pending_dials, futures>>
data == <<table, stored, providing>>
user == <<next_query_id, commands>>
reports == <<ended, records, answered>>
vars == <<service, work, queries, data, user, reports>>

Service == INSTANCE SubstreamService

Init ==
  /\ Service!Init
  /\ known = {} /\ actions = {} /\ pending_substreams = {} /\ futures = {}
  /\ pending_dials = [p \in Peer |-> {}]
  /\ queries = [q \in QueryId |-> None]
  /\ table = [p \in Peer |-> "absent"]
  /\ stored = FALSE /\ providing = FALSE
  /\ next_query_id = 0
  /\ commands = <<>>
  /\ ended = [q \in QueryId |-> 0]
  /\ records = [q \in QueryId |-> {}]
  /\ answered = [q \in QueryId |-> {}]

-----------------------------------------------------------------------------
(* The engine *)

Running == {q \in QueryId : queries[q] # None}

(* QueryEngine::register_send_success; the query may be over. *)
RegisterSent(qs, q, p) ==
  IF qs[q] = None THEN qs ELSE [qs EXCEPT ![q] = register_send_success(@, p)]

RegisterFailures(qs, ids, p) ==
  [q \in QueryId |-> IF q \in ids /\ qs[q] # None THEN register_peer_failure(qs[q], p)
                                                 ELSE qs[q]]

Acts(q) == queries[q] # None /\ next_action(queries[q]).action # NoAction

(* run handles an event when the engine has no action left; the calls of   *)
(* next_action that returned None have left their mark.                    *)
Drained == \A q \in QueryId : ~Acts(q)
Settled == [q \in QueryId |-> IF queries[q] = None THEN None ELSE next_action(queries[q]).context]

Ends(q) == ended' = [ended EXCEPT ![q] = @ + 1]

NextSubstream == Cardinality({s \in SubstreamId : requested[s] # None})

(* The outcome of open_substream_or_dial for each of some peers. *)
Outcomes(peers) ==
  {o \in [peers -> {"open", "dial", "error"}] :
     /\ \A p \in peers : o[p] = "open" => sessions[p] = 1
     /\ NextSubstream + Cardinality({p \in peers : o[p] = "open"}) <= MaxSubstreams}

(* open_substream_or_dial of the peers, in the order of their distance.    *)
OpenOrDial(o, kind, q) ==
  LET opened == {p \in DOMAIN o : o[p] = "open"}
      id(p) == NextSubstream + Cardinality({r \in opened : r < p})
      ids == {id(p) : p \in opened} IN
  /\ requested' = [s \in SubstreamId |-> IF s \in ids THEN CHOOSE p \in opened : id(p) = s
                                                     ELSE requested[s]]
  /\ pending_substreams' = pending_substreams \cup ids
  /\ known' = known \cup opened
  /\ actions' = actions \cup {[substream |-> id(p), peer |-> p, kind |-> kind, query |-> q]
                                : p \in opened}
  /\ pending_dials' = [p \in Peer |-> IF p \in DOMAIN o /\ o[p] = "dial"
                                        THEN pending_dials[p] \cup {[kind |-> kind, query |-> q]}
                                        ELSE pending_dials[p]]
  /\ UNCHANGED <<sessions, answers, futures>>

(* on_query_action of SendMessage *)
SendFindNode(q, p, context) ==
  /\ \E o \in Outcomes({p}) :
       /\ OpenOrDial(o, "find", q)
       /\ queries' = [queries EXCEPT ![q] = IF o[p] = "error" THEN register_peer_failure(context, p)
                                                             ELSE context]
  /\ UNCHANGED reports

(* ... of PutRecordToFoundNodes and AddProviderToFoundNodes; a peer that   *)
(* could not be asked is only logged.                                      *)
SendToFoundNodes(q, kind, peers, quorum) ==
  /\ \E o \in Outcomes(peers) :
       OpenOrDial(o, IF kind = "put_record_to_found_nodes" THEN "put" ELSE "add", q)
  /\ queries' = [queries EXCEPT ![q] = PutToTargetPeersContext(kind, peers, quorum)]
  /\ UNCHANGED reports

(* ... of the others, which are events for the user. *)
QueryDone(q) ==
  /\ queries' = [queries EXCEPT ![q] = None]
  /\ Ends(q)
  /\ UNCHANGED <<service, work, records, answered>>

(* on_query_succeeded *)
OnQuerySucceeded(q, c) ==
  CASE c.kind = "put_record" ->
         SendToFoundNodes(q, "put_record_to_found_nodes", c.responses, c.quorum)
    [] c.kind = "put_record_to_peers" ->
         SendToFoundNodes(q, "put_record_to_found_nodes", c.peers_to_report, c.quorum)
    [] c.kind = "add_provider" ->
         SendToFoundNodes(q, "add_provider_to_found_nodes", c.responses, c.quorum)
    [] OTHER -> QueryDone(q)

(* next_action of the engine, and on_query_action. *)
EngineStep(q) ==
  LET r == next_action(queries[q]) IN
  /\ queries[q] # None
  /\ \/ /\ r.action.type = "send"
        /\ SendFindNode(q, r.action.peer, r.context)
     \/ /\ r.action.type = "partial"
        /\ queries' = [queries EXCEPT ![q] = r.context]
        /\ records' = [records EXCEPT ![q] = @ \cup {r.action.peer}]
        /\ UNCHANGED <<service, work, ended, answered>>
     \/ /\ r.action.type = "succeeded"
        /\ OnQuerySucceeded(q, queries[q])
     \/ /\ r.action.type = "failed"
        /\ QueryDone(q)
  /\ UNCHANGED <<data, user>>

-----------------------------------------------------------------------------
(* Connections *)

(* Mutant: only the query that met the failure is told. *)
DisconnectPeer_one(p, query) ==
  /\ queries' = RegisterFailures(Settled, {query}, p)
  /\ known' = known \ {p}
  /\ actions' = {a \in actions : a.peer # p}
  /\ table' = [table EXCEPT ![p] = IF @ = "absent" THEN @ ELSE "not_connected"]

(* disconnect_peer(p, query): the pending actions of the peer fail, and    *)
(* the failing query with them.                                            *)
DisconnectPeer(p, query) ==
  LET mine == {a \in actions : a.peer = p} IN
  /\ queries' = RegisterFailures(Settled, {query} \cup {a.query : a \in mine}, p)
  /\ known' = known \ {p}
  /\ actions' = actions \ mine
  /\ table' = [table EXCEPT ![p] = IF @ = "absent" THEN @ ELSE "not_connected"]

(* on_connection_established.  A substream opened here is not entered in   *)
(* pending_substreams, and only a FIND_NODE that cannot be opened fails.   *)
ConnectionEstablished(p) ==
  /\ Drained
  /\ sessions[p] = 0
  /\ sessions' = [sessions EXCEPT ![p] = 1]
  /\ table' = [table EXCEPT ![p] = IF @ = "absent" THEN @ ELSE "connected"]
  /\ \/ /\ p \in known \/ pending_dials[p] = {}
        /\ queries' = Settled
        /\ UNCHANGED <<requested, known, actions, pending_dials>>
     \/ /\ p \notin known /\ pending_dials[p] # {}
        /\ \E opened \in SUBSET pending_dials[p] :
             /\ NextSubstream + Cardinality(opened) <= MaxSubstreams
             /\ \E id \in Bijection(opened, NextSubstream .. NextSubstream + Cardinality(opened) - 1) :
                  /\ requested' = [s \in SubstreamId |-> IF s \in Range(id) THEN p
                                                                           ELSE requested[s]]
                  /\ actions' = actions \cup
                       {[substream |-> id[a], peer |-> p, kind |-> a.kind, query |-> a.query]
                          : a \in opened}
             /\ queries' = RegisterFailures(Settled,
                             {a.query : a \in {b \in pending_dials[p] \ opened : b.kind = "find"}}, p)
        /\ known' = known \cup {p}
        /\ pending_dials' = [pending_dials EXCEPT ![p] = {}]
  /\ UNCHANGED <<answers, pending_substreams, futures, stored, providing, user, reports>>

ConnectionClosed(p) ==
  /\ Drained
  /\ Service!ConnectionClosed(p)
  /\ DisconnectPeer(p, None)
  /\ UNCHANGED <<pending_substreams, pending_dials, futures, stored, providing, user, reports>>

(* on_dial_failure *)
DialFailure(p) ==
  /\ Drained
  /\ pending_dials[p] # {}
  /\ queries' = RegisterFailures(Settled, {a.query : a \in pending_dials[p]}, p)
  /\ pending_dials' = [pending_dials EXCEPT ![p] = {}]
  /\ UNCHANGED <<service, known, actions, pending_substreams, futures, data, user, reports>>

-----------------------------------------------------------------------------
(* Substreams *)

FutureKind(action) ==
  CASE action = "find" -> "request" [] action = "put" -> "put" [] OTHER -> "add"

(* on_outbound_substream.  The substream is closed if the query no longer  *)
(* waits for the peer, or if the peer has been disconnected.               *)
OutboundSubstream(s) ==
  LET p == requested[s]
      own == {a \in actions : a.peer = p /\ a.substream = s}
      sent == {a \in own : a.kind = "find" =>
                             Settled[a.query] # None /\ next_peer_action(Settled[a.query], p)} IN
  /\ Drained
  /\ Service!Answer(s)
  /\ pending_substreams' = pending_substreams \ {s}
  /\ actions' = actions \ own
  /\ futures' = futures \cup {[kind |-> FutureKind(a.kind), peer |-> p, query |-> a.query]
                                : a \in sent}
  /\ queries' = Settled
  /\ UNCHANGED <<known, pending_dials, data, user, reports>>

(* on_substream_open_failure *)
SubstreamOpenFailure(s) ==
  LET p == requested[s]
      own == {a \in actions : a.peer = p /\ a.substream = s} IN
  /\ Drained
  /\ Service!Answer(s)
  /\ pending_substreams' = pending_substreams \ {s}
  /\ IF s \in pending_substreams /\ p \in known
       THEN DisconnectPeer(p, IF own = {} THEN None ELSE (CHOOSE a \in own : TRUE).query)
       ELSE queries' = Settled /\ UNCHANGED <<known, actions, table>>
  /\ UNCHANGED <<pending_dials, futures, stored, providing, user, reports>>

(* on_inbound_substream, as a server.  Bound: one request at a time. *)
InboundSubstream(p) ==
  /\ Drained
  /\ sessions[p] = 1
  /\ \A f \in futures : f.query # None
  /\ known' = known \cup {p}
  /\ futures' = futures \cup {[kind |-> "read", peer |-> p, query |-> None]}
  /\ queries' = Settled
  /\ UNCHANGED <<service, actions, pending_substreams, pending_dials, data, user, reports>>

-----------------------------------------------------------------------------
(* Results of the executor *)

Takes(f, kinds) ==
  /\ Drained
  /\ f \in futures /\ f.kind \in kinds
  /\ futures' = futures \ {f}

(* SendFailure and ReadFailure: the substream failed or timed out.         *)
Failure(f) ==
  /\ Takes(f, {"request", "put", "add", "read", "reply"})
  /\ DisconnectPeer(f.peer, f.query)
  /\ UNCHANGED <<service, pending_substreams, pending_dials, stored, providing, user, reports>>

(* SendSuccess and AssumeSendSuccess *)
SendSuccess(f) ==
  /\ Takes(f, {"put", "add", "reply", "ack"})
  /\ queries' = IF f.query = None THEN Settled
                ELSE RegisterSent(Settled, f.query, f.peer)
  /\ UNCHANGED <<service, known, actions, pending_substreams, pending_dials, data, user, reports>>

(* What a peer may answer to a query, or a message of another kind. *)
Message(c) ==
  [kind : {"peers"},
   peers : SUBSET (Peer \cup {local_peer_id}),
   record : IF c.kind = "get_record" THEN BOOLEAN ELSE {FALSE},
   providers : IF c.kind = "get_providers" THEN SUBSET Peer ELSE {{}}]
    \cup [kind : {"other"}]

(* register_response uses the answer: it is a response, or a record. *)
Accepts(c, p, m) == p \in c.pending /\ m.kind # "other" /\ (c.kind = "get_record" => m.record)

(* ReadSuccess of a response, and on_message_received. *)
Response(f) ==
  LET sent == RegisterSent(Settled, f.query, f.peer)
      c == sent[f.query] IN
  /\ Takes(f, {"request", "put"})
  /\ \/ /\ c = None
        /\ queries' = sent
        /\ UNCHANGED <<table, answered>>
     \/ /\ c # None
        /\ \E m \in Message(c) :
             /\ queries' = [sent EXCEPT ![f.query] = register_response(c, f.peer, m)]
             /\ table' = [table EXCEPT ![f.peer] =
                            IF ~proven(c, f.peer, m) THEN @
                            ELSE IF f.peer \in known THEN "connected" ELSE "not_connected"]
             /\ answered' = [answered EXCEPT ![f.query] =
                               IF c.kind \in FindKinds \cup ReadKinds /\ Accepts(c, f.peer, m)
                                 THEN @ \cup {f.peer} ELSE @]
  /\ UNCHANGED <<service, known, actions, pending_substreams, pending_dials, stored, providing,
                 user, ended, records>>

(* ... of a response that cannot be parsed or is an ADD_PROVIDER. *)
InvalidResponse(f) ==
  /\ InvalidMessages
  /\ Takes(f, {"request", "put"})
  /\ queries' = RegisterSent(Settled, f.query, f.peer)
  /\ UNCHANGED <<service, known, actions, pending_substreams, pending_dials, data, user, reports>>

(* ... of a request.  The answer, if there is one, is sent by the executor. *)
Request(f, sends) ==
  /\ Drained
  /\ f \in futures /\ f.kind = "read"
  /\ futures' = (futures \ {f}) \cup
       {[kind |-> a, peer |-> f.peer, query |-> None] : a \in sends}
  /\ queries' = Settled
  /\ UNCHANGED <<service, known, actions, pending_substreams, pending_dials, table, providing,
                 user, reports>>

(* FIND_NODE, GET_VALUE and GET_PROVIDERS are answered, ... *)
Reply(f) == Request(f, {"reply"}) /\ UNCHANGED stored

(* ... PUT_VALUE is acknowledged once the record is stored, ... *)
PutValue(f) == Request(f, {"ack"}) /\ stored' = TRUE

(* ... and ADD_PROVIDER, or a message that is not valid, has no answer.    *)
AddProvider(f) == Request(f, {}) /\ UNCHANGED stored

-----------------------------------------------------------------------------
(* Commands of the user *)

(* The handle sends a command; a query has an id from then on. *)
Command(kind, quorum) ==
  /\ Len(commands) < CommandCapacity
  /\ next_query_id < MaxQueries
  /\ commands' = Append(commands, [kind |-> kind, quorum |-> quorum, query |-> next_query_id])
  /\ next_query_id' = next_query_id + 1
  /\ UNCHANGED <<service, work, queries, data, reports>>

closest ==
  LET held == {p \in Peer : table[p] # "absent"} IN
  {p \in held : Cardinality({r \in held : r < p}) < replication_factor}

Receive(kind) ==
  /\ Drained
  /\ commands # <<>> /\ Head(commands).kind = kind
  /\ commands' = Tail(commands)

Starts(q, context) ==
  /\ queries' = [Settled EXCEPT ![q] = context]
  /\ UNCHANGED <<service, work, table, next_query_id>>

FindNode ==
  LET c == Head(commands) IN
  /\ Receive("find_node")
  /\ Starts(c.query, FindNodeContext("find_node", c.quorum, closest))
  /\ UNCHANGED <<stored, providing, reports>>

PutRecord ==
  LET c == Head(commands) IN
  /\ Receive("put_record")
  /\ stored' = TRUE
  /\ Starts(c.query, FindNodeContext("put_record", c.quorum, closest))
  /\ UNCHANGED <<providing, reports>>

(* Peers that are not in the routing table are left out. *)
PutRecordToPeers ==
  LET c == Head(commands) IN
  /\ Receive("put_record_to_peers")
  /\ stored' \in {stored, TRUE}
  /\ \E peers \in SUBSET Peer :
       Starts(c.query, FindManyNodesContext(c.quorum, {p \in peers : table[p] # "absent"}))
  /\ UNCHANGED <<providing, reports>>

(* put_local_provider may refuse the key. *)
StartProviding ==
  LET c == Head(commands) IN
  /\ Receive("add_provider")
  /\ \/ /\ providing' = TRUE
        /\ Starts(c.query, FindNodeContext("add_provider", c.quorum, closest))
        /\ UNCHANGED ended
     \/ /\ Starts(c.query, None)
        /\ Ends(c.query)
        /\ UNCHANGED providing
  /\ UNCHANGED <<stored, records, answered>>

(* A local record is reported at once; it is enough for Quorum::One. *)
GetRecord ==
  LET c == Head(commands) IN
  /\ Receive("get_record")
  /\ records' = [records EXCEPT ![c.query] = IF stored THEN {local_peer_id} ELSE {}]
  /\ IF stored /\ c.quorum = 1
       THEN Starts(c.query, None) /\ Ends(c.query)
       ELSE /\ Starts(c.query, GetRecordContext(c.quorum, closest, stored))
            /\ UNCHANGED ended
  /\ UNCHANGED <<stored, providing, answered>>

GetProviders ==
  LET c == Head(commands) IN
  /\ Receive("get_providers")
  /\ Starts(c.query, GetProvidersContext(closest, IF providing THEN {local_peer_id} ELSE {}))
  /\ UNCHANGED <<stored, providing, reports>>

(* AddKnownPeer; the handle does not wait for an answer. *)
AddKnownPeer(p) ==
  /\ Drained
  /\ table' = [table EXCEPT ![p] = IF p \in known THEN "connected" ELSE "not_connected"]
  /\ queries' = Settled
  /\ UNCHANGED <<service, work, stored, providing, user, reports>>

(* StoreRecord and StopProviding, likewise *)
StoreRecord ==
  /\ Drained
  /\ stored' = TRUE
  /\ queries' = Settled
  /\ UNCHANGED <<service, work, table, providing, user, reports>>

StopProviding ==
  /\ Drained
  /\ providing' = FALSE
  /\ queries' = Settled
  /\ UNCHANGED <<service, work, table, stored, user, reports>>

(* RefreshProvider of the store starts a query of its own. *)
RefreshProvider ==
  /\ Drained
  /\ providing
  /\ next_query_id < MaxQueries
  /\ next_query_id' = next_query_id + 1
  /\ \E quorum \in Quorums :
       queries' = [Settled EXCEPT ![next_query_id] =
                     FindNodeContext("add_provider", quorum, closest)]
  /\ UNCHANGED <<service, work, data, commands, reports>>

(* A pending peer is beyond peer_timeout. *)
PeerTimeout(q, p) ==
  /\ queries[q] # None
  /\ queries[q].kind \in FindKinds
  /\ p \in queries[q].pending \ queries[q].late
  /\ queries' = [queries EXCEPT ![q].late = @ \cup {p}]
  /\ UNCHANGED <<service, work, data, user, reports>>

Next ==
  \/ \E q \in QueryId : EngineStep(q)
  \/ \E p \in Peer : \/ ConnectionEstablished(p)
                     \/ ConnectionClosed(p)
                     \/ DialFailure(p)
                     \/ InboundSubstream(p)
                     \/ AddKnownPeer(p)
                     \/ \E q \in QueryId : PeerTimeout(q, p)
  \/ \E s \in SubstreamId : OutboundSubstream(s) \/ SubstreamOpenFailure(s)
  \/ \E f \in futures : \/ Failure(f) \/ SendSuccess(f) \/ Response(f)
                        \/ InvalidResponse(f)
                        \/ Reply(f) \/ PutValue(f) \/ AddProvider(f)
  \/ \E k \in Requests, n \in Quorums : Command(k, n)
  \/ FindNode \/ PutRecord \/ PutRecordToPeers \/ StartProviding \/ GetRecord \/ GetProviders
  \/ StoreRecord \/ StopProviding \/ RefreshProvider

Spec == Init /\ [][Next]_vars

-----------------------------------------------------------------------------
(* Properties *)

(* Every peer a context or the protocol names is a peer of the network,    *)
(* never the local node (to_query_candidate), and every query is of a kind *)
(* the engine dispatches.                                                  *)
TypeOK ==
  /\ known \subseteq Peer
  /\ \A a \in actions : a.peer \in Peer /\ a.substream \in SubstreamId /\ a.query \in QueryId
  /\ pending_substreams \subseteq SubstreamId
  /\ \A q \in Running :
       \/ queries[q].kind \in FindKinds \cup ReadKinds /\ queries[q].candidates \subseteq Peer
       \/ queries[q].kind \in TargetKinds /\ queries[q].peers \subseteq Peer
       \/ queries[q].kind = "put_record_to_peers"

(* A query is reported to the user at most once, and is then gone: late    *)
(* responses, failures of its peers and its second phase never revive it.  *)
EndsOnce == \A q \in QueryId : ended[q] <= 1 /\ (ended[q] = 1 => queries[q] = None)

Tracked(q, p) ==
  \/ \E a \in actions : a.peer = p /\ a.query = q
  \/ \E a \in pending_dials[p] : a.query = q
  \/ \E f \in futures : f.peer = p /\ f.query = q

(* Whatever order dials, connections, substreams and answers come in, a    *)
(* peer a search waits for is one the protocol is still busy with: the     *)
(* search is told of every failure.                                        *)
PendingTracked ==
  ~InvalidMessages =>
    \A q \in Running : queries[q].kind \in FindKinds \cup ReadKinds =>
      \A p \in queries[q].pending : Tracked(q, p)

Closest(peers) == {p \in peers : Cardinality({r \in peers : r < p}) < replication_factor}

(* A search keeps the replication_factor closest of all peers that have    *)
(* answered it, in whatever order they did.                                *)
ClosestKept ==
  \A q \in Running : queries[q].kind \in FindKinds =>
    queries[q].responses = Closest(answered[q])

(* Every record that a GET_VALUE query has accepted reaches the user       *)
(* before the query ends.                                                  *)
ReportsRecords ==
  \A q \in Running : queries[q].kind = "get_record" /\ queries'[q] = None =>
    answered[q] \subseteq records'[q]
RecordsReported == [][ReportsRecords]_vars

(* The peers the protocol or the routing table takes to be connected have  *)
(* a session: after a failure, a timeout or a close, in any order, no      *)
(* connection is remembered that is gone.                                  *)
KnownConnected ==
  \A p \in Peer : p \in known \/ table[p] = "connected" => sessions[p] = 1

(* The queries, the actions that the protocol has under way for them and   *)
(* the connections agree.                                                  *)
Inv == TypeOK /\ EndsOnce /\ PendingTracked /\ KnownConnected

(* A search is never stuck: for every peer it waits for, the service, the  *)
(* dialer or the executor has yet to answer.                               *)
NeverStuck ==
  \A q \in Running : queries[q].kind \in FindKinds =>
    \A p \in queries[q].pending :
      \/ \E a \in actions : a.peer = p /\ a.query = q /\ Service!Unanswered(a.substream)
      \/ \E a \in pending_dials[p] : a.query = q
      \/ \E f \in futures : f.peer = p /\ f.query = q
=============================================================================
