-------------------------- MODULE RequestResponse ---------------------------
(***************************************************************************)
(* The request-response protocol (protocol/request_response/mod.rs) and    *)
(* its handle (handle.rs), on top of the promises of SubstreamService.     *)
(*                                                                         *)
(* The protocol is one task: a branch of its select! takes a service event, *)
(* a finished future or a command and handles it to the end, so each is one *)
(* action.  What open_substream and dial return is up to the service.      *)
(* Payloads, fallback names and error kinds are left out.                  *)
(***************************************************************************)
EXTENDS Naturals, Sequences, FiniteSets

CONSTANTS
  Peer,
  None,
  MayDial,           \* requests sent with DialOptions::Dial
  max_concurrent_inbound_requests,  \* a number, or None
  CommandCapacity,   \* capacity of the command channel
  MaxRequests,       \* bound: request ids ever allocated
  MaxSubstreams      \* bound: substream ids ever allocated

RequestId == 0 .. MaxRequests - 1
SubstreamId == 0 .. MaxSubstreams - 1

ASSUME RequestBounds ==
  /\ MayDial \subseteq RequestId
  /\ max_concurrent_inbound_requests \in Nat \cup {None}
  /\ CommandCapacity \in Nat /\ MaxRequests \in Nat /\ MaxSubstreams \in Nat

ASSUME NoneIsNot == None \notin Peer \cup Nat

VARIABLES
  \* the service, as SubstreamService describes it
  sessions, requested, answers,
  \* the protocol
  peers,                       \* keys of the map of this name
  active, active_inbound,      \* PeerContext of each peer
  pending_outbound,            \* substream id -> request id, or None
  pending_inbound,             \* request id -> stage of its future
  pending_outbound_cancels,    \* requests with a cancellation handle
  signalled,                   \* requests whose handle was used
  pending_dials,               \* peer -> request id, or None
  pending_inbound_requests,    \* requests being read
  pending_outbound_responses,  \* requests whose response is awaited or sent
  next_request_id,
  \* the handle
  commands,                    \* channel of RequestResponseCommand
  received,                    \* RequestReceived events in the event channel
  pending_responses,
  target,                      \* request id -> peer, or None
  \* history
  answered,                    \* request id -> events reported of it
  canceled,                    \* requests canceled before any such event
  stale                        \* inbound requests whose connection has closed

service == <<sessions, requested, answers>>
contexts == <<peers, active, active_inbound>>
outbound == <<pending_outbound, pending_inbound, pending_outbound_cancels, signalled>>
inbound == <<pending_inbound_requests, pending_outbound_responses>>
handle == <<received, pending_responses>>
history == <<answered, canceled, stale>>
vars == <<service, contexts, outbound, pending_dials, inbound, next_request_id,
          commands, handle, target, history>>

Service == INSTANCE SubstreamService

Command == [kind : {"send", "cancel"}, request : RequestId]

(* Every variable has its type, and a peer that is not in the map has no   *)
(* context.                                                                *)
TypeOK ==
  /\ sessions \in [Peer -> {0, 1}]
  /\ requested \in [SubstreamId -> Peer \cup {None}]
  /\ answers \in [SubstreamId -> {0, 1}]
  /\ peers \subseteq Peer
  /\ active \in [Peer -> SUBSET RequestId]
  /\ active_inbound \in [Peer -> SUBSET RequestId]
  /\ \A p \in Peer \ peers : active[p] = {} /\ active_inbound[p] = {}
  /\ pending_outbound \in [SubstreamId -> RequestId \cup {None}]
  /\ pending_inbound \in [RequestId -> {"none", "sending", "waiting"}]
  /\ pending_outbound_cancels \subseteq RequestId
  /\ signalled \subseteq RequestId
  /\ pending_dials \in [Peer -> RequestId \cup {None}]
  /\ pending_inbound_requests \subseteq RequestId
  /\ pending_outbound_responses \subseteq RequestId
  /\ next_request_id \in 0 .. MaxRequests
  /\ commands \in Seq(Command)
  /\ received \subseteq RequestId
  /\ pending_responses \subseteq RequestId
  /\ target \in [RequestId -> Peer \cup {None}]
  /\ answered \in [RequestId -> Nat]
  /\ canceled \subseteq RequestId
  /\ stale \subseteq RequestId

Init ==
  /\ Service!Init
  /\ peers = {}
  /\ active = [p \in Peer |-> {}]
  /\ active_inbound = [p \in Peer |-> {}]
  /\ pending_outbound = [s \in SubstreamId |-> None]
  /\ pending_inbound = [r \in RequestId |-> "none"]
  /\ pending_outbound_cancels = {}
  /\ signalled = {}
  /\ pending_dials = [p \in Peer |-> None]
  /\ pending_inbound_requests = {}
  /\ pending_outbound_responses = {}
  /\ next_request_id = 0
  /\ commands = <<>>
  /\ received = {}
  /\ pending_responses = {}
  /\ target = [r \in RequestId |-> None]
  /\ answered = [r \in RequestId |-> 0]
  /\ canceled = {}
  /\ stale = {}

-----------------------------------------------------------------------------
(* Calls of the service and reports to the user *)

Report(requests) ==
  answered' = [r \in RequestId |-> IF r \in requests THEN answered[r] + 1 ELSE answered[r]]

Unused(s) ==
  /\ requested[s] = None
  /\ \A u \in SubstreamId : u < s => requested[u] # None

(* open_substream succeeds with a new id, and the request waits for it. *)
OpenSubstream(p, r, s) ==
  /\ Unused(s)
  /\ requested' = [requested EXCEPT ![s] = p]
  /\ pending_outbound' = [pending_outbound EXCEPT ![s] = r]

OpenFails == UNCHANGED <<requested, pending_outbound>>

-----------------------------------------------------------------------------
(* handle_service_event *)

(* Mutant: the request is read from the map and stays there. *)
Dialed_kept(p) == pending_dials

Dialed(p) == [pending_dials EXCEPT ![p] = None]

(* on_connection_established: the request that dialed the peer is sent.  If *)
(* its substream cannot be opened, the peer does not get a context.        *)
ConnectionEstablished(p) ==
  LET r == pending_dials[p] IN
  /\ sessions[p] = 0
  /\ sessions' = [sessions EXCEPT ![p] = 1]
  /\ pending_dials' = Dialed(p)
  /\ \/ /\ r = None
        /\ peers' = peers \cup {p}
        /\ UNCHANGED <<requested, pending_outbound, active, answered>>
     \/ /\ r # None
        /\ \E s \in SubstreamId : OpenSubstream(p, r, s)
        /\ peers' = peers \cup {p}
        /\ active' = [active EXCEPT ![p] = {r}]
        /\ UNCHANGED answered
     \/ /\ r # None
        /\ OpenFails
        /\ Report({r})
        /\ UNCHANGED <<peers, active>>
  /\ UNCHANGED <<answers, active_inbound, pending_inbound, pending_outbound_cancels,
                 signalled, inbound, next_request_id, commands, handle, target,
                 canceled, stale>>

Dropped(context, p) == [context EXCEPT ![p] = {}]

(* The substreams requested for other peers. *)
Retained(p) ==
  [s \in SubstreamId |-> IF pending_outbound[s] # None /\ target[pending_outbound[s]] = p
                           THEN None ELSE pending_outbound[s]]

(* Mutant: nobody is told. *)
FailedOnClose_none(p) == {}

FailedOnClose(p) == active[p]

(* on_connection_closed: every request still active fails. *)
ConnectionClosed(p) ==
  /\ sessions[p] = 1
  /\ \A s \in SubstreamId : requested[s] = p => ~Service!Unanswered(s)
  /\ sessions' = [sessions EXCEPT ![p] = 0]
  /\ pending_outbound' = Retained(p)
  /\ peers' = peers \ {p}
  /\ active' = Dropped(active, p)
  /\ active_inbound' = Dropped(active_inbound, p)
  /\ Report(FailedOnClose(p))
  /\ stale' = stale \cup {r \in pending_inbound_requests : target[r] = p}
  /\ UNCHANGED <<requested, answers, pending_inbound, pending_outbound_cancels, signalled,
                 pending_dials, inbound, next_request_id, commands, handle, target, canceled>>

(* on_outbound_substream: the future that sends the request is started.    *)
SubstreamOpened(s) ==
  LET r == pending_outbound[s] IN
  /\ Service!Answer(s)
  /\ pending_outbound' = [pending_outbound EXCEPT ![s] = None]
  /\ IF r = None
       THEN UNCHANGED <<pending_inbound, pending_outbound_cancels>>
       ELSE /\ pending_inbound' = [pending_inbound EXCEPT ![r] = "sending"]
            /\ pending_outbound_cancels' = pending_outbound_cancels \cup {r}
  /\ UNCHANGED <<contexts, signalled, pending_dials, inbound, next_request_id, commands,
                 handle, target, history>>

Failed(r) == [active EXCEPT ![target[r]] = @ \ {r}]

(* on_substream_open_failure *)
SubstreamOpenFailure(s) ==
  LET r == pending_outbound[s] IN
  /\ Service!Answer(s)
  /\ pending_outbound' = [pending_outbound EXCEPT ![s] = None]
  /\ IF r = None
       THEN UNCHANGED <<active, answered>>
       ELSE active' = Failed(r) /\ Report({r})
  /\ UNCHANGED <<peers, active_inbound, pending_inbound, pending_outbound_cancels, signalled,
                 pending_dials, inbound, next_request_id, commands, handle, target,
                 canceled, stale>>

(* on_dial_failure; the manager reports the failed dials of all protocols. *)
DialFailure(p) ==
  LET r == pending_dials[p] IN
  /\ r # None
  /\ pending_dials' = Dialed(p)
  /\ active' = [active EXCEPT ![p] = @ \ {r}]
  /\ Report({r})
  /\ UNCHANGED <<service, peers, active_inbound, outbound, inbound, next_request_id,
                 commands, handle, target, canceled, stale>>

AtMaximum ==
  /\ max_concurrent_inbound_requests # None
  /\ max_concurrent_inbound_requests <=
       Cardinality(pending_inbound_requests) + Cardinality(pending_outbound_responses)

(* on_inbound_substream: past the maximum the substream is closed.  A peer *)
(* without a context costs a request id and nothing else.                  *)
InboundSubstream(p) ==
  LET r == next_request_id IN
  /\ sessions[p] = 1
  /\ ~AtMaximum
  /\ r < MaxRequests
  /\ next_request_id' = r + 1
  /\ IF p \in peers
       THEN /\ active_inbound' = [active_inbound EXCEPT ![p] = @ \cup {r}]
            /\ pending_inbound_requests' = pending_inbound_requests \cup {r}
            /\ target' = [target EXCEPT ![r] = p]
       ELSE UNCHANGED <<active_inbound, pending_inbound_requests, target>>
  /\ UNCHANGED <<service, peers, active, outbound, pending_dials,
                 pending_outbound_responses, commands, handle, history>>

-----------------------------------------------------------------------------
(* Futures of the protocol *)

(* The request has been sent; the future waits for the response. *)
RequestSent(r) ==
  /\ pending_inbound[r] = "sending"
  /\ pending_inbound' = [pending_inbound EXCEPT ![r] = "waiting"]
  /\ UNCHANGED <<service, contexts, pending_outbound, pending_outbound_cancels, signalled,
                 pending_dials, inbound, next_request_id, commands, handle, target, history>>

(* The peer has a context and the request is active in it. *)
Expected(r) == r \in active[target[r]]

(* on_substream_event: a response, a failure or a timeout is reported, and *)
(* the future of a request that was canceled may end without a report.     *)
SubstreamEvent(r) ==
  /\ pending_inbound[r] # "none"
  /\ pending_inbound' = [pending_inbound EXCEPT ![r] = "none"]
  /\ pending_outbound_cancels' = pending_outbound_cancels \ {r}
  /\ signalled' = signalled \ {r}
  /\ active' = [active EXCEPT ![target[r]] = @ \ {r}]
  /\ \/ IF Expected(r) THEN Report({r}) ELSE UNCHANGED answered
     \/ pending_inbound[r] = "waiting" /\ r \in signalled /\ UNCHANGED answered
  /\ UNCHANGED <<service, peers, active_inbound, pending_outbound, pending_dials, inbound,
                 next_request_id, commands, handle, target, canceled, stale>>

(* Mutant: the request is taken for one of the peer's current connection. *)
Awaited_by_peer(r) == target[r] \in peers

(* The peer has a context and the request is one of its inbound requests.  *)
Awaited(r) == r \in active_inbound[target[r]]

(* on_inbound_request: the request has been read, or reading it failed.    *)
InboundRequest(r) ==
  /\ r \in pending_inbound_requests
  /\ pending_inbound_requests' = pending_inbound_requests \ {r}
  /\ active_inbound' = [active_inbound EXCEPT ![target[r]] = @ \ {r}]
  /\ \/ /\ Awaited(r)
        /\ pending_outbound_responses' = pending_outbound_responses \cup {r}
        /\ received' = received \cup {r}
     \/ UNCHANGED <<pending_outbound_responses, received>>
  /\ UNCHANGED <<service, peers, active, outbound, pending_dials, next_request_id,
                 commands, pending_responses, target, history>>

(* The response has been sent, or the substream closed. *)
ResponseSent(r) ==
  /\ r \in pending_outbound_responses \ (received \cup pending_responses)
  /\ pending_outbound_responses' = pending_outbound_responses \ {r}
  /\ UNCHANGED <<service, contexts, outbound, pending_dials, pending_inbound_requests,
                 next_request_id, commands, handle, target, history>>

-----------------------------------------------------------------------------
(* handle_user_command *)

Receive(kind) ==
  /\ commands # <<>> /\ Head(commands).kind = kind
  /\ commands' = Tail(commands)

(* on_send_request; the request that waits for a dial of the peer is the   *)
(* last one.                                                               *)
SendRequest ==
  LET r == Head(commands).request
      p == target[r] IN
  /\ Receive("send")
  /\ \/ /\ p \in peers
        /\ \E s \in SubstreamId : OpenSubstream(p, r, s)
        /\ active' = [active EXCEPT ![p] = @ \cup {r}]
        /\ UNCHANGED <<pending_dials, answered>>
     \/ /\ p \notin peers /\ r \in MayDial
        /\ pending_dials' = [pending_dials EXCEPT ![p] = r]
        /\ UNCHANGED <<requested, pending_outbound, active, answered>>
     \/ /\ OpenFails
        /\ Report({r})
        /\ UNCHANGED <<active, pending_dials>>
  /\ UNCHANGED <<sessions, answers, peers, active_inbound, pending_inbound,
                 pending_outbound_cancels, signalled, inbound, next_request_id, handle,
                 target, canceled, stale>>

(* on_cancel_request: only a request whose substream is open has a handle. *)
CancelRequest ==
  LET r == Head(commands).request IN
  /\ Receive("cancel")
  /\ pending_outbound_cancels' = pending_outbound_cancels \ {r}
  /\ signalled' = IF r \in pending_outbound_cancels THEN signalled \cup {r} ELSE signalled
  /\ canceled' = IF answered[r] = 0 THEN canceled \cup {r} ELSE canceled
  /\ UNCHANGED <<service, contexts, pending_outbound, pending_inbound, pending_dials, inbound,
                 next_request_id, handle, target, answered, stale>>

-----------------------------------------------------------------------------
(* The handle *)

send_request(p) ==
  LET r == next_request_id IN
  /\ r < MaxRequests
  /\ Len(commands) < CommandCapacity
  /\ next_request_id' = r + 1
  /\ target' = [target EXCEPT ![r] = p]
  /\ commands' = Append(commands, [kind |-> "send", request |-> r])
  /\ UNCHANGED <<service, contexts, outbound, pending_dials, inbound, handle, history>>

cancel_request(r) ==
  /\ r < next_request_id
  /\ Len(commands) < CommandCapacity
  /\ commands' = Append(commands, [kind |-> "cancel", request |-> r])
  /\ UNCHANGED <<service, contexts, outbound, pending_dials, inbound, next_request_id,
                 handle, target, history>>

(* The user polls the handle for a RequestReceived event. *)
poll_next(r) ==
  /\ r \in received
  /\ received' = received \ {r}
  /\ pending_responses' = pending_responses \cup {r}
  /\ UNCHANGED <<service, contexts, outbound, pending_dials, inbound, next_request_id,
                 commands, target, history>>

(* send_response, send_response_with_feedback, reject_request *)
send_response(r) ==
  /\ r \in pending_responses
  /\ pending_responses' = pending_responses \ {r}
  /\ UNCHANGED <<service, contexts, outbound, pending_dials, inbound, next_request_id,
                 commands, received, target, history>>

-----------------------------------------------------------------------------
ServiceEvent ==
  \/ \E p \in Peer : \/ ConnectionEstablished(p)
                     \/ ConnectionClosed(p)
                     \/ DialFailure(p)
                     \/ InboundSubstream(p)
  \/ \E s \in SubstreamId : SubstreamOpened(s) \/ SubstreamOpenFailure(s)

FutureStep(r) ==
  \/ RequestSent(r)
  \/ SubstreamEvent(r)
  \/ InboundRequest(r)
  \/ ResponseSent(r)

UserCommand == SendRequest \/ CancelRequest

UserStep ==
  \/ \E p \in Peer : send_request(p)
  \/ \E r \in RequestId : cancel_request(r) \/ poll_next(r) \/ send_response(r)

(* RequestResponseProtocol::run and its user *)
Next ==
  \/ ServiceEvent
  \/ \E r \in RequestId : FutureStep(r)
  \/ UserCommand
  \/ UserStep

Spec == Init /\ [][Next]_vars

(* The service answers as SubstreamService!FairSpec says, the manager ends *)
(* each dial with an event, the futures of requests have timeouts, and the *)
(* commands are handled when nothing else is ready.                        *)
Fairness ==
  /\ WF_vars(UserCommand)
  /\ \A s \in SubstreamId : WF_vars(SubstreamOpened(s) \/ SubstreamOpenFailure(s))
  /\ \A p \in Peer : WF_vars(pending_dials[p] # None
                               /\ (ConnectionEstablished(p) \/ DialFailure(p)))
  /\ \A r \in RequestId : WF_vars(SubstreamEvent(r))

FairSpec == Spec /\ Fairness

-----------------------------------------------------------------------------
(* Properties *)

(* The user hears of a request at most once, also if its connection closes *)
(* while its response is on the way and the peer has connected again when  *)
(* the future ends.                                                        *)
AnsweredOnce == \A r \in RequestId : answered[r] <= 1

(* A substream that opens or fails belongs to a request that is active: the *)
(* debug_asserts of on_outbound_substream and on_substream_open_failure     *)
(* hold, whatever closes and connects in between.                          *)
SubstreamKnown ==
  \A s \in SubstreamId :
    Service!Unanswered(s) =>
      /\ pending_outbound[s] # None
      /\ requested[s] \in peers
      /\ pending_outbound[s] \in active[requested[s]]

(* A request that is active has a substream on the way or a future, which  *)
(* will end it, and an inbound one is being read; and the protocol knows   *)
(* only peers that are connected.                                          *)
ActiveIsPending ==
  \A p \in Peer :
    /\ p \in peers => sessions[p] = 1
    /\ \A r \in active[p] : \/ pending_inbound[r] # "none"
                            \/ \E s \in SubstreamId : pending_outbound[s] = r
    /\ active_inbound[p] \subseteq pending_inbound_requests

(* At most max_concurrent_inbound_requests are read or wait for the user,  *)
(* those of peers that are gone included.                                  *)
InboundBounded ==
  max_concurrent_inbound_requests # None =>
    Cardinality(pending_inbound_requests \cup pending_outbound_responses)
      <= max_concurrent_inbound_requests

(* A request that was being read when its connection closed never reaches  *)
(* the user, even if the peer is connected again when it has been read.    *)
NoStaleInbound == [][received' \cap stale \subseteq received]_vars

(* DialOptions::Dial: "If the dial succeeds, the request is sent to the    *)
(* peer once the peer has been registered to the protocol.  If the dial    *)
(* fails, RequestResponseError::Rejected is returned."  A request that was *)
(* given to the protocol and not canceled is answered in the end.          *)
RequestAnswered ==
  \A r \in RequestId :
    (\E i \in DOMAIN commands : commands[i] = [kind |-> "send", request |-> r])
      ~> (answered[r] > 0 \/ r \in canceled)

-----------------------------------------------------------------------------
(* The invariant of the proofs *)

(* Where a request can be before it is answered. *)
Queued(r) == \E i \in 1 .. Len(commands) : commands[i] = [kind |-> "send", request |-> r]

Dialing(r) == \E p \in Peer : pending_dials[p] = r

Active(r) == \E p \in Peer : r \in active[p]

(* No request is sent twice. *)
QueuedOnce ==
  \A i, j \in 1 .. Len(commands) :
    commands[i] = commands[j] /\ commands[i].kind = "send" => i = j

(* The place of a request agrees with the peer it was sent to. *)
TargetAgrees ==
  /\ \A p \in Peer : \A r \in active[p] : target[r] = p
  /\ \A p \in Peer : pending_dials[p] # None => target[pending_dials[p]] = p
  /\ \A r \in RequestId : Queued(r) => target[r] \in Peer
  /\ \A r \in RequestId : pending_inbound[r] # "none" => target[r] \in Peer
  /\ \A r \in RequestId : r >= next_request_id => target[r] = None

OnePlace ==
  \A r \in RequestId :
    /\ Queued(r) => ~Dialing(r) /\ ~Active(r)
    /\ Dialing(r) => ~Active(r)
    /\ Queued(r) \/ Dialing(r) => pending_inbound[r] = "none"

NotYetAnswered ==
  \A r \in RequestId :
    /\ Queued(r) \/ Dialing(r) \/ Active(r) \/ r >= next_request_id => answered[r] = 0
    /\ answered[r] <= 1

(* A substream that is being opened is for one active request. *)
SubstreamInv ==
  \A s \in SubstreamId :
    /\ Service!Unanswered(s) => pending_outbound[s] # None
    /\ pending_outbound[s] # None =>
         /\ requested[s] = target[pending_outbound[s]]
         /\ Active(pending_outbound[s])
         /\ pending_inbound[pending_outbound[s]] = "none"
         /\ \A u \in SubstreamId : pending_outbound[u] = pending_outbound[s] => u = s

PeersConnected == \A p \in peers : sessions[p] = 1

InboundInv ==
  /\ \A p \in Peer : \A r \in active_inbound[p] : target[r] = p /\ r \notin stale
  /\ \A r \in stale \cup pending_inbound_requests : target[r] \in Peer

(* A request is in at most one place: its command is queued, it waits for a *)
(* dial, or it is active, and there it is unanswered.  A substream on the  *)
(* way belongs to one active request of the peer it was requested of.      *)
IInv ==
  /\ TypeOK
  /\ QueuedOnce
  /\ TargetAgrees
  /\ OnePlace
  /\ NotYetAnswered
  /\ SubstreamInv
  /\ PeersConnected
  /\ InboundInv
=============================================================================
