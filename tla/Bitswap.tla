------------------------------ MODULE Bitswap ------------------------------
(***************************************************************************)
(* Bitswap (protocol/libp2p/bitswap/mod.rs) on top of the promises of      *)
(* SubstreamService: one task that keeps one outbound substream per peer,  *)
(* queues what cannot be sent yet, and splits responses into messages.     *)
(*                                                                         *)
(* A command is the number of its order; the blocks of a response matter   *)
(* only when it is sent, and are chosen then.                              *)
(***************************************************************************)
EXTENDS Naturals, FiniteSets, SequencesExt

CONSTANTS
  Peer, None,
  BlockLists,        \* the sizes of the blocks of a response
  MAX_BATCH_SIZE, MAX_MESSAGE_SIZE,
  Overhead,          \* what encoding adds to a block
  MaxCommands,       \* bound: commands ever given
  MaxSubstreams      \* bound: outbound substreams ever opened

SubstreamId == 0 .. MaxSubstreams - 1

VARIABLES
  sessions, requested, answers,   \* the service, as SubstreamService describes it
  pending_outbound,               \* peer -> actions that wait for a substream
  pending_substreams,             \* substream id -> peer, or None
  pending_dials, inbound, outbound,
  commands,                       \* commands given so far
  \* history
  sent,                           \* peer -> commands sent completely, in order
  written,                        \* the response sent last: its blocks, and its messages
  events                          \* the events for the user of the last step

service == <<sessions, requested, answers>>
pending == <<pending_outbound, pending_substreams, pending_dials>>
vars == <<service, pending, inbound, outbound, commands, sent, written, events>>

Service == INSTANCE SubstreamService

NothingWritten == [blocks |-> <<>>, messages |-> <<>>]

Init ==
  /\ Service!Init
  /\ pending_outbound = [p \in Peer |-> <<>>]
  /\ pending_substreams = [s \in SubstreamId |-> None]
  /\ pending_dials = {} /\ inbound = {} /\ outbound = {}
  /\ commands = 0
  /\ sent = [p \in Peer |-> <<>>]
  /\ written = NothingWritten
  /\ events = <<>>

-----------------------------------------------------------------------------
(* Messages of a response *)

Total(blocks) == FoldLeft(LAMBDA a, b : a + b, 0, blocks)

(* How many of the blocks extract_next_batch drains; the first one fits.   *)
Batch(blocks) ==
  LET fits == {n \in 1 .. Len(blocks) : Total(SubSeq(blocks, 1, n)) <= MAX_BATCH_SIZE} IN
  CHOOSE n \in fits : \A m \in fits : m <= n

EncodedLen(blocks) == Total(blocks) + Len(blocks) * Overhead

(* The loop of send_response over extract_next_batch: an oversized block   *)
(* at the front is dropped, and a message that is too large is not sent.   *)
BlockMessages(blocks) ==
  LET messages[k \in 1 .. Len(blocks) + 1] ==
        IF k > Len(blocks) THEN <<>>
        ELSE IF blocks[k] > MAX_BATCH_SIZE THEN messages[k + 1]
        ELSE LET n == Batch(SubSeq(blocks, k, Len(blocks)))
                 batch == SubSeq(blocks, k, k + n - 1) IN
             (IF EncodedLen(batch) <= MAX_MESSAGE_SIZE THEN <<batch>> ELSE <<>>)
               \o messages[k + n]
  IN messages[1]

(* send_request and send_response on a substream: either may fail or run   *)
(* into WRITE_TIMEOUT at any of its messages.                              *)
Sends(action, w) ==
  IF action.kind = "request" THEN w = written
  ELSE \E blocks \in BlockLists : w = [blocks |-> blocks, messages |-> BlockMessages(blocks)]

-----------------------------------------------------------------------------
(* Substreams are opened *)

NextSubstream == Cardinality({s \in SubstreamId : requested[s] # None})

(* service.open_substream *)
OpenSubstream(p) ==
  /\ NextSubstream < MaxSubstreams
  /\ Service!OpenSubstream(p, NextSubstream)
  /\ pending_substreams' = [pending_substreams EXCEPT ![NextSubstream] = p]

(* open_substream_or_dial.  The substream may be refused though the peer   *)
(* is connected, and the dial may be refused; a refused dial because the   *)
(* peer is already connected tries to open the substream again.            *)
open_substream_or_dial(p, queue) ==
  \/ /\ OpenSubstream(p)
     /\ pending_outbound' = queue
     /\ UNCHANGED pending_dials
  \/ /\ pending_dials' = pending_dials \cup {p}
     /\ pending_outbound' = queue
     /\ UNCHANGED <<service, pending_substreams>>
  \/ /\ pending_outbound' = [queue EXCEPT ![p] = <<>>]
     /\ UNCHANGED <<service, pending_substreams, pending_dials>>

(* The substream is dropped after a failed send. *)
DropOutbound(p) == outbound' = outbound \ {p}

Queued(queue, action) == Append(queue, action)

(* on_bitswap_request and on_bitswap_response *)
Command(p, kind) ==
  LET action == [kind |-> kind, id |-> commands + 1]
      queue == [pending_outbound EXCEPT ![p] = Queued(@, action)] IN
  /\ commands < MaxCommands
  /\ commands' = commands + 1
  /\ events' = <<>>
  /\ \/ /\ p \in outbound
        /\ Sends(action, written')
        /\ sent' = [sent EXCEPT ![p] = Append(@, action.id)]
        /\ UNCHANGED <<service, pending, outbound>>
     \/ /\ DropOutbound(p)
        /\ UNCHANGED <<written, sent>>
        /\ IF pending_outbound[p] = <<>>
             THEN open_substream_or_dial(p, queue)
             ELSE pending_outbound' = queue
                  /\ UNCHANGED <<service, pending_substreams, pending_dials>>
  /\ UNCHANGED inbound
-----------------------------------------------------------------------------
(* Events of the service *)

ConnectionEstablished(p) ==
  /\ sessions[p] = 0
  /\ sessions' = [sessions EXCEPT ![p] = 1]
  /\ UNCHANGED answers
  /\ pending_dials' = pending_dials \ {p}
  /\ events' = <<>>
  /\ \/ /\ p \in pending_dials
        /\ NextSubstream < MaxSubstreams
        /\ requested' = [requested EXCEPT ![NextSubstream] = p]
        /\ pending_substreams' = [pending_substreams EXCEPT ![NextSubstream] = p]
        /\ UNCHANGED pending_outbound
     \/ /\ p \in pending_dials
        /\ pending_outbound' = [pending_outbound EXCEPT ![p] = <<>>]
        /\ UNCHANGED <<requested, pending_substreams>>
     \/ /\ p \notin pending_dials
        /\ UNCHANGED <<requested, pending_outbound, pending_substreams>>
  /\ UNCHANGED <<inbound, outbound, commands, sent, written>>

ConnectionClosed(p) ==
  /\ Service!ConnectionClosed(p)
  /\ outbound' = outbound \ {p}
  /\ pending_outbound' = [pending_outbound EXCEPT ![p] = <<>>]
  /\ pending_dials' = pending_dials \ {p}
  /\ pending_substreams' =
       [s \in SubstreamId |-> IF pending_substreams[s] = p THEN None ELSE pending_substreams[s]]
  /\ inbound' = inbound \ {p}
  /\ events' = <<>>
  /\ UNCHANGED <<commands, sent, written>>

(* The failure of a dial, which another protocol may have started. *)
DialFailure(p) ==
  /\ p \in pending_dials
  /\ pending_dials' = pending_dials \ {p}
  /\ pending_outbound' = [pending_outbound EXCEPT ![p] = <<>>]
  /\ events' = <<>>
  /\ UNCHANGED <<service, pending_substreams, inbound, outbound, commands, sent, written>>

(* on_outbound_substream: the first n actions are sent; if that is not all *)
(* of them, the substream and the rest are dropped.                        *)
OutboundSubstream(s) ==
  LET p == requested[s]
      queue == pending_outbound[p] IN
  /\ Service!Answer(s)
  /\ pending_substreams' = [pending_substreams EXCEPT ![s] = None]
  /\ pending_outbound' = [pending_outbound EXCEPT ![p] = <<>>]
  /\ \E n \in 0 .. Len(queue) :
       /\ sent' = [sent EXCEPT ![p] = @ \o [i \in 1 .. n |-> queue[i].id]]
       /\ outbound' = IF n = Len(queue) /\ queue # <<>> THEN outbound \cup {p} ELSE outbound
       /\ LET responses == {i \in 1 .. n : queue[i].kind = "response"} IN
          IF responses = {} THEN UNCHANGED written
          ELSE Sends(queue[CHOOSE i \in responses : \A j \in responses : j <= i], written')
  /\ events' = <<>>
  /\ UNCHANGED <<pending_dials, inbound, commands>>

(* Mutant: the actions of the peer are not dropped. *)
SubstreamOpenFailure_kept(s) ==
  /\ Service!Answer(s)
  /\ pending_substreams' = [pending_substreams EXCEPT ![s] = None]
  /\ events' = <<>>
  /\ UNCHANGED <<pending_outbound, pending_dials, inbound, outbound, commands, sent, written>>

SubstreamOpenFailure(s) ==
  /\ Service!Answer(s)
  /\ pending_substreams' = [pending_substreams EXCEPT ![s] = None]
  /\ pending_outbound' = IF pending_substreams[s] = None THEN pending_outbound
                         ELSE [pending_outbound EXCEPT ![pending_substreams[s]] = <<>>]
  /\ events' = <<>>
  /\ UNCHANGED <<pending_dials, inbound, outbound, commands, sent, written>>

-----------------------------------------------------------------------------
(* Inbound *)

(* A new substream replaces the one of the same peer. *)
InboundSubstream(p) ==
  /\ sessions[p] = 1
  /\ inbound' = inbound \cup {p}
  /\ events' = <<>>
  /\ UNCHANGED <<service, pending, outbound, commands, sent, written>>

(* on_message_received: the entries of the wantlist and the blocks and     *)
(* presences that can be parsed become a Request and a Response, in this   *)
(* order; a part that is left empty is not reported.                       *)
MessageReceived(p, wants, has) ==
  /\ p \in inbound
  /\ events' = (IF wants THEN <<"Request">> ELSE <<>>) \o (IF has THEN <<"Response">> ELSE <<>>)
  /\ UNCHANGED <<service, pending, inbound, outbound, commands, sent, written>>

(* The message cannot be decoded, or the substream fails or ends. *)
InboundClosed(p) ==
  /\ p \in inbound
  /\ inbound' = inbound \ {p}
  /\ events' = <<>>
  /\ UNCHANGED <<service, pending, outbound, commands, sent, written>>

Next ==
  \/ \E p \in Peer :
       \/ \E kind \in {"request", "response"} : Command(p, kind)
       \/ ConnectionEstablished(p)
       \/ ConnectionClosed(p)
       \/ DialFailure(p)
       \/ InboundSubstream(p)
       \/ \E wants, has \in BOOLEAN : MessageReceived(p, wants, has)
       \/ InboundClosed(p)
  \/ \E s \in SubstreamId :
       \/ OutboundSubstream(s)
       \/ SubstreamOpenFailure(s)

Spec == Init /\ [][Next]_vars

-----------------------------------------------------------------------------

(* What waits for a peer waits for an event that is still to come, a dial  *)
(* or exactly one substream; otherwise no later command would open one     *)
(* (no_substream_pending in on_bitswap_request).                           *)
QueueIsAwaited ==
  /\ \A p \in Peer :
       pending_outbound[p] # <<>> <=>
         p \in pending_dials \/ \E s \in SubstreamId : pending_substreams[s] = p
  /\ \A s \in SubstreamId : pending_substreams[s] # None =>
       requested[s] = pending_substreams[s] /\ Service!Unanswered(s)

(* The commands for a peer are sent at most once and in their order, also  *)
(* when some went over the open substream and others through the queue.    *)
SentInOrder ==
  \A p \in Peer : \A i, j \in 1 .. Len(sent[p]) : i < j => sent[p][i] < sent[p][j]

(* Nothing is sent on a substream of a connection that is gone: an         *)
(* outbound substream is of a connected peer, and its queue is empty.      *)
OutboundLive == \A p \in outbound : sessions[p] = 1 /\ pending_outbound[p] = <<>>

(* A response that was sent has carried every block that fits a batch, in  *)
(* order, once, in messages that the codec accepts (send_response,         *)
(* extract_next_batch).                                                    *)
BlocksComplete ==
  /\ FlattenSeq(written.messages) =
       SelectSeq(written.blocks, LAMBDA b : b <= MAX_BATCH_SIZE)
  /\ \A i \in 1 .. Len(written.messages) :
       EncodedLen(written.messages[i]) <= MAX_MESSAGE_SIZE

(* Nothing that the user has sent is forgotten, overtaken or cut. *)
Inv == QueueIsAwaited /\ SentInOrder /\ OutboundLive /\ BlocksComplete
=============================================================================
