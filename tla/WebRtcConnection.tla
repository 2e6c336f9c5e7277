-------------------------- MODULE WebRtcConnection --------------------------
(***************************************************************************)
(* A WebRTC connection (transport/webrtc/connection.rs): its data channels *)
(* from the request or the event that creates them to the event that they  *)
(* are closed, with the negotiation of their protocols, the deadlines of   *)
(* the opening phase and the messages that wait for room in the channel.   *)
(*                                                                         *)
(* str0m is external: a channel is created, may open, and is closed once   *)
(* this node or the other has asked for it.  What a substream does with    *)
(* its messages is the subject of WebRtcSubstream.                         *)
(***************************************************************************)
EXTENDS Naturals, FiniteSets

CONSTANTS
  ChannelId,
  MaxPendingPerChannel      \* MAX_PENDING_PER_CHANNEL

VARIABLES
  rtc,                 \* external: channel -> "none", "created", "open", "closing" or "closed"
  pending_outbound,    \* channels whose opening waits for the remote
  channels,            \* channel -> its ChannelState, or "none"
  handles,             \* channels with a SubstreamHandle
  handles_pending,     \* SubstreamHandleSet.pending
  pending_messages,    \* channel -> messages that wait
  opening_deadlines,   \* channels with a deadline
  opening_timed_out,
  recv_buffers,        \* channels with a buffer of bytes
  closed,              \* on_connection_closed has run
  \* history
  requested,           \* channels this node has opened
  answers              \* channel -> times the protocol was answered

vars == <<rtc, pending_outbound, channels, handles, handles_pending, pending_messages,
          opening_deadlines, opening_timed_out, recv_buffers, closed, requested, answers>>

Init ==
  /\ rtc = [c \in ChannelId |-> "none"]
  /\ pending_outbound = {}
  /\ channels = [c \in ChannelId |-> "none"]
  /\ handles = {} /\ handles_pending = {}
  /\ pending_messages = [c \in ChannelId |-> 0]
  /\ opening_deadlines = {} /\ opening_timed_out = {} /\ recv_buffers = {}
  /\ closed = FALSE
  /\ requested = {}
  /\ answers = [c \in ChannelId |-> 0]

Opening == {"inbound_opening", "outbound_opening"}

(* report_substream_open or report_substream_open_failure of an outbound   *)
(* substream.                                                              *)
Answers(cs) == answers' = [c \in ChannelId |-> IF c \in cs THEN answers[c] + 1 ELSE answers[c]]

CloseDataChannel(c) == rtc' = [rtc EXCEPT ![c] = IF @ = "closed" THEN @ ELSE "closing"]

-----------------------------------------------------------------------------
(* write: the outcome is one of these, and they change the messages and    *)
(* the flag of the handle set.                                             *)

Outcomes(c) ==
  {o \in {"sent", "queued", "error"} :
     /\ o = "sent" => pending_messages[c] = 0
     /\ o = "queued" => pending_messages[c] < MaxPendingPerChannel}

Queues(c, outcome) ==
  /\ pending_messages' = [pending_messages EXCEPT ![c] = IF outcome = "queued" THEN @ + 1 ELSE @]
  /\ handles_pending' = IF outcome = "queued" /\ pending_messages[c] = 0
                          THEN handles_pending \cup {c}
                          ELSE handles_pending

(* SubstreamHandleSet::remove *)
RemoveHandle(c) ==
  /\ handles' = handles \ {c}
  /\ handles_pending' = handles_pending \ {c}

-----------------------------------------------------------------------------
(* Commands and events *)

(* on_open_substream *)
OpenSubstream(c) ==
  /\ ~closed
  /\ rtc[c] = "none"
  /\ rtc' = [rtc EXCEPT ![c] = "created"]
  /\ opening_deadlines' = opening_deadlines \cup {c}
  /\ pending_outbound' = pending_outbound \cup {c}
  /\ requested' = requested \cup {c}
  /\ UNCHANGED <<channels, handles, handles_pending, pending_messages, opening_timed_out,
                 recv_buffers, closed, answers>>

(* on_channel_opened of a channel the remote has opened. *)
InboundOpened(c) ==
  /\ ~closed
  /\ rtc[c] = "none"
  /\ rtc' = [rtc EXCEPT ![c] = "open"]
  /\ opening_deadlines' = opening_deadlines \cup {c}
  /\ channels' = [channels EXCEPT ![c] = "inbound_opening"]
  /\ UNCHANGED <<pending_outbound, handles, handles_pending, pending_messages,
                 opening_timed_out, recv_buffers, closed, requested, answers>>

(* ... of a channel of this node: it proposes its protocol.  The event may *)
(* come although the deadline has passed and the channel is closing.       *)
OutboundOpened(c) ==
  /\ ~closed
  /\ rtc[c] \in {"created", "closing"} /\ c \in pending_outbound
  /\ pending_outbound' = pending_outbound \ {c}
  /\ \E o \in Outcomes(c) :
       /\ Queues(c, o)
       /\ IF o = "error"
            THEN /\ Answers({c})
                 /\ CloseDataChannel(c)
                 /\ channels' = [channels EXCEPT ![c] = "closing"]
            ELSE /\ rtc' = [rtc EXCEPT ![c] = IF @ = "created" THEN "open" ELSE @]
                 /\ channels' = [channels EXCEPT ![c] = "outbound_opening"]
                 /\ UNCHANGED answers
  /\ UNCHANGED <<handles, opening_deadlines, opening_timed_out, recv_buffers, closed, requested>>

(* The remote closes a channel. *)
RemoteCloses(c) ==
  /\ ~closed
  /\ rtc[c] \in {"created", "open"}
  /\ CloseDataChannel(c)
  /\ UNCHANGED <<pending_outbound, channels, handles, handles_pending, pending_messages,
                 opening_deadlines, opening_timed_out, recv_buffers, closed, requested, answers>>

(* on_channel_closed answers for a channel that has not opened. *)
ClosedUnanswered(c) ==
  IF c \in pending_outbound \/ channels[c] = "outbound_opening" THEN {c} ELSE {}

(* Mutant: a frame that has not arrived whole is kept. *)
ForgetMessages_partial(c) ==
  /\ pending_messages' = [pending_messages EXCEPT ![c] = 0]
  /\ UNCHANGED recv_buffers

ForgetMessages(c) ==
  /\ pending_messages' = [pending_messages EXCEPT ![c] = 0]
  /\ recv_buffers' = recv_buffers \ {c}

(* on_channel_closed *)
ChannelClosed(c) ==
  /\ ~closed
  /\ rtc[c] = "closing"
  /\ rtc' = [rtc EXCEPT ![c] = "closed"]
  /\ Answers(ClosedUnanswered(c))
  /\ opening_timed_out' = opening_timed_out \ {c}
  /\ pending_outbound' = pending_outbound \ {c}
  /\ channels' = [channels EXCEPT ![c] = "none"]
  /\ ForgetMessages(c)
  /\ RemoveHandle(c)
  /\ UNCHANGED <<opening_deadlines, closed, requested>>

-----------------------------------------------------------------------------
(* on_inbound_data *)

Data(c) ==
  /\ ~closed
  /\ rtc[c] \in {"open", "closing"}
  /\ channels[c] \notin {"none", "closing"}

(* Bytes that do not make a frame yet, a frame that the handle of an open  *)
(* channel takes, or one of a negotiation that is not ready.               *)
PartialData(c) ==
  /\ Data(c)
  /\ recv_buffers' = recv_buffers \cup {c}
  /\ UNCHANGED <<rtc, pending_outbound, channels, handles, handles_pending, pending_messages,
                 opening_deadlines, opening_timed_out, closed, requested, answers>>

(* Data for a channel that is closing. *)
ClosingData(c) ==
  /\ ~closed
  /\ channels[c] = "closing"
  /\ recv_buffers' = recv_buffers \ {c}
  /\ UNCHANGED <<rtc, pending_outbound, channels, handles, handles_pending, pending_messages,
                 opening_deadlines, opening_timed_out, closed, requested, answers>>

Fails(c) ==
  /\ Answers(IF channels[c] = "outbound_opening" THEN {c} ELSE {})
  /\ CloseDataChannel(c)
  /\ channels' = [channels EXCEPT ![c] = "closing"]
  /\ recv_buffers' = recv_buffers \ {c}
  /\ UNCHANGED <<pending_outbound, opening_deadlines, opening_timed_out, closed, requested>>

(* The bytes are malformed, or the handle of an open channel refuses. *)
FailedData(c) ==
  /\ Data(c)
  /\ RemoveHandle(c)
  /\ UNCHANGED pending_messages
  /\ Fails(c)

(* A negotiation fails, perhaps after its answer was written. *)
FailedNegotiation(c) ==
  /\ Data(c) /\ channels[c] \in Opening
  /\ \E o \in Outcomes(c) : Queues(c, o)
  /\ UNCHANGED handles
  /\ Fails(c)

(* on_inbound_opening_channel_data answers; the protocol is accepted, or   *)
(* the remote may propose another.                                         *)
InboundNegotiates(c) ==
  /\ Data(c) /\ channels[c] = "inbound_opening"
  /\ \E o \in Outcomes(c) \ {"error"}, accepted \in BOOLEAN :
       /\ Queues(c, o)
       /\ channels' = [channels EXCEPT ![c] = IF accepted THEN "open" ELSE @]
       /\ handles' = IF accepted THEN handles \cup {c} ELSE handles
  /\ recv_buffers' = recv_buffers \cup {c}
  /\ UNCHANGED <<rtc, pending_outbound, opening_deadlines, opening_timed_out, closed, requested,
                 answers>>

(* on_outbound_opening_channel_data: the protocol is confirmed, ... *)
OutboundConfirmed(c) ==
  /\ Data(c) /\ channels[c] = "outbound_opening"
  /\ Answers({c})
  /\ channels' = [channels EXCEPT ![c] = "open"]
  /\ handles' = handles \cup {c}
  /\ recv_buffers' = recv_buffers \cup {c}
  /\ UNCHANGED <<rtc, pending_outbound, handles_pending, pending_messages, opening_deadlines,
                 opening_timed_out, closed, requested>>

(* ... or the next fallback is proposed. *)
OutboundNegotiates(c) ==
  /\ Data(c) /\ channels[c] = "outbound_opening"
  /\ \E o \in Outcomes(c) \ {"error"} : Queues(c, o)
  /\ recv_buffers' = recv_buffers \cup {c}
  /\ UNCHANGED <<rtc, pending_outbound, channels, handles, opening_deadlines, opening_timed_out,
                 closed, requested, answers>>

-----------------------------------------------------------------------------
(* Outbound messages *)

(* on_handle_message: a message of a handle, or its end.  A backpressured  *)
(* handle yields no payload, but it may yield a flag.                      *)
HandleMessage(c) ==
  /\ ~closed
  /\ c \in handles
  /\ \E o \in Outcomes(c) :
       IF o = "error"
         THEN /\ CloseDataChannel(c)
              /\ channels' = [channels EXCEPT ![c] = "closing"]
              /\ RemoveHandle(c)
              /\ UNCHANGED pending_messages
         ELSE Queues(c, o) /\ UNCHANGED <<rtc, channels, handles>>
  /\ UNCHANGED <<pending_outbound, opening_deadlines, opening_timed_out, recv_buffers, closed,
                 requested, answers>>

(* ChannelBufferedAmountLow: write_pending of every channel with messages. *)
(* n[c] is how many stay; a channel that cannot be written to is closed.   *)
BufferedAmountLow ==
  LET waiting == {c \in ChannelId : pending_messages[c] > 0} IN
  /\ ~closed
  /\ waiting # {}
  /\ \E failing \in SUBSET waiting, n \in [waiting -> 0 .. MaxPendingPerChannel] :
       /\ \A c \in waiting : n[c] <= IF c \in failing THEN 0 ELSE pending_messages[c]
       /\ pending_messages' = [c \in ChannelId |-> IF c \in waiting THEN n[c] ELSE 0]
       /\ handles_pending' = handles_pending \ {c \in waiting : n[c] = 0}
       /\ Answers({c \in failing : channels[c] = "outbound_opening"})
       /\ rtc' = [c \in ChannelId |-> IF c \in failing THEN "closing" ELSE rtc[c]]
       /\ channels' = [c \in ChannelId |-> IF c \in failing THEN "closing" ELSE channels[c]]
       /\ handles' = handles \ failing
  /\ UNCHANGED <<pending_outbound, opening_deadlines, opening_timed_out, recv_buffers, closed,
                 requested>>

-----------------------------------------------------------------------------
(* Deadlines and the end *)

(* Mutant: a deadline only concerns channels that negotiate. *)
StillOpening_negotiating(c) == channels[c] \in Opening

StillOpening(c) == c \in pending_outbound \/ channels[c] \in Opening

(* What is answered at once; the rest is when the channel has closed. *)
TimedOut(c) == IF channels[c] = "outbound_opening" THEN {c} ELSE {}

(* drain_opening_deadlines of one channel *)
DeadlineExpires(c) ==
  /\ ~closed
  /\ c \in opening_deadlines
  /\ opening_deadlines' = opening_deadlines \ {c}
  /\ \/ /\ StillOpening(c)
        /\ opening_timed_out' = opening_timed_out \cup {c}
        /\ CloseDataChannel(c)
        /\ Answers(TimedOut(c))
        /\ channels' = [channels EXCEPT ![c] = "closing"]
     \/ /\ ~StillOpening(c)
        /\ UNCHANGED <<opening_timed_out, rtc, answers, channels>>
  /\ UNCHANGED <<pending_outbound, handles, handles_pending, pending_messages, recv_buffers,
                 closed, requested>>

AllOpening == pending_outbound \cup {c \in ChannelId : channels[c] = "outbound_opening"}

(* on_connection_closed: what is still opening has failed. *)
ConnectionClosed ==
  /\ ~closed
  /\ closed' = TRUE
  /\ \/ Answers(AllOpening) /\ UNCHANGED <<rtc, requested>>
     \/ \E c \in ChannelId : \* an OpenSubstream that finds the connection dead
          /\ rtc[c] = "none"
          /\ rtc' = [rtc EXCEPT ![c] = "closed"]
          /\ requested' = requested \cup {c}
          /\ Answers(AllOpening \cup {c})
  /\ pending_outbound' = {}
  /\ channels' = [c \in ChannelId |-> "none"]
  /\ UNCHANGED <<handles, handles_pending, pending_messages, opening_deadlines,
                 opening_timed_out, recv_buffers>>

Next ==
  \/ \E c \in ChannelId :
       \/ OpenSubstream(c) \/ InboundOpened(c) \/ OutboundOpened(c) \/ RemoteCloses(c)
       \/ ChannelClosed(c)
       \/ PartialData(c) \/ ClosingData(c) \/ FailedData(c)
       \/ FailedNegotiation(c)
       \/ InboundNegotiates(c) \/ OutboundConfirmed(c) \/ OutboundNegotiates(c)
       \/ HandleMessage(c)
       \/ DeadlineExpires(c)
  \/ BufferedAmountLow
  \/ ConnectionClosed

(* Deadlines expire, and str0m reports a channel that it has closed. *)
Fairness ==
  \A c \in ChannelId : WF_vars(DeadlineExpires(c)) /\ WF_vars(ChannelClosed(c))

Spec == Init /\ [][Next]_vars /\ Fairness

-----------------------------------------------------------------------------
(* Properties *)

(* Every variable has its type, and no channel has more messages waiting   *)
(* than MAX_PENDING_PER_CHANNEL.                                           *)
TypeOK ==
  /\ rtc \in [ChannelId -> {"none", "created", "open", "closing", "closed"}]
  /\ channels \in [ChannelId -> Opening \cup {"none", "open", "closing"}]
  /\ pending_messages \in [ChannelId -> 0 .. MaxPendingPerChannel]
  /\ \A cs \in {pending_outbound, handles, handles_pending, opening_deadlines,
                opening_timed_out, recv_buffers, requested} : cs \subseteq ChannelId
  /\ closed \in BOOLEAN
  /\ answers \in [ChannelId -> Nat]

(* A handle is backpressured exactly while messages of its channel wait:   *)
(* otherwise it would stay silent for good, or overtake them.  So is the   *)
(* one that a channel will get.                                            *)
PendingMatches ==
  \A c \in ChannelId : c \in handles \/ channels[c] \in Opening =>
    (c \in handles_pending <=> pending_messages[c] > 0)

(* A handle belongs to an open channel, so that insert never panics on a   *)
(* channel that already has one.                                           *)
HandleIsOpen == ~closed => \A c \in handles : channels[c] = "open"

(* Nothing of a channel is there before it is created, and nothing is left *)
(* when it has been closed.                                                *)
Forgotten ==
  \A c \in ChannelId : ~closed /\ rtc[c] \in {"none", "closed"} =>
    /\ channels[c] = "none"
    /\ c \notin pending_outbound \cup handles \cup handles_pending \cup opening_timed_out
                  \cup recv_buffers
    /\ pending_messages[c] = 0

(* A channel that waits for the remote has no handle and no messages; it   *)
(* may be closing.                                                         *)
WaitsOnly ==
  \A c \in pending_outbound :
    /\ channels[c] \in {"none", "closing"}
    /\ c \notin handles \cup handles_pending
    /\ pending_messages[c] = 0

(* A substream that the protocol has asked for is still being opened, or   *)
(* the protocol has been answered once: no path forgets it and no two      *)
(* answer it.                                                              *)
Accounted ==
  /\ AllOpening \subseteq requested
  /\ \A c \in requested : rtc[c] # "none"
  /\ \A c \in ChannelId : answers[c] = IF c \in requested \ AllOpening THEN 1 ELSE 0

(* The maps of the connection agree about each channel. *)
Inv == TypeOK /\ PendingMatches /\ HandleIsOpen /\ Forgotten /\ WaitsOnly /\ Accounted

(* Every substream asked for is answered, once, however a timeout, a late  *)
(* ChannelOpen, a write error, the closing of the channel and the end of   *)
(* the connection meet: the deadline of the opening phase sees to it,      *)
(* whatever the remote does.                                               *)
Answered == \A c \in ChannelId : []<>(c \in requested => answers[c] = 1)
=============================================================================
