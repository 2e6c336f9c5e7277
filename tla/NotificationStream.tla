------------------------- MODULE NotificationStream -------------------------
(***************************************************************************)
(* The data of the notification streams of one peer: the sink of the       *)
(* handle (protocol/notification/handle.rs), the Connection task of a      *)
(* stream (connection.rs), and the channels between them.  How a stream is *)
(* opened is the subject of Notification; here streams 1, 2, ... follow    *)
(* one another.  A notification is the number of its kind and stream.      *)
(***************************************************************************)
EXTENDS Naturals, Sequences, FiniteSets, FiniteSetsExt

CONSTANTS
  MaxStreams,         \* bound: streams ever opened
  MaxNotifications,   \* bound: notifications ever sent or read
  sync_channel_size, async_channel_size,
  NotifCapacity,      \* capacity of notif_tx (DEFAULT_CHANNEL_SIZE)
  CommandCapacity     \* capacity of command_tx

Stream == 1 .. MaxStreams
Kind == {"sync", "async"}

VARIABLES
  stage,       \* stream -> its Connection task
  channel,     \* stream -> kind -> notifications not yet taken by the task
  next_notification,  \* stream -> notification taken, outbound substream not ready
  wire,        \* stream -> notifications given to the outbound substream
  sent,        \* stream -> kind -> notifications the user was told are sent
  permits,     \* streams whose task holds a permit of notif_tx
  read,        \* stream -> notifications read from the inbound substream
  notifs,      \* channel notif_rx
  events,      \* channel event_rx
  commands,    \* channel command_rx
  sink,        \* stream whose sink the handle has, or 0
  clogged,     \* the peer is in NotificationHandle.clogged
  delivered    \* notifications returned to the user, with the stream then open

outgoing == <<channel, next_notification, wire, sent>>
incoming == <<permits, read, notifs>>
handle == <<sink, clogged, delivered>>
vars == <<stage, outgoing, incoming, events, commands, handle>>

Init ==
  /\ stage = [s \in Stream |-> "none"]
  /\ channel = [s \in Stream |-> [k \in Kind |-> <<>>]]
  /\ next_notification = [s \in Stream |-> <<>>]
  /\ wire = [s \in Stream |-> <<>>]
  /\ sent = [s \in Stream |-> [k \in Kind |-> 0]]
  /\ permits = {}
  /\ read = [s \in Stream |-> 0]
  /\ notifs = <<>>
  /\ events = <<>>
  /\ commands = <<>>
  /\ sink = 0 /\ clogged = FALSE /\ delivered = <<>>

(* The bound on notifications is not reached. *)
MoreNotifications ==
  MapThenSumSet(LAMBDA s : sent[s]["sync"] + sent[s]["async"] + read[s], Stream)
    < MaxNotifications

Size(kind) == IF kind = "sync" THEN sync_channel_size ELSE async_channel_size

-----------------------------------------------------------------------------
(* The protocol *)

(* The stream is open: its task starts once the user's event is queued.    *)
(* The task of the stream before it has ended.                             *)
StreamOpened(s) ==
  /\ stage[s] = "none"
  /\ \A r \in 1 .. s - 1 : stage[r] = "gone"
  /\ stage' = [stage EXCEPT ![s] = "open"]
  /\ events' = Append(events, [kind |-> "opened", stream |-> s])
  /\ UNCHANGED <<outgoing, incoming, commands, handle>>

(* A command; force_close closes the connection, and with it the stream.   *)
ForceClose ==
  /\ commands # <<>>
  /\ commands' = Tail(commands)
  /\ stage' = [s \in Stream |-> IF Head(commands) = "force" /\ stage[s] = "open"
                                  THEN "closing" ELSE stage[s]]
  /\ UNCHANGED <<outgoing, incoming, events, handle>>

-----------------------------------------------------------------------------
(* The Connection task *)

(* poll_ready of the outbound substream is Pending. *)
Waits(s, n) == next_notification' = [next_notification EXCEPT ![s] = <<n>>]

(* poll_next, a round of its loop for the outbound substream. *)
SendNotification(s) ==
  /\ stage[s] = "open"
  /\ \E n \in Kind \X (1 .. MaxNotifications) :
       /\ \/ /\ next_notification[s] = <<n>>
             /\ UNCHANGED channel
          \/ /\ next_notification[s] = <<>>
             /\ channel[s][n[1]] # <<>> /\ Head(channel[s][n[1]]) = n[2]
             /\ channel' = [channel EXCEPT ![s][n[1]] = Tail(@)]
       /\ \/ /\ wire' = [wire EXCEPT ![s] = Append(@, n)]
             /\ next_notification' = [next_notification EXCEPT ![s] = <<>>]
          \/ Waits(s, n) /\ UNCHANGED wire
  /\ UNCHANGED <<stage, sent, incoming, events, commands, handle>>

(* PollSender::poll_reserve: the permit stays with the task until used. *)
poll_reserve(s) == s \in permits \/ Len(notifs) + Cardinality(permits) < NotifCapacity

(* ... and its end: a permit is reserved and the inbound substream polled. *)
ReceiveNotification(s) ==
  /\ stage[s] = "open"
  /\ poll_reserve(s)
  /\ \/ /\ s \notin permits
        /\ permits' = permits \cup {s}
        /\ UNCHANGED <<read, notifs>>
     \/ /\ MoreNotifications
        /\ permits' = permits \ {s}
        /\ read' = [read EXCEPT ![s] = @ + 1]
        /\ notifs' = Append(notifs, [stream |-> s, n |-> read[s] + 1])
  /\ UNCHANGED <<stage, outgoing, events, commands, handle>>

(* A substream has closed or failed, or the protocol has ended the stream. *)
CloseConnection(s) ==
  /\ stage[s] = "open"
  /\ stage' = [stage EXCEPT ![s] = "closing"]
  /\ UNCHANGED <<outgoing, incoming, events, commands, handle>>

(* close_connection has closed the substreams: the user is told, and what  *)
(* the task held is dropped.                                               *)
ReportClosed(s) ==
  /\ stage[s] = "closing"
  /\ stage' = [stage EXCEPT ![s] = "gone"]
  /\ events' = Append(events, [kind |-> "closed", stream |-> s])
  /\ permits' = permits \ {s}
  /\ UNCHANGED <<outgoing, read, notifs, commands, handle>>

-----------------------------------------------------------------------------
(* The handle *)

(* send_sync_notification and send_async_notification with room in the     *)
(* channel; the task may be closing.                                       *)
SendAccepted(kind) ==
  LET n == sent[sink][kind] + 1 IN
  /\ sink # 0
  /\ stage[sink] # "gone"
  /\ MoreNotifications
  /\ Len(channel[sink][kind]) < Size(kind)
  /\ channel' = [channel EXCEPT ![sink][kind] = Append(@, n)]
  /\ sent' = [sent EXCEPT ![sink][kind] = n]
  /\ UNCHANGED <<stage, next_notification, wire, incoming, events, commands, handle>>

(* The first time, ForceClose is sent if there is room for it. *)
OnClogged ==
  commands' = IF ~clogged /\ Len(commands) < CommandCapacity
                THEN Append(commands, "force") ELSE commands

(* send_sync_notification with a full channel *)
SendClogged ==
  /\ sink # 0
  /\ stage[sink] # "gone"
  /\ Len(channel[sink]["sync"]) = sync_channel_size
  /\ clogged' = TRUE
  /\ OnClogged
  /\ UNCHANGED <<stage, outgoing, incoming, events, sink, delivered>>

(* Any other command of the user *)
OtherCommand ==
  /\ Len(commands) < CommandCapacity
  /\ commands' = Append(commands, "other")
  /\ UNCHANGED <<stage, outgoing, incoming, events, handle>>

(* poll_next: events first *)
PollEvent ==
  LET e == Head(events) IN
  /\ events # <<>>
  /\ events' = Tail(events)
  /\ \/ e.kind = "opened" /\ sink' = e.stream /\ UNCHANGED clogged
     \/ e.kind = "closed" /\ sink' = 0 /\ clogged' = FALSE
  /\ UNCHANGED <<stage, outgoing, incoming, commands, delivered>>

(* Mutant: a notification may overtake the event that opens its stream. *)
EventsFirst_never == TRUE

EventsFirst == events = <<>>

(* ... then notifications, dropped if the peer has no stream. *)
PollNotification ==
  /\ EventsFirst
  /\ notifs # <<>>
  /\ notifs' = Tail(notifs)
  /\ delivered' = IF sink # 0 THEN Append(delivered, <<sink, Head(notifs)>>) ELSE delivered
  /\ UNCHANGED <<stage, outgoing, permits, read, events, commands, sink, clogged>>

Next ==
  \/ \E s \in Stream : \/ StreamOpened(s)
                       \/ SendNotification(s)
                       \/ ReceiveNotification(s)
                       \/ CloseConnection(s)
                       \/ ReportClosed(s)
  \/ \E k \in Kind : SendAccepted(k)
  \/ ForceClose
  \/ SendClogged
  \/ OtherCommand
  \/ PollEvent
  \/ PollNotification

(* The protocol and the tasks run, and the user polls the handle. *)
Fairness ==
  /\ WF_vars(ForceClose)
  /\ WF_vars(PollEvent)
  /\ \A s \in Stream : WF_vars(ReportClosed(s))

Spec == Init /\ [][Next]_vars /\ Fairness

-----------------------------------------------------------------------------
(* Properties *)

(* Every variable has its type, and the tasks' permits and the queued      *)
(* notifications fit in notif_tx: send_item never panics.                  *)
TypeOK ==
  /\ \A s \in Stream : stage[s] \in {"none", "open", "closing", "gone"}
  /\ \A s \in Stream, k \in Kind : Len(channel[s][k]) <= Size(k)
  /\ Len(notifs) + Cardinality(permits) <= NotifCapacity
  /\ Len(commands) <= CommandCapacity
  /\ sink \in {0} \cup Stream

Of(kind, q) == SelectSeq(q, LAMBDA n : n[1] = kind)

(* Nothing the user was told is sent is lost, duplicated or reordered in a *)
(* stream: what is on the wire, held by the task and in the channel is,    *)
(* kind by kind, what was sent (Connection::poll_next, next_notification). *)
NothingLost ==
  \A s \in Stream, k \in Kind :
    Of(k, wire[s] \o next_notification[s])
      \o [i \in 1 .. Len(channel[s][k]) |-> <<k, channel[s][k][i]>>]
        = [i \in 1 .. sent[s][k] |-> <<k, i>>]

(* What the user receives from a stream while it is open is a prefix of    *)
(* what the task has read (NotificationHandle::poll_next).                 *)
DeliveredInOrder ==
  \A s \in Stream :
    LET own == SelectSeq(delivered, LAMBDA d : d[1] = s /\ d[2].stream = s) IN
    \A i \in 1 .. Len(own) : own[i][2].n = i

(* Both ways the notifications of a stream arrive once and in order, with  *)
(* full channels, a clogged sink and the stream that follows.              *)
Inv == TypeOK /\ NothingLost /\ DeliveredInOrder
=============================================================================
