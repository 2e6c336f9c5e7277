--------------------------- MODULE WebRtcSubstream ---------------------------
(***************************************************************************)
(* A WebRTC substream between two nodes that both run                      *)
(* transport/webrtc/substream.rs: the Substream of the protocol, the       *)
(* SubstreamHandle of the connection, and the data channel between the     *)
(* two connections, which is reliable and ordered.  The connection drops   *)
(* a handle that has finished or failed and closes the data channel, which *)
(* makes the other connection drop its own.                                *)
(***************************************************************************)
EXTENDS Naturals, Sequences

CONSTANTS
  MaxInflight,        \* MAX_INFLIGHT_MESSAGES
  MaxMessages         \* side -> bound: messages it writes

Side == {"a", "b"}
Other(s) == IF s = "a" THEN "b" ELSE "a"

VARIABLES
  channel_state, reader_state, writer_state,      \* the SharedStates
  dropped,            \* the protocol has dropped the Substream
  tx,                 \* Substream.tx: "open", or "taken"
  gone,               \* the SubstreamHandle has been dropped
  message_tx,         \* SubstreamHandle.message_tx is there
  message_rx,         \* SubstreamHandle.message_rx: "open", or "closed"
  inbound, outbound,  \* the two channels between Substream and SubstreamHandle
  stop_sending_sent,
  fin_ack_timeout, teardown_deadline,             \* the timer is armed
  wire,               \* side -> messages on the way to it
  \* history
  written, read,      \* messages the protocol has written and read
  eof                 \* what the end of the stream looked like: "none", "ok" or "reset"

states == <<channel_state, reader_state, writer_state>>
local == <<dropped, tx, read, eof>>
timers == <<fin_ack_timeout, teardown_deadline>>
vars == <<states, local, gone, message_tx, message_rx, inbound, outbound, stop_sending_sent,
          timers, wire, written>>

Each(v) == [s \in Side |-> v]

Init ==
  /\ channel_state = Each("open") /\ reader_state = Each("open") /\ writer_state = Each("open")
  /\ dropped = Each(FALSE) /\ tx = Each("open") /\ gone = Each(FALSE)
  /\ message_tx = Each(TRUE) /\ message_rx = Each("open")
  /\ inbound = Each(<<>>) /\ outbound = Each(<<>>)
  /\ stop_sending_sent = Each(FALSE)
  /\ fin_ack_timeout = Each(FALSE) /\ teardown_deadline = Each(FALSE)
  /\ wire = Each(<<>>)
  /\ written = Each(0) /\ read = Each(0) /\ eof = Each("none")

Set(f, s, v) == f' = [f EXCEPT ![s] = v]

Payload(n) == [payload |-> n, flag |-> "none"]
Flag(f) == [payload |-> 0, flag |-> f]

-----------------------------------------------------------------------------
(* The Substream *)

(* poll_write, of one frame; it is pending while the channel is full. *)
Write(s) ==
  /\ ~dropped[s] /\ tx[s] = "open"
  /\ message_rx[s] = "open" /\ ~gone[s]
  /\ Len(outbound[s]) < MaxInflight
  /\ written[s] < MaxMessages[s]
  /\ Set(outbound, s, Append(outbound[s], written[s] + 1))
  /\ Set(written, s, written[s] + 1)
  /\ UNCHANGED <<states, local, gone, message_tx, message_rx, inbound, stop_sending_sent, timers,
                 wire>>

(* poll_shutdown *)
Shutdown(s) ==
  /\ ~dropped[s] /\ tx[s] = "open"
  /\ Set(tx, s, "taken")
  /\ UNCHANGED <<states, dropped, read, eof, gone, message_tx, message_rx, inbound, outbound,
                 stop_sending_sent, timers, wire, written>>

(* poll_read: a message, or the end once the sender is gone. *)
Read(s) ==
  /\ ~dropped[s]
  /\ \/ /\ inbound[s] # <<>>
        /\ Set(read, s, Head(inbound[s]))
        /\ Set(inbound, s, Tail(inbound[s]))
        /\ UNCHANGED eof
     \/ /\ inbound[s] = <<>> /\ (gone[s] \/ ~message_tx[s]) /\ eof[s] = "none"
        /\ Set(eof, s, IF channel_state[s] = "reset" THEN "reset" ELSE "ok")
        /\ UNCHANGED <<read, inbound>>
  /\ UNCHANGED <<states, dropped, tx, gone, message_tx, message_rx, outbound, stop_sending_sent,
                 timers, wire, written>>

(* The protocol drops the Substream, and both channel ends with it. *)
DropSubstream(s) ==
  /\ ~dropped[s]
  /\ Set(dropped, s, TRUE)
  /\ Set(tx, s, "taken")
  /\ Set(inbound, s, <<>>)
  /\ UNCHANGED <<states, read, eof, gone, message_tx, message_rx, outbound, stop_sending_sent,
                 timers, wire, written>>

-----------------------------------------------------------------------------
(* The SubstreamHandle *)

(* Mutant: the state is not set when a handle goes. *)
Reset_never(s, w, r) == FALSE

(* Drop of a SubstreamHandle resets, unless the shutdown was graceful. *)
DropResets(s, w, r) == ~(w = "fin_ack" /\ r = "fin_ack")

(* The connection drops the handle and closes the data channel. *)
Removed(s, channel, writer, reader) ==
  /\ Set(gone, s, TRUE)
  /\ Set(channel_state, s, IF DropResets(s, writer, reader) THEN "reset" ELSE channel)
  /\ Set(writer_state, s, writer)
  /\ Set(reader_state, s, reader)
  /\ Set(message_tx, s, FALSE)
  /\ Set(message_rx, s, "closed")
  /\ Set(outbound, s, <<>>)

Closes(s) == Append(wire[Other(s)], Flag("close"))

(* The next message for the handle. *)
Receives(s) == wire[s] # <<>> /\ wire' = [wire EXCEPT ![s] = Tail(@)]

(* A message for a handle that is gone, or is being reset, is discarded.   *)
Discard(s) ==
  /\ Receives(s)
  /\ gone[s] \/ (channel_state[s] # "open" /\ Head(wire[s]).flag # "close")
  /\ UNCHANGED <<states, local, gone, message_tx, message_rx, inbound, outbound,
                 stop_sending_sent, timers, written>>

(* ChannelClose: on_channel_closed drops the handle. *)
OnChannelClosed(s) ==
  /\ Receives(s)
  /\ ~gone[s] /\ Head(wire[s]).flag = "close"
  /\ Removed(s, channel_state[s], writer_state[s], reader_state[s])
  /\ UNCHANGED <<local, inbound, stop_sending_sent, timers, written>>

Handles(s, flag) ==
  /\ ~gone[s] /\ channel_state[s] = "open"
  /\ wire[s] # <<>> /\ Head(wire[s]).flag = flag

(* on_message of a payload: a full inbound channel initiates a reset. *)
OnPayload(s) ==
  /\ Handles(s, "none")
  /\ Receives(s)
  /\ IF ~message_tx[s] \/ dropped[s] THEN UNCHANGED <<inbound, channel_state>>
     ELSE IF Len(inbound[s]) < MaxInflight
       THEN Set(inbound, s, Append(inbound[s], Head(wire[s]).payload)) /\ UNCHANGED channel_state
     ELSE Set(channel_state, s, "init_reset") /\ UNCHANGED inbound
  /\ UNCHANGED <<reader_state, writer_state, local, gone, message_tx, message_rx, outbound,
                 stop_sending_sent, timers, written>>

(* ... of FIN; a duplicate is ignored. *)
OnFin(s) ==
  /\ Handles(s, "fin")
  /\ Receives(s)
  /\ IF reader_state[s] = "open"
       THEN Set(reader_state, s, "fin") /\ Set(message_tx, s, FALSE)
       ELSE UNCHANGED <<reader_state, message_tx>>
  /\ UNCHANGED <<channel_state, writer_state, local, gone, message_rx, inbound, outbound,
                 stop_sending_sent, timers, written>>

(* ... of FIN_ACK; one that is not expected tears the substream down. *)
OnFinAck(s) ==
  /\ Handles(s, "fin_ack")
  /\ \/ /\ writer_state[s] = "fin"
        /\ Receives(s)
        /\ Set(writer_state, s, "fin_ack")
        /\ UNCHANGED <<channel_state, reader_state, gone, message_tx, message_rx, outbound>>
     \/ /\ writer_state[s] # "fin"
        /\ wire' = [wire EXCEPT ![s] = Tail(@), ![Other(s)] = Closes(s)]
        /\ Removed(s, "reset", writer_state[s], reader_state[s])
  /\ UNCHANGED <<local, inbound, stop_sending_sent, timers, written>>

(* ... of STOP_SENDING *)
OnStopSending(s) ==
  /\ Handles(s, "stop_sending")
  /\ Receives(s)
  /\ IF writer_state[s] \in {"fin", "fin_ack"} THEN UNCHANGED <<writer_state, message_rx>>
     ELSE Set(writer_state, s, "stop_sending") /\ Set(message_rx, s, "closed")
  /\ UNCHANGED <<channel_state, reader_state, local, gone, message_tx, inbound, outbound,
                 stop_sending_sent, timers, written>>

(* ... of RESET_STREAM; the connection drops the handle on the error. *)
OnReset(s) ==
  /\ Handles(s, "reset")
  /\ wire' = [wire EXCEPT ![s] = Tail(@), ![Other(s)] = Closes(s)]
  /\ Removed(s, "reset", writer_state[s], reader_state[s])
  /\ UNCHANGED <<local, inbound, stop_sending_sent, timers, written>>

-----------------------------------------------------------------------------
(* poll_progress, and on_handle_message of the connection *)

Emits(s, message) == wire' = [wire EXCEPT ![Other(s)] = Append(@, message)]

(* is_closed of the sender: the protocol side is gone. *)
ReaderGone(s) == message_tx[s] /\ dropped[s]

(* The sender's end of the outbound channel is gone, or it was closed.     *)
WriterGone(s) == tx[s] = "taken" \/ message_rx[s] = "closed"

StopDue(s) == ~stop_sending_sent[s] /\ reader_state[s] = "open" /\ ReaderGone(s)

PollOpen(s) == ~gone[s] /\ channel_state[s] = "open"

(* A local reset was initiated: RESET_STREAM, and the next poll ends.      *)
PollInitReset(s) ==
  /\ ~gone[s] /\ channel_state[s] = "init_reset"
  /\ Set(channel_state, s, "reset")
  /\ Emits(s, Flag("reset"))
  /\ UNCHANGED <<reader_state, writer_state, local, gone, message_tx, message_rx, inbound,
                 outbound, stop_sending_sent, timers, written>>

PollStopSending(s) ==
  /\ PollOpen(s) /\ StopDue(s)
  /\ Set(stop_sending_sent, s, TRUE)
  /\ Emits(s, Flag("stop_sending"))
  /\ UNCHANGED <<states, local, gone, message_tx, message_rx, inbound, outbound, timers, written>>

(* A connection whose data channel is backpressured does not pull payload, *)
(* here by not taking PollPayload; a closed channel is then flushed at     *)
(* most until the teardown deadline.                                       *)
FlushStalls(s) == writer_state[s] = "open" /\ WriterGone(s) /\ outbound[s] # <<>>

(* Mutant: a stalled flush has no deadline. *)
DeadlineDue_reader(s) == ReaderGone(s)

(* poll_teardown_deadline arms the deadline when it is first called. *)
DeadlineDue(s) == ReaderGone(s) \/ FlushStalls(s)

ArmDeadline(s) ==
  /\ PollOpen(s) /\ ~StopDue(s)
  /\ DeadlineDue(s) /\ ~teardown_deadline[s]
  /\ Set(teardown_deadline, s, TRUE)
  /\ UNCHANGED <<states, local, gone, message_tx, message_rx, inbound, outbound,
                 stop_sending_sent, fin_ack_timeout, wire, written>>

(* What poll_progress does before it turns to the halves. *)
Preempted(s) == StopDue(s) \/ (ReaderGone(s) /\ ~teardown_deadline[s])

PollFinAck(s) ==
  /\ PollOpen(s) /\ ~Preempted(s)
  /\ reader_state[s] = "fin"
  /\ Set(reader_state, s, "fin_ack")
  /\ Emits(s, Flag("fin_ack"))
  /\ UNCHANGED <<channel_state, writer_state, local, gone, message_tx, message_rx, inbound,
                 outbound, stop_sending_sent, timers, written>>

PollWriter(s) == PollOpen(s) /\ ~Preempted(s) /\ reader_state[s] # "fin"

PollPayload(s) ==
  /\ PollWriter(s)
  /\ writer_state[s] = "open" /\ outbound[s] # <<>>
  /\ Emits(s, Payload(Head(outbound[s])))
  /\ Set(outbound, s, Tail(outbound[s]))
  /\ UNCHANGED <<states, local, gone, message_tx, message_rx, inbound, stop_sending_sent, timers,
                 written>>

(* All payload of a closed channel has been sent. *)
Flushed(s) == outbound[s] = <<>>

(* poll_half_close of a writer that has not sent FIN. *)
PollFin(s) ==
  /\ PollWriter(s)
  /\ \/ writer_state[s] = "open" /\ WriterGone(s) /\ Flushed(s)
     \/ writer_state[s] = "stop_sending"
  /\ Set(writer_state, s, "fin")
  /\ Set(fin_ack_timeout, s, TRUE)
  /\ Emits(s, Flag("fin"))
  /\ UNCHANGED <<channel_state, reader_state, local, gone, message_tx, message_rx, inbound,
                 outbound, stop_sending_sent, teardown_deadline, written>>

(* The stream ends: after a reset, or when both halves are closed. *)
PollEnd(s) ==
  /\ ~gone[s]
  /\ \/ channel_state[s] = "reset"
     \/ /\ PollWriter(s) /\ writer_state[s] = "fin_ack" /\ reader_state[s] = "fin_ack"
  /\ Removed(s, channel_state[s], writer_state[s], reader_state[s])
  /\ wire' = [wire EXCEPT ![Other(s)] = Closes(s)]
  /\ UNCHANGED <<local, inbound, stop_sending_sent, timers, written>>

-----------------------------------------------------------------------------
(* A poll finds that a timer has expired: the deadline of the teardown, or *)
(* the one of FIN_ACK.                                                     *)
PollTimeout(s) ==
  /\ PollOpen(s) /\ ~StopDue(s)
  /\ \/ teardown_deadline[s] /\ ReaderGone(s)
     \/ /\ ~Preempted(s) /\ reader_state[s] # "fin"
        /\ \/ teardown_deadline[s] /\ FlushStalls(s)
           \/ fin_ack_timeout[s] /\ writer_state[s] = "fin"
  /\ Set(channel_state, s, "reset")
  /\ Emits(s, Flag("reset"))
  /\ UNCHANGED <<reader_state, writer_state, local, gone, message_tx, message_rx, inbound,
                 outbound, stop_sending_sent, timers, written>>

(* on_outbound_data fails: the messages that wait for the data channel are *)
(* too many, or it is closing.                                             *)
WriteFailure(s) ==
  /\ PollOpen(s)
  /\ Removed(s, channel_state[s], writer_state[s], reader_state[s])
  /\ wire' = [wire EXCEPT ![Other(s)] = Closes(s)]
  /\ UNCHANGED <<local, inbound, stop_sending_sent, timers, written>>

OnMessage(s) ==
  \/ Discard(s) \/ OnChannelClosed(s) \/ OnPayload(s) \/ OnFin(s) \/ OnFinAck(s)
  \/ OnStopSending(s) \/ OnReset(s)

Next ==
  \E s \in Side :
    \/ Write(s) \/ Shutdown(s) \/ Read(s) \/ DropSubstream(s)
    \/ OnMessage(s)
    \/ PollInitReset(s) \/ PollStopSending(s) \/ ArmDeadline(s) \/ PollFinAck(s)
    \/ PollPayload(s) \/ PollFin(s) \/ PollEnd(s) \/ PollTimeout(s) \/ WriteFailure(s)

(* The connection task polls its handles, and timers expire.  Nothing is   *)
(* assumed of the data channel, of the other node or of the protocol.      *)
Fairness ==
  \A s \in Side :
    WF_vars(PollInitReset(s) \/ PollStopSending(s) \/ ArmDeadline(s) \/ PollFinAck(s)
              \/ PollFin(s) \/ PollEnd(s) \/ PollTimeout(s))

Spec == Init /\ [][Next]_vars /\ Fairness

-----------------------------------------------------------------------------
(* Properties *)

Message ==
  [payload : Nat, flag : {"none", "fin", "fin_ack", "stop_sending", "reset", "close"}]

StatesTyped ==
  /\ channel_state \in [Side -> {"open", "init_reset", "reset"}]
  /\ reader_state \in [Side -> {"open", "fin", "fin_ack"}]
  /\ writer_state \in [Side -> {"open", "stop_sending", "fin", "fin_ack"}]
  /\ tx \in [Side -> {"open", "taken"}] /\ message_rx \in [Side -> {"open", "closed"}]
  /\ dropped \in [Side -> BOOLEAN] /\ gone \in [Side -> BOOLEAN]
  /\ message_tx \in [Side -> BOOLEAN] /\ stop_sending_sent \in [Side -> BOOLEAN]
  /\ fin_ack_timeout \in [Side -> BOOLEAN] /\ teardown_deadline \in [Side -> BOOLEAN]
  /\ eof \in [Side -> {"none", "ok", "reset"}]

DataTyped ==
  /\ inbound \in [Side -> Seq(Nat)] /\ outbound \in [Side -> Seq(Nat)]
  /\ wire \in [Side -> Seq(Message)]
  /\ written \in [Side -> Nat] /\ read \in [Side -> Nat]

(* Every variable has its type. *)
TypeOK == StatesTyped /\ DataTyped

(* A read that ends without an error has been preceded by everything the   *)
(* other side has written, although either may have shut down, dropped its *)
(* substream, been reset or timed out at any point.                        *)
CleanEnd == \A s \in Side : eof[s] = "ok" => read[s] = written[Other(s)]

(* A writer whose FIN was acknowledged has got all its payload through to  *)
(* the other side, unless that side has dropped its substream.             *)
AckedIsReceived ==
  \A s \in Side : LET o == Other(s) IN
    writer_state[s] = "fin_ack" /\ ~dropped[o] /\ channel_state[o] # "reset" =>
      read[o] + Len(inbound[o]) = written[s]

(* Between two nodes that follow this code a FIN_ACK is never unexpected:  *)
(* on_message never tears a substream down for it.                         *)
FinAckExpected == \A s \in Side : Handles(s, "fin_ack") => writer_state[s] = "fin"

-----------------------------------------------------------------------------
(* What the steps preserve, for the direction from s to the other side o   *)

Has(w, flag) == \E i \in 1 .. Len(w) : w[i].flag = flag

(* FIN is sent once and after the payload, and is answered once. *)
Ordered(w) ==
  \A i, j \in 1 .. Len(w) : i < j =>
    /\ w[i].flag = "fin" => w[j].flag \notin {"none", "fin"}
    /\ w[i].flag = "fin_ack" => w[j].flag # "fin_ack"

(* The states of writer and reader follow FIN and FIN_ACK, and only a node *)
(* whose protocol has dropped the substream stops the other.               *)
FlagsMatch(s) ==
  LET o == Other(s) IN
  /\ Ordered(wire[s])
  /\ Has(wire[o], "fin") => writer_state[s] = "fin" /\ reader_state[o] = "open"
  /\ Has(wire[s], "fin_ack") => writer_state[s] = "fin" /\ reader_state[o] = "fin_ack"
  /\ reader_state[o] = "fin" => writer_state[s] = "fin"
  /\ reader_state[o] = "fin_ack" => writer_state[s] \in {"fin", "fin_ack"}
  /\ writer_state[s] = "fin_ack" => reader_state[o] = "fin_ack"
  /\ writer_state[s] = "stop_sending" \/ Has(wire[s], "stop_sending") => dropped[o]

(* A protocol does not write after its half was closed, and reads the end  *)
(* of the stream only after FIN or a reset.                                *)
HalvesClosed(s) ==
  /\ writer_state[s] # "open" \/ gone[s] => WriterGone(s)
  /\ reader_state[s] # "open" => ~message_tx[s]
  /\ ~message_tx[s] \/ gone[s] => reader_state[s] # "open" \/ channel_state[s] = "reset"

(* The payload of w is what was written after from, up to last. *)
InOrder(w, from, last) ==
  /\ \A n \in from + 1 .. last : \E i \in 1 .. Len(w) : w[i] = Payload(n)
  /\ \A i \in 1 .. Len(w) : w[i].flag = "none" =>
       /\ from < w[i].payload /\ w[i].payload <= last
       /\ \A j \in 1 .. Len(w) : i < j /\ w[j].flag = "none" => w[i].payload < w[j].payload

(* Numbers that follow n, in order. *)
Follow(q, n) == \A i \in 1 .. Len(q) : q[i] = n + i

Arrived(o) == read[o] + Len(inbound[o])

(* last is the last payload that has left the outbound channel of s. *)
Sent(s, last) ==
  LET o == Other(s) IN
  /\ InOrder(wire[o], Arrived(o), last)
  /\ writer_state[s] = "open" /\ ~gone[s] =>
       last + Len(outbound[s]) = written[s] /\ Follow(outbound[s], last)
  /\ Has(wire[o], "fin") => last = written[s]

(* o takes payload. *)
Takes(o) == ~dropped[o] /\ ~gone[o] /\ channel_state[o] = "open" /\ reader_state[o] = "open"

(* No payload is lost or reordered on its way to a node that takes it, and *)
(* a node that has received FIN has all of it, unless it was reset or the  *)
(* protocol has dropped the substream.                                     *)
NothingMissing(s) ==
  LET o == Other(s) IN
  /\ Follow(inbound[o], read[o])
  /\ Takes(o) => \E last \in Arrived(o) .. written[s] : Sent(s, last)
  /\ reader_state[o] # "open" /\ ~dropped[o] /\ channel_state[o] # "reset" =>
       Arrived(o) = written[s]
  /\ eof[o] = "ok" => reader_state[o] # "open" /\ inbound[o] = <<>> /\ read[o] = written[s]

(* No end takes a stream for complete that is not, nor a FIN_ACK of the    *)
(* other for an error, however their ends cross.                           *)
WebRtcSubstreamInv ==
  /\ CleanEnd /\ AckedIsReceived /\ FinAckExpected
  /\ TypeOK
  /\ \A s \in Side : FlagsMatch(s) /\ HalvesClosed(s) /\ NothingMissing(s)

(* A substream that the protocol has dropped is torn down, whatever the    *)
(* other node does and however the channel is backpressured.               *)
DroppedIsTornDown == \A s \in Side : []<>(dropped[s] => gone[s])
=============================================================================
