-------------------------- MODULE MultistreamSelect --------------------------
(***************************************************************************)
(* multistream-select: DialerSelectFuture, ListenerSelectFuture and the    *)
(* Negotiated stream that they make, on the two ends of one stream, with   *)
(* the data that the application sends when it has been negotiated.        *)
(*                                                                         *)
(* A message is "header", "na", a protocol or "data"; Framing shows that   *)
(* messages arrive as they were sent.  "data" is not a message of the      *)
(* negotiation: reading it there is an error.                              *)
(***************************************************************************)
EXTENDS Naturals, Sequences

CONSTANTS
  Versions,     \* of "V1" and "V1Lazy"
  Proposals,    \* the lists of protocols a dialer may have
  Supports,     \* the sets of protocols a listener may have
  Capacity,     \* messages the stream holds in each direction
  MaxData       \* messages of data each side sends

VARIABLES
  version, supported,
  \* dialer
  protocols,         \* that it has not proposed
  dialer,            \* its State, and of the Negotiated stream
  proposed,          \* the protocol of the state
  header_received,
  dialer_buffer,     \* write_buffer
  dialer_data,       \* data written and read
  \* listener
  listener, message, accepted, last_sent_na, listener_buffer, listener_data,
  \* external: the stream
  up, down,
  wanted             \* history: the list the dialer started with

dvars == <<protocols, dialer, proposed, header_received, dialer_buffer, dialer_data>>
lvars == <<listener, message, accepted, last_sent_na, listener_buffer, listener_data>>
vars == <<version, supported, dvars, lvars, up, down, wanted>>

NoProtocol == "none"
NoData == [written |-> 0, read |-> 0]

Init ==
  /\ version \in Versions
  /\ supported \in Supports
  /\ protocols \in Proposals
  /\ wanted = protocols
  /\ dialer = "SendHeader" /\ proposed = NoProtocol /\ header_received = FALSE
  /\ dialer_buffer = <<>> /\ dialer_data = NoData
  /\ listener = "RecvHeader" /\ message = NoProtocol /\ accepted = NoProtocol /\ last_sent_na = FALSE
  /\ listener_buffer = <<>> /\ listener_data = NoData
  /\ up = <<>> /\ down = <<>>

Ended == {"Failed", "ProtocolError"}    \* the stream is dropped

Fixed == UNCHANGED <<version, supported, wanted>>

(* Mutant: more is read than the message. *)
Unread_ahead(stream) == <<>>

(* LengthDelimited reads the bytes of one frame and no more. *)
Unread(stream) == Tail(stream)

-----------------------------------------------------------------------------
(* DialerSelectFuture::poll *)

(* protocols.next(), or the negotiation has failed. *)
NextProtocol ==
  \/ /\ protocols = <<>>
     /\ dialer' = "Failed"
     /\ UNCHANGED <<protocols, proposed>>
  \/ /\ protocols # <<>>
     /\ proposed' = Head(protocols) /\ protocols' = Tail(protocols)
     /\ dialer' = "SendProtocol"

DialerSendHeader ==
  /\ dialer = "SendHeader"
  /\ dialer_buffer' = Append(dialer_buffer, "header")
  /\ NextProtocol
  /\ UNCHANGED <<header_received, dialer_data, lvars, up, down>> /\ Fixed

(* V1Lazy settles on its only protocol, or on its last. *)
Settles == version = "V1Lazy" /\ protocols = <<>>

(* The header that Negotiated expects has not come, whatever the dialer    *)
(* has received.                                                           *)
DialerSendProtocol ==
  /\ dialer = "SendProtocol"
  /\ dialer_buffer' = Append(dialer_buffer, proposed)
  /\ dialer' = IF Settles THEN "Expecting" ELSE "FlushProtocol"
  /\ header_received' = IF Settles THEN FALSE ELSE header_received
  /\ UNCHANGED <<protocols, proposed, dialer_data, lvars, up, down>> /\ Fixed

(* poll_write_buffer, of a state that flushes or of a Negotiated stream    *)
(* that is written, read, flushed or closed.                               *)
DialerWriteBuffer ==
  /\ dialer \in {"FlushProtocol", "Expecting"}
  /\ dialer_buffer # <<>>
  /\ \/ /\ listener \notin Ended /\ Len(up) < Capacity
        /\ up' = Append(up, Head(dialer_buffer))
        /\ dialer_buffer' = Tail(dialer_buffer)
        /\ UNCHANGED dialer
     \/ /\ listener \in Ended      \* the write may fail
        /\ dialer' = "ProtocolError"
        /\ UNCHANGED <<up, dialer_buffer>>
  /\ UNCHANGED <<protocols, proposed, header_received, dialer_data, lvars, down>> /\ Fixed

DialerFlushed ==
  /\ dialer = "FlushProtocol" /\ dialer_buffer = <<>>
  /\ dialer' = "AwaitProtocol"
  /\ UNCHANGED <<protocols, proposed, header_received, dialer_buffer, dialer_data, lvars, up, down>>
  /\ Fixed

(* AwaitProtocol receives a message. *)
DialerReceive ==
  /\ dialer = "AwaitProtocol" /\ down # <<>>
  /\ down' = Unread(down)
  /\ \/ /\ Head(down) = "header" /\ ~header_received
        /\ header_received' = TRUE
        /\ UNCHANGED <<dialer, protocols, proposed>>
     \/ /\ Head(down) = proposed
        /\ dialer' = "Completed"
        /\ UNCHANGED <<header_received, protocols, proposed>>
     \/ /\ Head(down) = "na"
        /\ NextProtocol
        /\ UNCHANGED header_received
     \/ /\ Head(down) \notin {proposed, "na"}
        /\ Head(down) = "header" => header_received
        /\ dialer' = "ProtocolError"
        /\ UNCHANGED <<header_received, protocols, proposed>>
  /\ UNCHANGED <<dialer_buffer, dialer_data, lvars, up>> /\ Fixed

(* Negotiated::poll: the messages that were still expected. *)
DialerExpect ==
  /\ dialer = "Expecting" /\ dialer_buffer = <<>> /\ down # <<>>
  /\ down' = Unread(down)
  /\ \/ /\ Head(down) = "header" /\ ~header_received
        /\ header_received' = TRUE
        /\ UNCHANGED dialer
     \/ /\ Head(down) = "header" /\ header_received
        /\ dialer' = "ProtocolError"
        /\ UNCHANGED header_received
     \/ /\ Head(down) # "header"
        /\ dialer' = IF Head(down) = proposed THEN "Completed" ELSE "Failed"
        /\ UNCHANGED header_received
  /\ UNCHANGED <<protocols, proposed, dialer_buffer, dialer_data, lvars, up>> /\ Fixed

(* The end of the stream. *)
DialerEof ==
  /\ down = <<>> /\ listener \in Ended
  /\ dialer \in {"AwaitProtocol", "Expecting", "Completed"}
  /\ dialer' = IF dialer = "Expecting" THEN "ProtocolError" ELSE "Failed"
  /\ UNCHANGED <<protocols, proposed, header_received, dialer_buffer, dialer_data, lvars, up, down>>
  /\ Fixed

(* The application writes to the Negotiated stream, after its buffer. *)
DialerWrites ==
  /\ dialer \in {"Completed", "Expecting"} /\ dialer_buffer = <<>>
  /\ dialer_data.written < MaxData
  /\ listener \notin Ended /\ Len(up) < Capacity
  /\ up' = Append(up, "data")
  /\ dialer_data' = [dialer_data EXCEPT !.written = @ + 1]
  /\ UNCHANGED <<protocols, dialer, proposed, header_received, dialer_buffer, lvars, down>> /\ Fixed

DialerReads ==
  /\ dialer = "Completed" /\ down # <<>>
  /\ down' = Tail(down)
  /\ dialer_data' = [dialer_data EXCEPT !.read = @ + 1]
  /\ UNCHANGED <<protocols, dialer, proposed, header_received, dialer_buffer, lvars, up>> /\ Fixed

-----------------------------------------------------------------------------
(* ListenerSelectFuture::poll *)

ListenerRecvHeader ==
  /\ listener = "RecvHeader" /\ up # <<>>
  /\ up' = Unread(up)
  /\ listener' = IF Head(up) = "header" THEN "SendHeader" ELSE "ProtocolError"
  /\ UNCHANGED <<dvars, message, accepted, last_sent_na, listener_buffer, listener_data, down>>
  /\ Fixed

ListenerSendHeader ==
  /\ listener = "SendHeader"
  /\ listener_buffer' = Append(listener_buffer, "header")
  /\ listener' = "Flush"
  /\ UNCHANGED <<dvars, message, accepted, last_sent_na, listener_data, up, down>> /\ Fixed

Finds(p) == p \in supported

(* RecvMessage: a proposal is confirmed or refused; after a refusal data   *)
(* that is no message is a failed negotiation and not an error.            *)
ListenerRecvMessage ==
  /\ listener = "RecvMessage" /\ up # <<>>
  /\ up' = Unread(up)
  /\ \/ /\ Head(up) \notin {"header", "na", "data"}
        /\ message' = IF Finds(Head(up)) THEN Head(up) ELSE "na"
        /\ accepted' = IF Finds(Head(up)) THEN Head(up) ELSE NoProtocol
        /\ listener' = "SendMessage"
     \/ /\ Head(up) \in {"header", "na"}
        /\ listener' = "ProtocolError"
        /\ UNCHANGED <<message, accepted>>
     \/ /\ Head(up) = "data"
        /\ listener' \in IF last_sent_na THEN Ended ELSE {"ProtocolError"}
        /\ UNCHANGED <<message, accepted>>
  /\ UNCHANGED <<dvars, last_sent_na, listener_buffer, listener_data, down>> /\ Fixed

ListenerSendMessage ==
  /\ listener = "SendMessage"
  /\ last_sent_na' = (message = "na")
  /\ listener_buffer' = Append(listener_buffer, message)
  /\ listener' = "Flush"
  /\ UNCHANGED <<dvars, message, accepted, listener_data, up, down>> /\ Fixed

ListenerWriteBuffer ==
  /\ listener = "Flush" /\ listener_buffer # <<>>
  /\ \/ /\ dialer \notin Ended /\ Len(down) < Capacity
        /\ down' = Append(down, Head(listener_buffer))
        /\ listener_buffer' = Tail(listener_buffer)
        /\ UNCHANGED listener
     \/ /\ dialer \in Ended
        /\ listener' = "ProtocolError"
        /\ UNCHANGED <<down, listener_buffer>>
  /\ UNCHANGED <<dvars, message, accepted, last_sent_na, listener_data, up>> /\ Fixed

Flushed == listener_buffer = <<>>

ListenerFlushed ==
  /\ listener = "Flush" /\ Flushed
  /\ listener' = IF accepted # NoProtocol THEN "Completed" ELSE "RecvMessage"
  /\ UNCHANGED <<dvars, message, accepted, last_sent_na, listener_buffer, listener_data, up, down>>
  /\ Fixed

ListenerEof ==
  /\ up = <<>> /\ dialer \in Ended
  /\ listener \in {"RecvHeader", "RecvMessage", "Completed"}
  /\ listener' = "Failed"
  /\ UNCHANGED <<dvars, message, accepted, last_sent_na, listener_buffer, listener_data, up, down>>
  /\ Fixed

ListenerWrites ==
  /\ listener = "Completed" /\ listener_data.written < MaxData
  /\ dialer \notin Ended /\ Len(down) < Capacity
  /\ down' = Append(down, "data")
  /\ listener_data' = [listener_data EXCEPT !.written = @ + 1]
  /\ UNCHANGED <<dvars, listener, message, accepted, last_sent_na, listener_buffer, up>> /\ Fixed

ListenerReads ==
  /\ listener = "Completed" /\ up # <<>>
  /\ up' = Tail(up)
  /\ listener_data' = [listener_data EXCEPT !.read = @ + 1]
  /\ UNCHANGED <<dvars, listener, message, accepted, last_sent_na, listener_buffer, down>> /\ Fixed

-----------------------------------------------------------------------------
DialerStep ==
  \/ DialerSendHeader \/ DialerSendProtocol \/ DialerWriteBuffer \/ DialerFlushed
  \/ DialerReceive \/ DialerExpect \/ DialerEof \/ DialerReads

ListenerStep ==
  \/ ListenerRecvHeader \/ ListenerSendHeader \/ ListenerRecvMessage \/ ListenerSendMessage
  \/ ListenerWriteBuffer \/ ListenerFlushed \/ ListenerEof \/ ListenerReads

Next == DialerStep \/ ListenerStep \/ DialerWrites \/ ListenerWrites

(* Both ends are polled. *)
Fairness == WF_vars(DialerStep) /\ WF_vars(ListenerStep)

Spec == Init /\ [][Next]_vars /\ Fairness

-----------------------------------------------------------------------------
(* Properties *)

Supported == {i \in DOMAIN wanted : wanted[i] \in supported}

Data(stream) == Len(SelectSeq(stream, LAMBDA m : m = "data"))

Settled ==
  IF Supported # {}
    THEN /\ dialer = "Completed" /\ listener = "Completed"
         /\ proposed = accepted
         /\ \E i \in Supported : wanted[i] = accepted /\ \A j \in Supported : i <= j
         /\ listener_data.read + Data(up) = dialer_data.written
         /\ dialer_data.read + Data(down) = listener_data.written
    ELSE dialer \in Ended /\ listener \in Ended

(* The negotiation ends at both ends, with a failure if no protocol is     *)
(* supported by both.  Otherwise they agree on the first one of the dialer *)
(* that the listener supports, also if the dialer settled on it and wrote  *)
(* data before the answer, and the negotiation has eaten none of the data: *)
(* what was written has been read or is in the stream.                     *)
BothEnd == <>[]Settled
=============================================================================
