------------------------------- MODULE Framing -------------------------------
(***************************************************************************)
(* How messages become bytes and messages again: Substream as a Sink and a *)
(* Stream with its two codecs (substream/mod.rs), LengthDelimited of       *)
(* multistream-select (multistream_select/length_delimited.rs) and the     *)
(* frames of a WebRTC data channel (transport/webrtc/util.rs).  The        *)
(* transport takes and gives the bytes in pieces of any size.              *)
(*                                                                         *)
(* A byte is a number below 2 * Base, and the bytes from Base on have the  *)
(* continuation bit; in the code Base is 128.                              *)
(***************************************************************************)
EXTENDS Naturals, Sequences, SequencesExt

CONSTANTS
  Base,
  MaxLenBytes,            \* the length of usize_buffer, or MAX_LEN_BYTES
  Kinds,                  \* of "identity", "varint", "delimited" and "webrtc"
  PayloadSize,            \* ProtocolCodec::Identity
  MaxSize,                \* ProtocolCodec::UnsignedVarint of the sender ...
  ReaderMaxSize,          \* ... and of the reader
  BackpressureBoundary,   \* BACKPRESSURE_BOUNDARY, or MAX_FRAME_SIZE
  ReadBufferSize,         \* the initial size of Substream.read_buffer
  MaxPayload,
  MaxFrames

VARIABLES
  kind,
  pending_out,         \* pending_out_frame and pending_out_frames, or write_buffer
  pending_out_bytes,
  wire,                \* external: bytes that the reader has not read
  offset,
  size_vec,            \* bytes of a length
  current_frame_size,  \* 0 when None
  read_buffer,
  reading,             \* "open", "failed" (an error was returned) or "panicked"
  \* history
  sent,                \* payloads that start_send has taken
  received

vars == <<kind, pending_out, pending_out_bytes, wire, offset, size_vec, current_frame_size,
          read_buffer, reading, sent, received>>

Init ==
  /\ kind \in Kinds
  /\ pending_out = <<>> /\ pending_out_bytes = 0
  /\ wire = <<>>
  /\ offset = 0 /\ size_vec = <<>> /\ current_frame_size = 0
  /\ read_buffer = <<>>
  /\ reading = "open"
  /\ sent = <<>> /\ received = <<>>

-----------------------------------------------------------------------------
(* unsigned_varint is external. *)

Encode[n \in Nat] == IF n < Base THEN <<n>> ELSE <<Base + (n % Base)>> \o Encode[n \div Base]

IsLast(byte) == byte < Base

Decode(bytes) == FoldRight(LAMBDA byte, n : (n * Base) + (byte % Base), bytes, 0)

(* A number that is encoded with more bytes than it needs is an error. *)
Minimal(bytes) == Len(bytes) > 1 => bytes[Len(bytes)] # 0

-----------------------------------------------------------------------------
(* The sender *)

(* What a frame adds to pending_out_bytes. *)
Counted(bytes, payload) == Len(bytes) + Len(payload)

(* The largest length that LengthDelimited can write. *)
MAX_FRAME_SIZE == (Base ^ MaxLenBytes) - 1

Accepted(payload) ==
  CASE kind = "identity" -> Len(payload) = PayloadSize
    [] kind = "delimited" -> Len(payload) <= MAX_FRAME_SIZE
    [] OTHER -> Len(payload) <= MaxSize

Prefix(payload) == IF kind = "identity" THEN <<>> ELSE Encode[Len(payload)]

(* start_send after poll_ready; a payload of the wrong size is refused.    *)
(* send_framed is the same with a flush to its end.                        *)
StartSend(payload) ==
  /\ Len(sent) < MaxFrames
  /\ pending_out_bytes < BackpressureBoundary
  /\ Accepted(payload)
  /\ sent' = Append(sent, payload)
  /\ pending_out' = pending_out \o
       SelectSeq(IF kind = "webrtc" THEN <<Prefix(payload) \o payload>>
                                    ELSE <<Prefix(payload), payload>>,
                 LAMBDA chunk : chunk # <<>>)
  /\ pending_out_bytes' = pending_out_bytes + Counted(Prefix(payload), payload)
  /\ UNCHANGED <<kind, wire, offset, size_vec, current_frame_size, read_buffer, reading, received>>

(* Mutant: what is left of a frame goes behind the frames that wait. *)
Rest_last(chunk, rest) == IF chunk = <<>> THEN rest ELSE Append(rest, chunk)

(* The part of a frame that was not written stays first. *)
Rest(chunk, rest) == IF chunk = <<>> THEN rest ELSE <<chunk>> \o rest

(* One poll_write of poll_flush or poll_write_buffer: n bytes are taken.   *)
(* A message of a WebRTC channel is written whole.                         *)
Flush(n) ==
  /\ pending_out # <<>>
  /\ LET chunk == Head(pending_out) IN
     /\ n <= Len(chunk)
     /\ kind = "webrtc" => n = Len(chunk)
     /\ wire' = wire \o SubSeq(chunk, 1, n)
     /\ pending_out' = Rest(SubSeq(chunk, n + 1, Len(chunk)), Tail(pending_out))
  /\ pending_out_bytes' = pending_out_bytes - n
  /\ UNCHANGED <<kind, offset, size_vec, current_frame_size, read_buffer, reading, sent, received>>

-----------------------------------------------------------------------------
(* The reader *)

Received(frame) == received' = Append(received, frame)

(* poll_next with Identity.  The buffer has its initial size for the first *)
(* frame, and the slice up to the payload size must lie within it.         *)
ReadIdentity(n) ==
  /\ reading = "open" /\ kind = "identity" /\ wire # <<>>
  /\ IF received = <<>> /\ PayloadSize > ReadBufferSize
       THEN /\ reading' = "panicked"
            /\ UNCHANGED <<wire, offset, read_buffer, received>>
       ELSE LET filled == read_buffer \o SubSeq(wire, 1, n) IN
            /\ n <= PayloadSize - offset /\ n <= Len(wire)
            /\ wire' = SubSeq(wire, n + 1, Len(wire))
            /\ \/ /\ offset + n = PayloadSize
                  /\ Received(filled)
                  /\ offset' = 0 /\ read_buffer' = <<>>
               \/ /\ offset + n < PayloadSize
                  /\ offset' = offset + n /\ read_buffer' = filled
                  /\ UNCHANGED received
            /\ UNCHANGED reading
  /\ UNCHANGED <<kind, pending_out, pending_out_bytes, size_vec, current_frame_size, sent>>

(* The length is known: an empty frame is returned at once. *)
AfterLength(bytes) ==
  /\ offset' = 0 /\ size_vec' = <<>>
  /\ IF Decode(bytes) = 0
       THEN Received(<<>>) /\ UNCHANGED current_frame_size
       ELSE current_frame_size' = Decode(bytes) /\ UNCHANGED received

(* One byte of a length is read. *)
LengthByte(max_size) ==
  /\ reading = "open" /\ wire # <<>>
  /\ current_frame_size = 0
  /\ wire' = Tail(wire)
  /\ LET bytes == Append(size_vec, Head(wire)) IN
     \/ /\ ~IsLast(Head(wire)) /\ Len(bytes) < MaxLenBytes
        /\ size_vec' = bytes /\ offset' = offset + 1
        /\ UNCHANGED <<current_frame_size, received, reading>>
     \/ /\ IsLast(Head(wire)) => ~Minimal(bytes) \/ Decode(bytes) > max_size
        /\ IsLast(Head(wire)) \/ Len(bytes) = MaxLenBytes
        /\ reading' = "failed"
        /\ UNCHANGED <<offset, size_vec, current_frame_size, received>>
     \/ /\ IsLast(Head(wire)) /\ Minimal(bytes) /\ Decode(bytes) <= max_size
        /\ AfterLength(bytes)
        /\ UNCHANGED reading
  /\ UNCHANGED <<kind, pending_out, pending_out_bytes, read_buffer, sent>>

(* poll_next with UnsignedVarint ... *)
ReadLength == kind = "varint" /\ LengthByte(ReaderMaxSize)

(* ... and of LengthDelimited, which bounds the bytes of a length only ... *)
ReadDelimitedLength == kind = "delimited" /\ LengthByte(MAX_FRAME_SIZE)

(* ... and bytes of the frame: never more than it has. *)
ReadFrame(n) ==
  /\ reading = "open" /\ current_frame_size > 0 /\ wire # <<>>
  /\ n <= current_frame_size - offset /\ n <= Len(wire)
  /\ wire' = SubSeq(wire, n + 1, Len(wire))
  /\ LET filled == read_buffer \o SubSeq(wire, 1, n) IN
     \/ /\ offset + n = current_frame_size
        /\ Received(filled)
        /\ offset' = 0 /\ current_frame_size' = 0 /\ read_buffer' = <<>>
     \/ /\ offset + n < current_frame_size
        /\ offset' = offset + n /\ read_buffer' = filled
        /\ UNCHANGED <<current_frame_size, received>>
  /\ UNCHANGED <<kind, pending_out, pending_out_bytes, size_vec, reading, sent>>

(* The body of a frame has arrived. *)
Whole(len, remaining) == len <= Len(remaining)

(* Data of a channel: it is appended to the buffer of the channel, whose   *)
(* frames extract_framed_message takes off one by one.                     *)
ReadChannel(n) ==
  /\ reading = "open" /\ kind = "webrtc" /\ n <= Len(wire)
  /\ read_buffer' = read_buffer \o SubSeq(wire, 1, n)
  /\ wire' = SubSeq(wire, n + 1, Len(wire))
  /\ UNCHANGED <<kind, pending_out, pending_out_bytes, offset, size_vec, current_frame_size,
                 reading, sent, received>>

ExtractFramedMessage ==
  LET ends == {i \in 1 .. Len(read_buffer) :
                 IsLast(read_buffer[i]) /\ \A j \in 1 .. i - 1 : ~IsLast(read_buffer[j])} IN
  /\ reading = "open" /\ kind = "webrtc"
  /\ \E varint_len \in ends :
       LET len == Decode(SubSeq(read_buffer, 1, varint_len))
           remaining == SubSeq(read_buffer, varint_len + 1, Len(read_buffer)) IN
       \/ /\ len > ReaderMaxSize
          /\ reading' = "failed"
          /\ UNCHANGED <<read_buffer, received>>
       \/ /\ len <= ReaderMaxSize /\ Whole(len, remaining)
          /\ Received(SubSeq(remaining, 1, len))
          /\ read_buffer' = SubSeq(remaining, len + 1, Len(remaining))
          /\ UNCHANGED reading
  /\ UNCHANGED <<kind, pending_out, pending_out_bytes, wire, offset, size_vec,
                 current_frame_size, sent>>

-----------------------------------------------------------------------------
(* The payload of the i-th frame, of any length, repeats a byte that would *)
(* also be the start of a length.                                          *)
Payloads == {[i \in 1 .. n |-> (Len(sent) + 2) % (2 * Base)] : n \in 0 .. MaxPayload}

Next ==
  \/ \E payload \in Payloads : StartSend(payload)
  \/ \E n \in 1 .. MaxPayload + MaxLenBytes :
       Flush(n) \/ ReadIdentity(n) \/ ReadFrame(n) \/ ReadChannel(n)
  \/ ReadLength \/ ReadDelimitedLength
  \/ ExtractFramedMessage

(* The substream is flushed and polled. *)
Fairness ==
  WF_vars(\/ \E n \in 1 .. MaxPayload + MaxLenBytes :
               Flush(n) \/ ReadIdentity(n) \/ ReadFrame(n) \/ ReadChannel(n)
          \/ ReadLength \/ ReadDelimitedLength \/ ExtractFramedMessage)

Spec == Init /\ [][Next]_vars /\ Fairness

-----------------------------------------------------------------------------
(* Properties *)

(* The reader has returned an error at a frame that is larger than it      *)
(* allows.                                                                 *)
Refused == reading = "failed" /\ Len(sent[Len(received) + 1]) > ReaderMaxSize

Stream == INSTANCE ReliableStream WITH broken <- Refused

(* Whatever the pieces in which the bytes are written and read, the reader *)
(* gets the payloads of the sender, in order and unchanged, and all of     *)
(* them unless it refuses one that is too large.                           *)
FramesIntact == Stream!FairSpec
=============================================================================
