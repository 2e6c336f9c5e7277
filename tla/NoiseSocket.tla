----------------------------- MODULE NoiseSocket -----------------------------
(***************************************************************************)
(* NoiseSocket (crypto/noise/mod.rs): plaintext is cut into frames of two  *)
(* length bytes and a ciphertext, which the peer reads in pieces of any    *)
(* size into one buffer that has auxiliary memory at its end for a frame   *)
(* that does not fit.  One side writes, the other reads.                   *)
(*                                                                         *)
(* The code has Base = 256 and Overhead = 16.  A byte below Base is one of *)
(* a length, Base is one of an authentication tag, and Base + k is the     *)
(* k-th byte of the plaintext, encrypted.                                  *)
(***************************************************************************)
EXTENDS Naturals, Sequences, SequencesExt

CONSTANTS
  Base,
  Overhead,              \* NOISE_EXTRA_ENCRYPT_SPACE
  ReadAheadFactor,       \* max_read_ahead_factor
  WriteBufferSize,       \* max_write_buffer_size
  WriteLens, ReadLens,   \* of the buffers given to poll_write and poll_read
  MaxPlaintext           \* bounds the plaintext of a behaviour

MaxNoiseMsgLen == Base * Base

MaxFrameLen == MaxNoiseMsgLen - Overhead

EncryptBufferLen == WriteBufferSize * (MaxNoiseMsgLen + 2)

CanonicalMaxRead == ReadAheadFactor * MaxNoiseMsgLen

ReadBufferLen == CanonicalMaxRead + 2 + MaxNoiseMsgLen

VARIABLES
  encrypt_buffer,       \* up to encrypted_len; <<>> when WriteState::Idle
  write_offset,         \* WriteState::Writing.offset
  writer,               \* the last poll_write: "ready", "pending" or "failed"
  wire,                 \* external: bytes that the reader has not read
  read_state,           \* "ReadData", "ReadFrameLen" or "ProcessNextFrame"
  max_read,
  read_buffer,          \* its first nread bytes
  offset,
  current_frame_size,   \* 0 when None
  pending,              \* ProcessNextFrame: plaintext that was not returned yet
  reader,               \* "open", "failed" (an error was returned) or "panicked"
  \* history
  written,              \* bytes that poll_write has taken
  received              \* bytes that poll_read has returned

writeVars == <<encrypt_buffer, write_offset, writer, written>>
readVars == <<read_state, max_read, read_buffer, offset, current_frame_size, pending, reader,
              received>>
vars == <<writeVars, wire, readVars>>

nread == Len(read_buffer)

Init ==
  /\ encrypt_buffer = <<>> /\ write_offset = 0 /\ writer = "ready" /\ written = 0
  /\ wire = <<>>
  /\ read_state = "ReadData" /\ max_read = CanonicalMaxRead
  /\ read_buffer = <<>> /\ offset = 0 /\ current_frame_size = 0 /\ pending = <<>>
  /\ reader = "open" /\ received = <<>>

-----------------------------------------------------------------------------
(* External: snow refuses a message that is longer than 16 bits can say. *)
WriteMessageFails(len) == len + Overhead > MaxNoiseMsgLen - 1

(* ... and decrypts exactly the ciphertext of a frame. *)
Decrypts(message) ==
  \A i \in 1 .. Len(message) : message[i] = Base <=> i > Len(message) - Overhead

Plaintext(message) == [i \in 1 .. Len(message) - Overhead |-> message[i] - Base]

(* A frame whose plaintext is the len bytes from the first-th on. *)
Frame(first, len) ==
  LET nwritten == len + Overhead IN
  <<nwritten \div Base, nwritten % Base>>
    \o [i \in 1 .. nwritten |-> IF i <= len THEN Base + first + i - 1 ELSE Base]

-----------------------------------------------------------------------------
(* The socket takes n bytes of the encrypted ones; with the last of them   *)
(* the buffer is empty again.                                              *)
Drain(n) ==
  LET drained == write_offset + n = Len(encrypt_buffer) IN
  /\ wire' = wire \o SubSeq(encrypt_buffer, write_offset + 1, write_offset + n)
  /\ encrypt_buffer' = IF drained THEN <<>> ELSE encrypt_buffer
  /\ write_offset' = IF drained THEN 0 ELSE write_offset + n

Waiting == Len(encrypt_buffer) - write_offset

(* poll_write: first what waits is drained as far as the socket takes it,  *)
(* then the chunks of the data that fit are encrypted behind the rest.     *)
(* Only the last chunk can be shorter than MaxFrameLen, and snow refuses   *)
(* one that is not, so what succeeds is one chunk.                         *)
PollWrite(len, n) ==
  LET rest == IF n = Waiting THEN <<>> ELSE encrypt_buffer
      chunk == IF len < MaxFrameLen THEN len ELSE MaxFrameLen
      fits == Len(rest) + chunk + 2 + Overhead <= EncryptBufferLen IN
  /\ writer # "failed" /\ written + len <= MaxPlaintext
  /\ n <= Waiting
  /\ \/ /\ fits /\ WriteMessageFails(chunk)
        /\ Drain(n)
        /\ writer' = "failed" /\ UNCHANGED written
     \/ /\ fits /\ ~WriteMessageFails(chunk)
        /\ wire' = wire \o SubSeq(encrypt_buffer, write_offset + 1, write_offset + n)
        /\ write_offset' = IF rest = <<>> THEN 0 ELSE write_offset + n
        /\ encrypt_buffer' = rest \o Frame(written + 1, chunk)
        /\ written' = written + chunk /\ writer' = "ready"
     \/ /\ ~fits
        /\ Drain(n)
        /\ writer' = "pending" /\ UNCHANGED written
  /\ UNCHANGED readVars

(* poll_flush, and with it poll_close: the socket takes n bytes. *)
PollFlush(n) ==
  /\ writer # "failed" /\ n <= Waiting
  /\ Drain(n)
  /\ UNCHANGED <<writer, written>>
  /\ UNCHANGED readVars

-----------------------------------------------------------------------------
(* The iterations of poll_read's loop *)

ReadData(n) ==
  /\ reader = "open" /\ read_state = "ReadData" /\ wire # <<>>
  /\ \/ /\ max_read > ReadBufferLen \/ nread > max_read
        /\ reader' = "panicked"
        /\ UNCHANGED <<wire, read_state, read_buffer>>
     \/ /\ nread = max_read
        /\ reader' = "failed"
        /\ UNCHANGED <<wire, read_state, read_buffer>>
     \/ /\ n \in 1 .. max_read - nread /\ n <= Len(wire) /\ max_read <= ReadBufferLen
        /\ read_buffer' = read_buffer \o SubSeq(wire, 1, n)
        /\ wire' = SubSeq(wire, n + 1, Len(wire))
        /\ read_state' = "ReadFrameLen"
        /\ UNCHANGED reader
  /\ UNCHANGED <<max_read, offset, current_frame_size, pending, received>>
  /\ UNCHANGED writeVars

(* reset_read_state: a byte that is left goes to the front; a frame size   *)
(* that was read is kept.                                                  *)
ResetReadState(remaining) ==
  /\ read_buffer' = SubSeq(read_buffer, nread - remaining + 1, nread)
  /\ offset' = 0
  /\ read_state' = "ReadData" /\ max_read' = CanonicalMaxRead
  /\ UNCHANGED <<current_frame_size, reader>>

(* A frame that does not fit is read into the auxiliary memory, and        *)
(* nothing behind it is.                                                   *)
MaxRead(frame_size, remaining) ==
  IF nread + frame_size < CanonicalMaxRead
    THEN CanonicalMaxRead
    ELSE nread + frame_size - remaining

ReadFrameLen ==
  LET known == current_frame_size > 0
      unread == nread - offset
      body == IF known THEN offset ELSE offset + 2
      frame_size == IF known THEN current_frame_size
                             ELSE (read_buffer[offset + 1] * Base) + read_buffer[offset + 2]
      remaining == nread - body IN
  /\ reader = "open" /\ read_state = "ReadFrameLen"
  /\ \/ /\ offset > nread
        /\ reader' = "failed"
        /\ UNCHANGED <<read_state, max_read, read_buffer, offset, current_frame_size>>
     \/ /\ offset <= nread /\ unread < 2
        /\ ResetReadState(unread)
     \/ /\ offset <= nread /\ unread >= 2
        /\ offset' = body
        /\ UNCHANGED read_buffer
        /\ IF remaining < frame_size
             THEN /\ current_frame_size' = frame_size
                  /\ read_state' = "ReadData"
                  /\ max_read' = MaxRead(frame_size, remaining)
                  /\ UNCHANGED reader
             ELSE IF frame_size <= Overhead
             THEN /\ reader' = "failed" /\ current_frame_size' = 0
                  /\ UNCHANGED <<read_state, max_read>>
             ELSE /\ current_frame_size' = frame_size
                  /\ read_state' = "ProcessNextFrame"
                  /\ UNCHANGED <<max_read, reader>>
  /\ UNCHANGED <<wire, pending, received>>
  /\ UNCHANGED writeVars

(* The last byte of the frame is returned. *)
FrameRead(frame_size) ==
  /\ read_state' = "ReadFrameLen" /\ current_frame_size' = 0
  /\ offset' = offset + frame_size

(* Mutant: the offset of the pending plaintext is not advanced. *)
NotReturned_all(plaintext, len) == plaintext

NotReturned(plaintext, len) == SubSeq(plaintext, len + 1, Len(plaintext))

(* current_frame_size stands for the frame_size of a state with pending    *)
(* plaintext too.                                                          *)
ProcessNextFrame(len) ==
  LET message == SubSeq(read_buffer, offset + 1, offset + current_frame_size)
      plaintext == IF pending = <<>> THEN Plaintext(message) ELSE pending IN
  /\ reader = "open" /\ read_state = "ProcessNextFrame"
  /\ \/ /\ pending = <<>> /\ ~Decrypts(message)
        /\ reader' = "failed"
        /\ UNCHANGED <<read_state, offset, current_frame_size, pending, received>>
     \/ /\ pending # <<>> \/ Decrypts(message)
        /\ len >= Len(plaintext)
        /\ received' = received \o plaintext
        /\ pending' = <<>>
        /\ FrameRead(current_frame_size)
        /\ UNCHANGED reader
     \/ /\ pending # <<>> \/ Decrypts(message)
        /\ len < Len(plaintext)
        /\ received' = received \o SubSeq(plaintext, 1, len)
        /\ pending' = NotReturned(plaintext, len)
        /\ UNCHANGED <<reader, read_state, offset, current_frame_size>>
  /\ UNCHANGED <<wire, max_read, read_buffer>>
  /\ UNCHANGED writeVars

-----------------------------------------------------------------------------
Reads ==
  \/ \E n \in 1 .. ReadBufferLen : ReadData(n)
  \/ ReadFrameLen
  \/ \E len \in ReadLens : ProcessNextFrame(len)

Next ==
  \/ \E len \in WriteLens, n \in 0 .. EncryptBufferLen : PollWrite(len, n)
  \/ \E n \in 1 .. EncryptBufferLen : PollFlush(n)
  \/ Reads

(* yamux polls the socket: it flushes what it wrote, and it reads. *)
Fairness ==
  /\ WF_vars(\E n \in 1 .. EncryptBufferLen : PollFlush(n))
  /\ WF_vars(Reads)

Spec == Init /\ [][Next]_vars /\ Fairness

-----------------------------------------------------------------------------
(* Properties *)

(* The bytes of the plaintext are numbered. *)
Stream == INSTANCE ReliableStream WITH
  sent <- [i \in 1 .. written |-> i], broken <- writer = "failed"

(* Whatever the pieces in which the socket takes and gives the bytes, and  *)
(* whatever the buffers of the callers, the plaintext arrives in order,    *)
(* and all of it, unless a write failed; and poll_write returns Pending    *)
(* only with bytes that the socket has to take, whose waker it has         *)
(* registered, as the comment in poll_write argues from the buffer's size. *)
PlaintextIntact ==
  /\ Stream!FairSpec
  /\ [][writer' = "pending" /\ writer = "ready" => encrypt_buffer' # <<>>]_vars
=============================================================================
