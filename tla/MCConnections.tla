--------------------------- MODULE MCConnections ---------------------------
(***************************************************************************)
(* What a connection is made of, for TLC.  One run checks several          *)
(* instances: part says which one a behaviour is of, and the variables of  *)
(* the others keep their initial values.                                   *)
(*                                                                         *)
(*   addresses    AddressStore (constants in the cfg);                     *)
(*   attempt      one open() with two addresses of the peer and one of     *)
(*                another, two at a time (WebSocket has the steps of TCP); *)
(*   noise        bytes of base 2, so that a length has its two digits;    *)
(*   multistream, framing, listeners;                                      *)
(*   task         a connection with two protocols, one of which has a      *)
(*                fallback name;                                           *)
(*   manager      TransportManager with two transports and one peer        *)
(***************************************************************************)
EXTENDS AddressStore

CONSTANTS None, Parts, Transports

VARIABLES
  part,
  a_kind, a_dialer, a_listener, errors, result, aborted,
  encrypt_buffer, write_offset, writer, n_wire, read_state, max_read, n_read_buffer,
  n_offset, n_current_frame_size, pending, reader, written, n_received,
  version, supported, protocols, m_dialer, proposed, header_received, dialer_buffer,
  dialer_data, m_listener, message, accepted, last_sent_na, listener_buffer, listener_data,
  up, down, wanted,
  f_kind, pending_out, pending_out_bytes, f_wire, f_offset, size_vec, f_current_frame_size,
  f_read_buffer, reading, sent, f_received,
  transport, members, offered, t_task, sending, t_commands, pending_substreams, senders,
  inbound, gone, unread, asker, log, noticed, manager,
  index, poll_index, waiting, last,
  peers, g_addresses, pending_connections, opening_errors, connection_limits,
  next_connection_id, g_commands, transports, remote, g_listener, g_task, panicked,
  connected, awaiting

Attempt == INSTANCE OpenAttempt WITH
  Kinds <- {"tcp", "quic"}, Address <- {"a", "b", "c"},
  Owner <- [a |-> "peer", b |-> "peer", c |-> "other"], Peer <- "peer", MaxParallel <- 2,
  kind <- a_kind, dialer <- a_dialer, listener <- a_listener

Noise == INSTANCE NoiseSocket WITH
  Base <- 2, Overhead <- 1, ReadAheadFactor <- 1, WriteBufferSize <- 1,
  WriteLens <- {1, 2, 3}, ReadLens <- {1, 2}, MaxPlaintext <- 6, wire <- n_wire,
  read_buffer <- n_read_buffer, offset <- n_offset,
  current_frame_size <- n_current_frame_size, received <- n_received

Multistream == INSTANCE MultistreamSelect WITH
  Versions <- {"V1", "V1Lazy"}, Proposals <- {<<"p">>, <<"q">>, <<"p", "q">>, <<"q", "p">>},
  Supports <- SUBSET {"p", "q"}, Capacity <- 2, MaxData <- 2, dialer <- m_dialer,
  listener <- m_listener

Framing == INSTANCE Framing WITH
  Base <- 2, MaxLenBytes <- 2, Kinds <- {"identity", "varint", "delimited", "webrtc"},
  PayloadSize <- 2, MaxSize <- 3, ReaderMaxSize <- 2, BackpressureBoundary <- 4,
  ReadBufferSize <- 3, MaxPayload <- 3, MaxFrames <- 3, kind <- f_kind, wire <- f_wire,
  offset <- f_offset, current_frame_size <- f_current_frame_size,
  read_buffer <- f_read_buffer, received <- f_received

Task == INSTANCE ConnectionTask WITH
  Transports <- Transports, Protocol <- {"p", "q"}, FallbackOf <- [pf |-> "p"],
  Accepts <- {"p", "q"}, EventCapacity <- 1, CommandCapacity <- 1, MaxSubstreams <- 2,
  task <- t_task, commands <- t_commands

Listeners == INSTANCE Listeners WITH
  NumTransports <- 2, NumListeners <- 3, MaxWaiting <- 1

Manager == INSTANCE TransportManager WITH
  Peer <- {"p1"}, Transport <- {"tcp", "ws"}, Installed <- {"tcp", "ws"}, InboundOnly <- {},
  OpensAsListener <- {}, max_incoming_connections <- 1, max_outgoing_connections <- None,
  CommandCapacity <- 1, MaxConnections <- 3, addresses <- g_addresses,
  commands <- g_commands, listener <- g_listener, task <- g_task

store == <<addresses, score, outcome>>
attempt == <<a_kind, a_dialer, a_listener, errors, result, aborted>>
noise == <<encrypt_buffer, write_offset, writer, n_wire, read_state, max_read,
  n_read_buffer, n_offset, n_current_frame_size, pending, reader, written, n_received>>
multistream == <<version, supported, protocols, m_dialer, proposed, header_received,
  dialer_buffer, dialer_data, m_listener, message, accepted, last_sent_na, listener_buffer,
  listener_data, up, down, wanted>>
framing == <<f_kind, pending_out, pending_out_bytes, f_wire, f_offset, size_vec,
  f_current_frame_size, f_read_buffer, reading, sent, f_received>>
connection_task == <<transport, members, offered, t_task, sending, t_commands,
  pending_substreams, senders, inbound, gone, unread, asker, log, noticed, manager>>
listeners == <<index, poll_index, waiting, last>>
manager_task == <<peers, g_addresses, pending_connections, opening_errors,
  connection_limits, next_connection_id, g_commands, transports, remote, g_listener, g_task,
  panicked, connected, awaiting>>
parts == <<store, attempt, noise, multistream, framing, connection_task, listeners,
  manager_task>>


MCInit ==
  /\ part \in Parts
  /\ Init
  /\ Attempt!Init
  /\ part # "attempt" => a_kind = "tcp"
  /\ Noise!Init
  /\ Multistream!Init
  /\ part # "multistream" => version = "V1" /\ supported = {} /\ wanted = <<"p">>
  /\ Framing!Init
  /\ part # "framing" => f_kind = "identity"
  /\ Task!Init
  /\ part # "task" => transport = "tcp" /\ gone = {}
  /\ Listeners!Init
  /\ Manager!Init

OnlyAddresses(A) ==
  /\ part = "addresses" /\ A
  /\ UNCHANGED <<part, attempt, noise, multistream, framing, connection_task,
                 listeners, manager_task>>

OnlyAttempt(A) ==
  /\ part = "attempt" /\ A
  /\ UNCHANGED <<part, store, noise, multistream, framing, connection_task, listeners,
                 manager_task>>

OnlyNoise(A) ==
  /\ part = "noise" /\ A
  /\ UNCHANGED <<part, store, attempt, multistream, framing, connection_task,
                 listeners, manager_task>>

OnlyMultistream(A) ==
  /\ part = "multistream" /\ A
  /\ UNCHANGED <<part, store, attempt, noise, framing, connection_task, listeners,
                 manager_task>>

OnlyFraming(A) ==
  /\ part = "framing" /\ A
  /\ UNCHANGED <<part, store, attempt, noise, multistream, connection_task, listeners,
                 manager_task>>

OnlyTask(A) ==
  /\ part = "task" /\ A
  /\ UNCHANGED <<part, store, attempt, noise, multistream, framing, listeners,
                 manager_task>>

OnlyListeners(A) ==
  /\ part = "listeners" /\ A
  /\ UNCHANGED <<part, store, attempt, noise, multistream, framing, connection_task,
                 manager_task>>

OnlyManager(A) ==
  /\ part = "manager" /\ A
  /\ UNCHANGED <<part, store, attempt, noise, multistream, framing, connection_task,
                 listeners>>

MCNext ==
  \/ OnlyAddresses(Next)
  \/ OnlyAttempt(Attempt!Next)
  \/ OnlyNoise(Noise!Next)
  \/ OnlyMultistream(Multistream!Next)
  \/ OnlyFraming(Framing!Next)
  \/ OnlyTask(Task!Next)
  \/ OnlyListeners(Listeners!Next)
  \/ OnlyManager(Manager!Next)

mcvars == <<part, parts>>

(* The fairness of each module, for the behaviours of its part.  Of a      *)
(* disjunction in WF, only the disjunct of the part is ever enabled.       *)
Protocols == [i \in 0 .. 1 |-> IF i = 0 THEN "p" ELSE "q"]
Hosts == [i \in 0 .. 2 |-> IF i = 0 THEN "a" ELSE IF i = 1 THEN "b" ELSE "c"]

Fairness ==
  /\ WF_mcvars(\/ OnlyAttempt(Attempt!Dialer)
               \/ OnlyNoise(\E n \in 1 .. Noise!EncryptBufferLen : Noise!PollFlush(n))
               \/ OnlyMultistream(Multistream!DialerStep)
               \/ OnlyFraming(\/ \E n \in 1 .. 5 : \/ Framing!Flush(n)
                                                    \/ Framing!ReadIdentity(n)
                                                    \/ Framing!ReadFrame(n)
                                                    \/ Framing!ReadChannel(n)
                               \/ Framing!ReadLength \/ Framing!ReadDelimitedLength
                               \/ Framing!ExtractFramedMessage)
               \/ OnlyTask(Task!Start)
               \/ OnlyListeners(Listeners!Poll)
               \/ OnlyManager(Manager!ProcessCommand))
  /\ \A i \in 0 .. 2 :
       /\ WF_mcvars(\/ OnlyAttempt(\/ Attempt!ListenerFails(Hosts[i])
                                    \/ Attempt!AcceptConnection(Hosts[i]))
                    \/ i < 2 /\ OnlyTask(Task!Negotiated(i + 1))
                    \/ OnlyManager(Manager!AcceptCompleted(i)))
       /\ WF_mcvars(\/ OnlyManager(Manager!ConnectionClosed(i))
                    \/ i = 0 /\ OnlyNoise(Noise!Reads)
                    \/ i = 0 /\ OnlyMultistream(Multistream!ListenerStep)
                    \/ i < 2 /\ OnlyTask(Task!Send(Protocols[i]))
                    \/ i = 2 /\ OnlyTask(Task!HandleCommand))
       /\ WF_mcvars(\/ OnlyManager(Manager!TransportResult("tcp", i))
                    \/ i < 2 /\ OnlyTask(Task!Read(Protocols[i]))
                    \/ i = 2 /\ OnlyTask(Task!ReportToManager))
       /\ WF_mcvars(\/ OnlyManager(Manager!TransportResult("ws", i))
                    \/ i < 2 /\ OnlyTask(Task!Negotiated(i + 3)))

MCSpec == MCInit /\ [][MCNext]_mcvars /\ Fairness

-----------------------------------------------------------------------------
(* OpenAttempt: connections the winner left behind are closed. *)
LosersClosed == Attempt!LosersClosed

(* NoiseSocket implements a reliable stream of plaintext, and all of it is *)
(* read.                                                                   *)
PlaintextIntact == Noise!PlaintextIntact

(* MultistreamSelect: the negotiation ends at both ends, which agree, and  *)
(* has touched no data.                                                    *)
BothEnd == <>[](part = "multistream" => Multistream!Settled)

(* Framing implements a reliable stream of payloads, and all are read. *)
FramesIntact == Framing!FramesIntact

(* ConnectionTask: protocols and manager hear of a connection in order. *)
ConnectionTaskInv == Task!Inv

(* ConnectionTask: an outbound substream is answered, once, to its asker. *)
OpenAnswered == Task!OpenAnswered

(* Listeners: every socket is served. *)
EverySocketServed == Listeners!EverySocketServed

(* TransportManager: a dial is reported. *)
DialReported == Manager!DialReported
=============================================================================
