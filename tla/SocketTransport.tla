--------------------------- MODULE SocketTransport ---------------------------
(***************************************************************************)
(* One installed transport, as the transport manager drives it.  Written   *)
(* from transport/tcp/mod.rs; the WebSocket and QUIC transports have the   *)
(* same collections and move an id between them in the same way (what QUIC *)
(* reports of an opened connection differs: TransportManager!is_listener). *)
(*                                                                         *)
(* The transport keeps a connection id in one collection at a time, so its *)
(* state is a function from ids to the collection that holds the id:       *)
(*                                                                         *)
(*   "pending_inbound"  pending_inbound_connections                        *)
(*   "inbound"          pending_connections, handshake as the listener     *)
(*   "dialing"          pending_connections, and pending_dials             *)
(*   "raw"              pending_raw_connections, and cancel_futures        *)
(*   "aborted"          the same, after abort() of the cancel handle       *)
(*   "opened"           opened                                             *)
(*   "negotiated"       pending_connections, a future that is ready        *)
(*   "pending_open"     pending_open, ConnectionEstablished is out         *)
(***************************************************************************)
Stage == {"none", "pending_inbound", "inbound", "dialing", "raw", "aborted",
          "opened", "negotiated", "pending_open"}

dial(s, c) == [s EXCEPT ![c] = "dialing"]

open(s, c) == [s EXCEPT ![c] = "raw"]

(* A socket the listener has returned, before the manager has answered.    *)
listener(s, c) == [s EXCEPT ![c] = "pending_inbound"]

accept_pending(s, c) ==
  IF s[c] = "pending_inbound" THEN [s EXCEPT ![c] = "inbound"] ELSE s

reject_pending(s, c) ==
  IF s[c] = "pending_inbound" THEN [s EXCEPT ![c] = "none"] ELSE s

(* accept() and reject() both take the connection out of pending_open; the *)
(* first hands it to a task of its own, the second drops it.               *)
accept(s, c) == IF s[c] = "pending_open" THEN [s EXCEPT ![c] = "none"] ELSE s

reject(s, c) == IF s[c] = "pending_open" THEN [s EXCEPT ![c] = "none"] ELSE s

negotiate(s, c) ==
  IF s[c] = "opened" THEN [s EXCEPT ![c] = "negotiated"] ELSE s

cancel(s, c) == IF s[c] = "raw" THEN [s EXCEPT ![c] = "aborted"] ELSE s

(* The results poll_next takes from its futures.  An aborted future ends   *)
(* as RawConnectionResult::Canceled and yields no event.                   *)
poll_opened(s, c) == [s EXCEPT ![c] = "opened"]
poll_established(s, c) == [s EXCEPT ![c] = "pending_open"]
poll_failed(s, c) == [s EXCEPT ![c] = "none"]
==============================================================================
