--------------------------- MODULE WebRtcListener ---------------------------
(***************************************************************************)
(* The UDP sockets of the WebRTC transport (transport/webrtc/listener.rs). *)
(* They are read in a ring; a socket that has nothing registers a waker,   *)
(* one that fails does not.                                                *)
(*                                                                         *)
(* Polls are modelled with their wakers: the transport is polled when it   *)
(* was woken, by a socket, by the delay after errors, or by something else *)
(* of the transport or of the manager.                                     *)
(***************************************************************************)
EXTENDS Naturals, FiniteSetsExt

CONSTANTS
  NumSockets,
  OtherWakes       \* the transport is woken by other things too

Socket == 0 .. NumSockets - 1

VARIABLES
  next_listener,
  socket,          \* socket -> "idle", or "data" or "error" to be read
  registered,      \* sockets whose waker is registered
  error_delay,     \* "none", "armed" or "fired"
  woken,           \* the transport will be polled
  last             \* history: the socket read last, or NumSockets

vars == <<next_listener, socket, registered, error_delay, woken, last>>

Init ==
  /\ next_listener = 0
  /\ socket = [s \in Socket |-> "idle"]
  /\ registered = {}
  /\ error_delay = "none"
  /\ woken = TRUE
  /\ last = NumSockets

-----------------------------------------------------------------------------

(* External: a datagram or an error arrives at a socket. *)
Arrives(s, what) ==
  /\ socket[s] = "idle"
  /\ socket' = [socket EXCEPT ![s] = what]
  /\ registered' = registered \ {s}
  /\ woken' = (woken \/ s \in registered)
  /\ UNCHANGED <<next_listener, error_delay, last>>

(* External: the transport is polled for another reason. *)
OtherWake ==
  /\ OtherWakes
  /\ woken' = TRUE
  /\ UNCHANGED <<next_listener, socket, registered, error_delay, last>>

(* External: the delay is over. *)
DelayFires ==
  /\ error_delay = "armed"
  /\ error_delay' = "fired"
  /\ woken' = TRUE
  /\ UNCHANGED <<next_listener, socket, registered, last>>

(* poll_recv_from while the delay lasts. *)
PollDelayed ==
  /\ woken
  /\ error_delay = "armed"
  /\ woken' = FALSE
  /\ UNCHANGED <<next_listener, socket, registered, error_delay, last>>

Turn(k) == (next_listener + k) % NumSockets

(* Mutant: the next read begins with the same socket. *)
NextListener_same(s) == next_listener

NextListener(s) == (s + 1) % NumSockets

(* poll_recv_from reads the first socket that has a datagram.  The sockets *)
(* before it had nothing, or an error, which is gone now.                  *)
PollReads ==
  LET k == Min({j \in Socket : socket[Turn(j)] = "data"})
      before == {Turn(j) : j \in 0 .. k - 1} IN
  /\ woken
  /\ error_delay # "armed"
  /\ \E s \in Socket : socket[s] = "data"
  /\ socket' = [s \in Socket |-> IF s \in before \cup {Turn(k)} THEN "idle" ELSE socket[s]]
  /\ registered' = registered \cup {s \in before : socket[s] = "idle"}
  /\ next_listener' = NextListener(Turn(k))
  /\ last' = Turn(k)
  /\ error_delay' = "none"
  /\ UNCHANGED woken

(* The delay if no socket was Pending. *)
Delay == IF \A s \in Socket : socket[s] = "error" THEN "armed" ELSE "none"

(* poll_recv_from finds no datagram.  A socket that failed has not         *)
(* registered a waker.                                                     *)
PollPending ==
  /\ woken
  /\ error_delay # "armed"
  /\ \A s \in Socket : socket[s] # "data"
  /\ registered' = {s \in Socket : socket[s] = "idle"}
  /\ socket' = [s \in Socket |-> "idle"]
  /\ error_delay' = Delay
  /\ woken' = FALSE
  /\ UNCHANGED <<next_listener, last>>

Poll == PollDelayed \/ PollReads \/ PollPending

Next ==
  \/ \E s \in Socket, what \in {"data", "error"} : Arrives(s, what)
  \/ OtherWake
  \/ DelayFires
  \/ Poll

(* A task that was woken is polled, and a timer fires. *)
Fairness ==
  /\ WF_vars(Poll)
  /\ WF_vars(DelayFires)
  /\ WF_vars(OtherWake)

Spec == Init /\ [][Next]_vars /\ Fairness

-----------------------------------------------------------------------------

(* A datagram that has arrived at any of the sockets is read, whatever     *)
(* errors the sockets have had ("All UdpSocket errors are transient").     *)
DatagramRead == \A s \in Socket : []<>(socket[s] # "data")
=============================================================================
