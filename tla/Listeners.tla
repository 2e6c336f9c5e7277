----------------------------- MODULE Listeners -----------------------------
(***************************************************************************)
(* Who is polled first.  The manager polls its transports in a ring        *)
(* (TransportContext, transport/manager/mod.rs), and a TCP or WebSocket    *)
(* transport polls its listening sockets in another one (SocketListener,   *)
(* transport/common/listener.rs).  One poll returns one event.             *)
(***************************************************************************)
EXTENDS Naturals, FiniteSetsExt

CONSTANTS
  NumTransports, NumListeners,
  MaxWaiting       \* bound: connections waiting at one socket

Transport == 0 .. NumTransports - 1
Listener == 0 .. NumListeners - 1

VARIABLES
  index,          \* TransportContext.index
  poll_index,     \* transport -> SocketListener.poll_index
  waiting,        \* transport -> listener -> connections not accepted yet
  last            \* history: transport and listener of the last event, or <<>>

vars == <<index, poll_index, waiting, last>>

Init ==
  /\ index = 0
  /\ poll_index = [t \in Transport |-> 0]
  /\ waiting = [t \in Transport |-> [l \in Listener |-> 0]]
  /\ last = <<>>

(* External: a remote connects. *)
Arrives(t, l) ==
  /\ waiting[t][l] < MaxWaiting
  /\ waiting' = [waiting EXCEPT ![t][l] = @ + 1]
  /\ UNCHANGED <<index, poll_index, last>>

(* Mutant: the ring of the sockets stands still. *)
NextPollIndex_same(i) == i

(* poll_index after a poll, whatever the poll has returned. *)
NextPollIndex(i) == (i + 1) % NumListeners

(* index after a transport was polled. *)
NextIndex(t) == (t + 1) % NumTransports

Ready(t) == \E l \in Listener : waiting[t][l] > 0

(* The socket at which poll_next of SocketListener accepts. *)
Accepts(t) ==
  LET turn(k) == (poll_index[t] + k) % NumListeners IN
  turn(Min({k \in Listener : waiting[t][turn(k)] > 0}))

(* poll_next of TransportContext: the transports are polled from index on, *)
(* until one has an event.  All of them were polled before it is Pending,  *)
(* and every socket has registered its waker.                              *)
Poll ==
  LET turn(k) == (index + k) % NumTransports
      k == Min({j \in Transport : Ready(turn(j))})
      t == turn(k)
      polled == {turn(j) : j \in 0 .. k} IN
  /\ \E u \in Transport : Ready(u)
  /\ index' = NextIndex(t)
  /\ poll_index' = [u \in Transport |-> IF u \in polled THEN NextPollIndex(poll_index[u])
                                                        ELSE poll_index[u]]
  /\ waiting' = [waiting EXCEPT ![t][Accepts(t)] = @ - 1]
  /\ last' = <<t, Accepts(t)>>

Next ==
  \/ \E t \in Transport, l \in Listener : Arrives(t, l)
  \/ Poll

(* The manager polls its transports as long as the node runs. *)
Spec == Init /\ [][Next]_vars /\ WF_vars(Poll)

-----------------------------------------------------------------------------

(* A connection that waits at any socket of any transport is accepted,     *)
(* however many arrive at the others.                                      *)
EverySocketServed ==
  \A t \in Transport, l \in Listener : []<>(waiting[t][l] > 0 => last = <<t, l>>)
=============================================================================
