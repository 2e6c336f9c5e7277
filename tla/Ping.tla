-------------------------------- MODULE Ping --------------------------------
(***************************************************************************)
(* Ping (protocol/libp2p/ping/mod.rs) on top of the promises of            *)
(* SubstreamService: one pinger per peer, replaced by another one after a  *)
(* failure, and one responder per peer.                                    *)
(*                                                                         *)
(* The task also blocks: when the user does not read, tx.send of a result  *)
(* waits, and nothing else of the protocol runs meanwhile.                 *)
(***************************************************************************)
EXTENDS Naturals, FiniteSets

CONSTANTS
  Peer, None,
  EventCapacity,     \* capacity of the channel of PingEvents
  MaxSubstreams      \* bound: outbound substreams ever opened

SubstreamId == 0 .. MaxSubstreams - 1

VARIABLES
  sessions, requested, answers,   \* the service, as SubstreamService describes it
  pingers,       \* peer -> state of its pinger, or "none"
  retries,
  responders,    \* peer -> "none", "reading", or "echo": a ping has arrived
  events,        \* results in the channel
  blocked,       \* the task waits in tx.send
  eager          \* history: peer -> pings of this session sent without a wait

service == <<sessions, requested, answers>>
vars == <<service, pingers, retries, responders, events, blocked, eager>>

Service == INSTANCE SubstreamService

Init ==
  /\ Service!Init
  /\ pingers = [p \in Peer |-> "none"]
  /\ retries = {}
  /\ responders = [p \in Peer |-> "none"]
  /\ events = 0
  /\ blocked = FALSE
  /\ eager = [p \in Peer |-> 0]

NextSubstream == Cardinality({s \in SubstreamId : requested[s] # None})

-----------------------------------------------------------------------------

(* on_connection_established: the substream may be refused. *)
ConnectionEstablished(p) ==
  /\ ~blocked
  /\ sessions[p] = 0
  /\ sessions' = [sessions EXCEPT ![p] = 1]
  /\ eager' = [eager EXCEPT ![p] = 0]
  /\ \/ NextSubstream < MaxSubstreams /\ requested' = [requested EXCEPT ![NextSubstream] = p]
     \/ UNCHANGED requested
  /\ UNCHANGED <<answers, pingers, retries, responders, events, blocked>>

(* on_connection_closed: pinger and responder are left to fail. *)
ConnectionClosed(p) ==
  /\ ~blocked
  /\ Service!ConnectionClosed(p)
  /\ UNCHANGED <<pingers, retries, responders, events, blocked, eager>>

ShouldWait(s) == s \in retries

(* on_outbound_substream: the pinger of an earlier connection may still be *)
(* there, and is replaced.                                                 *)
OutboundSubstream(s) ==
  LET p == requested[s] IN
  /\ ~blocked
  /\ Service!Answer(s)
  /\ retries' = retries \ {s}
  /\ pingers' = [pingers EXCEPT ![p] = IF ShouldWait(s) THEN "wait" ELSE "ping"]
  /\ eager' = [eager EXCEPT ![p] = IF ShouldWait(s) THEN @ ELSE @ + 1]
  /\ UNCHANGED <<responders, events, blocked>>

SubstreamOpenFailure(s) ==
  /\ ~blocked
  /\ Service!Answer(s)
  /\ retries' = retries \ {s}
  /\ UNCHANGED <<pingers, responders, events, blocked, eager>>

(* on_inbound_substream: a second one replaces the first. *)
InboundSubstream(p) ==
  /\ ~blocked
  /\ sessions[p] = 1
  /\ responders' = [responders EXCEPT ![p] = "reading"]
  /\ UNCHANGED <<service, pingers, retries, events, blocked, eager>>

-----------------------------------------------------------------------------
(* Pingers *)

(* The interval has passed. *)
PingStarts(p) ==
  /\ ~blocked
  /\ pingers[p] = "wait"
  /\ pingers' = [pingers EXCEPT ![p] = "ping"]
  /\ UNCHANGED <<service, retries, responders, events, blocked, eager>>

(* tx.send(..).await *)
Reports ==
  IF events < EventCapacity THEN events' = events + 1 /\ UNCHANGED blocked
                            ELSE blocked' = TRUE /\ UNCHANGED events

(* The payload has come back. *)
PingSucceeds(p) ==
  /\ ~blocked
  /\ pingers[p] = "ping"
  /\ pingers' = [pingers EXCEPT ![p] = "wait"]
  /\ Reports
  /\ UNCHANGED <<service, retries, responders, eager>>

(* Mutant: the pinger that has failed stays. *)
PingerRemoved_kept(p) == UNCHANGED pingers

PingerRemoved(p) == pingers' = [pingers EXCEPT ![p] = "none"]

(* The ping failed, timed out or brought another payload: the pinger goes, *)
(* and a new substream is asked for.                                       *)
PingFails(p) ==
  /\ ~blocked
  /\ pingers[p] = "ping"
  /\ PingerRemoved(p)
  /\ \/ /\ sessions[p] = 1
        /\ NextSubstream < MaxSubstreams
        /\ Service!OpenSubstream(p, NextSubstream)
        /\ retries' = retries \cup {NextSubstream}
     \/ UNCHANGED <<service, retries>>
  /\ UNCHANGED <<responders, events, blocked, eager>>

-----------------------------------------------------------------------------
(* Responders *)

(* External: the remote sends a ping. *)
PingArrives(p) ==
  /\ responders[p] = "reading"
  /\ responders' = [responders EXCEPT ![p] = "echo"]
  /\ UNCHANGED <<service, pingers, retries, events, blocked, eager>>

(* The payload is sent back, or the substream fails or ends, and the       *)
(* responder is removed.                                                   *)
Responds(p) ==
  /\ ~blocked
  /\ responders[p] = "echo"
  /\ responders' \in {[responders EXCEPT ![p] = r] : r \in {"reading", "none"}}
  /\ UNCHANGED <<service, pingers, retries, events, blocked, eager>>

ResponderEnds(p) ==
  /\ ~blocked
  /\ responders[p] = "reading"
  /\ responders' = [responders EXCEPT ![p] = "none"]
  /\ UNCHANGED <<service, pingers, retries, events, blocked, eager>>

(* External: the user reads a result, which makes room for the one that    *)
(* waits.                                                                  *)
UserReads ==
  /\ events > 0
  /\ events' = IF blocked THEN events ELSE events - 1
  /\ blocked' = FALSE
  /\ UNCHANGED <<service, pingers, retries, responders, eager>>

Next ==
  \/ \E p \in Peer :
       \/ ConnectionEstablished(p)
       \/ ConnectionClosed(p)
       \/ InboundSubstream(p)
       \/ PingStarts(p)
       \/ PingSucceeds(p)
       \/ PingFails(p)
       \/ PingArrives(p)
       \/ Responds(p)
       \/ ResponderEnds(p)
  \/ \E s \in SubstreamId :
       \/ OutboundSubstream(s)
       \/ SubstreamOpenFailure(s)
  \/ UserReads

Spec == Init /\ [][Next]_vars

-----------------------------------------------------------------------------

Unanswered(p) == {s \in SubstreamId : requested[s] = p /\ Service!Unanswered(s)}

(* A retry is remembered exactly as long as its substream is being opened, *)
(* so retries does not grow with the failures.                             *)
RetriesPending == \A s \in retries : Service!Unanswered(s)

(* Per connection one ping at most is sent without waiting for the         *)
(* interval, however often pings fail: a failing peer is not flooded.      *)
OneEagerPing == \A p \in Peer : eager[p] <= 1

(* A pinger that outlives its connection and the one of the next           *)
(* connection do not multiply: pinger and substreams being opened are at   *)
(* most two per peer (the comment in on_outbound_substream).               *)
PingersBounded ==
  \A p \in Peer : Cardinality(Unanswered(p)) + (IF pingers[p] = "none" THEN 0 ELSE 1) <= 2

(* Pingers and retries neither pile up nor flood the peer, however pings   *)
(* fail while connections come and go.                                     *)
Inv == RetriesPending /\ OneEagerPing /\ PingersBounded
=============================================================================
