-------------------------- MODULE SubstreamService --------------------------
(***************************************************************************)
(* What a transport service promises to its protocol.                      *)
(* ConnectionEstablished and ConnectionClosed of a peer alternate; a       *)
(* substream can be requested only in between, and each request is         *)
(* answered exactly once, by SubstreamOpened or SubstreamOpenFailure,      *)
(* before ConnectionClosed.                                                *)
(***************************************************************************)
EXTENDS Naturals

CONSTANTS Peer, SubstreamId, None

VARIABLES
  sessions,   \* peer -> ConnectionEstablished minus ConnectionClosed
  requested,  \* substream id -> peer it was requested of, or None
  answers     \* substream id -> answers the protocol has been given

serviceVars == <<sessions, requested, answers>>

Init ==
  /\ sessions = [p \in Peer |-> 0]
  /\ requested = [s \in SubstreamId |-> None]
  /\ answers = [s \in SubstreamId |-> 0]

Unanswered(s) == requested[s] # None /\ answers[s] = 0

ConnectionEstablished(p) ==
  /\ sessions[p] = 0
  /\ sessions' = [sessions EXCEPT ![p] = 1]
  /\ UNCHANGED <<requested, answers>>

ConnectionClosed(p) ==
  /\ sessions[p] = 1
  /\ \A s \in SubstreamId : requested[s] = p => ~Unanswered(s)
  /\ sessions' = [sessions EXCEPT ![p] = 0]
  /\ UNCHANGED <<requested, answers>>

OpenSubstream(p, s) ==
  /\ sessions[p] = 1
  /\ requested[s] = None
  /\ requested' = [requested EXCEPT ![s] = p]
  /\ UNCHANGED <<sessions, answers>>

Answer(s) ==
  /\ Unanswered(s)
  /\ answers' = [answers EXCEPT ![s] = 1]
  /\ UNCHANGED <<sessions, requested>>

Next ==
  \/ \E p \in Peer : \/ ConnectionEstablished(p)
                     \/ ConnectionClosed(p)
                     \/ \E s \in SubstreamId : OpenSubstream(p, s)
  \/ \E s \in SubstreamId : Answer(s)

Spec == Init /\ [][Next]_serviceVars

FairSpec == Spec /\ \A s \in SubstreamId : WF_serviceVars(Answer(s))
=============================================================================
