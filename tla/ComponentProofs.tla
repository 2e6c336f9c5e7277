-------------------------- MODULE ComponentProofs --------------------------
(***************************************************************************)
(* Proofs about components that stand alone: the connections and the       *)
(* transport of WebRTC, and the address store.                             *)
(***************************************************************************)
EXTENDS AddressStore, WebRtc, Sequences, TLAPS

-----------------------------------------------------------------------------
(* WebRtcConnection *)

(* What the invariant of WebRtcConnection says of one channel. *)
ChannelAgrees(c) ==
  /\ c \in handles \/ channels[c] \in Connection!Opening =>
       (c \in handles_pending <=> pending_messages[c] > 0)
  /\ ~closed /\ c \in handles => channels[c] = "open"
  /\ ~closed /\ rtc[c] \in {"none", "closed"} =>
       /\ channels[c] = "none"
       /\ c \notin pending_outbound /\ c \notin handles /\ c \notin handles_pending
       /\ c \notin opening_timed_out /\ c \notin recv_buffers
       /\ pending_messages[c] = 0
  /\ c \in pending_outbound =>
       /\ channels[c] \in {"none", "closing"}
       /\ c \notin handles /\ c \notin handles_pending
       /\ pending_messages[c] = 0
  /\ c \in pending_outbound \/ channels[c] = "outbound_opening" => c \in requested
  /\ c \in requested => rtc[c] # "none"
  /\ answers[c] = IF /\ c \in requested /\ c \notin pending_outbound
                     /\ channels[c] # "outbound_opening"
                    THEN 1 ELSE 0

AllAgree == \A c \in ChannelId : ChannelAgrees(c)

(* The invariant says nothing else, besides the types. *)
LEMMA ChannelsAgree == Connection!Inv <=> Connection!TypeOK /\ AllAgree
<1>1. ASSUME Connection!Inv, NEW c \in ChannelId PROVE ChannelAgrees(c)
  BY <1>1, Zenon DEF Connection!Inv, Connection!PendingMatches, Connection!HandleIsOpen,
    Connection!Forgotten, Connection!WaitsOnly, Connection!Accounted, Connection!AllOpening,
    ChannelAgrees
<1>2. ASSUME Connection!TypeOK, \A c \in ChannelId : ChannelAgrees(c) PROVE Connection!Inv
  <2>1. pending_outbound \subseteq ChannelId /\ handles \subseteq ChannelId
          /\ requested \subseteq ChannelId
    BY <1>2, Zenon DEF Connection!TypeOK
  <2>2. Connection!PendingMatches /\ Connection!HandleIsOpen
    BY <1>2, <2>1, Zenon DEF ChannelAgrees, Connection!PendingMatches, Connection!HandleIsOpen
  <2>3. Connection!Forgotten /\ Connection!WaitsOnly
    BY <1>2, <2>1, Zenon DEF ChannelAgrees, Connection!Forgotten, Connection!WaitsOnly
  <2>4. Connection!Accounted
    BY <1>2, <2>1, Zenon DEF ChannelAgrees, Connection!Accounted, Connection!AllOpening
  <2> QED BY <1>2, <2>2, <2>3, <2>4, Zenon DEF Connection!Inv
<1> QED BY <1>1, <1>2, Zenon DEF Connection!Inv, AllAgree

(* ... also after a step. *)
LEMMA ChannelsAgreeNext == Connection!Inv' <=> Connection!TypeOK' /\ AllAgree'
BY ChannelsAgree, PTL

(* A step does not touch the channel c. *)
Untouched(c) ==
  /\ closed' = closed
  /\ rtc'[c] = rtc[c] /\ channels'[c] = channels[c]
  /\ pending_messages'[c] = pending_messages[c] /\ answers'[c] = answers[c]
  /\ c \in handles' <=> c \in handles
  /\ c \in handles_pending' <=> c \in handles_pending
  /\ c \in pending_outbound' <=> c \in pending_outbound
  /\ c \in opening_timed_out' <=> c \in opening_timed_out
  /\ c \in recv_buffers' <=> c \in recv_buffers
  /\ c \in requested' <=> c \in requested

(* A step of one channel keeps the invariant of the others. *)
LEMMA OneChannel ==
  ASSUME Connection!Inv, NEW c \in ChannelId, \A d \in ChannelId : d # c => Untouched(d),
         Connection!TypeOK', ChannelAgrees(c)'
  PROVE  Connection!Inv'
<1>1. ASSUME NEW d \in ChannelId, d # c PROVE ChannelAgrees(d)'
  <2>1. ChannelAgrees(d) /\ Untouched(d)
    BY <1>1, ChannelsAgree, Zenon DEF AllAgree
  <2> QED BY <2>1, Zenon DEF ChannelAgrees, Untouched
<1> QED BY <1>1, ChannelsAgreeNext, Zenon DEF AllAgree

(* The types, set by set. *)
LEMMA ConnectionTypes ==
  Connection!TypeOK <=>
    /\ rtc \in [ChannelId -> {"none", "created", "open", "closing", "closed"}]
    /\ channels
         \in [ChannelId -> {"inbound_opening", "outbound_opening", "none", "open", "closing"}]
    /\ pending_messages \in [ChannelId -> 0 .. MaxPendingPerChannel]
    /\ pending_outbound \subseteq ChannelId /\ handles \subseteq ChannelId
    /\ handles_pending \subseteq ChannelId /\ opening_deadlines \subseteq ChannelId
    /\ opening_timed_out \subseteq ChannelId /\ recv_buffers \subseteq ChannelId
    /\ requested \subseteq ChannelId
    /\ closed \in BOOLEAN
    /\ answers \in [ChannelId -> Nat]
BY Zenon DEF Connection!TypeOK, Connection!Opening

(* The maps of a connection agree about each channel, and a substream that *)
(* a protocol has asked for is still being opened or has been answered     *)
(* once (webrtc/connection.rs), for any channels and any limit of pending  *)
(* messages.                                                               *)
THEOREM ConnectionSafety == Connection!Spec => []WebRtcConnectionInv
<1> USE PendingBound
<1>1. Connection!Init => Connection!Inv
  <2> SUFFICES ASSUME Connection!Init PROVE Connection!Inv
    OBVIOUS
  <2>1. Connection!TypeOK
    <3>1. 0 \in 0 .. MaxPendingPerChannel /\ 0 \in Nat
      OBVIOUS
    <3>2. /\ pending_messages \in [ChannelId -> 0 .. MaxPendingPerChannel]
          /\ answers \in [ChannelId -> Nat]
      BY <3>1, Zenon DEF Connection!Init
    <3> QED BY <3>2, ConnectionTypes, Zenon DEF Connection!Init
  <2>2. ASSUME NEW c \in ChannelId PROVE ChannelAgrees(c)
    BY <2>2, Zenon DEF Connection!Init, ChannelAgrees, Connection!Opening
  <2> QED BY <2>1, <2>2, ChannelsAgree, Zenon DEF AllAgree
<1>2. ASSUME Connection!Inv, [Connection!Next]_(Connection!vars) PROVE Connection!Inv'
  <2> USE <1>2
  <2>t. Connection!TypeOK
    BY Zenon DEF Connection!Inv
  <2>1. ASSUME NEW c \in ChannelId, Connection!OpenSubstream(c) PROVE Connection!Inv'
    <3>1. Connection!TypeOK'
      BY <2>t, <2>1, ConnectionTypes
        DEF Connection!OpenSubstream, Connection!TypeOK, Connection!Opening
    <3>2. ASSUME NEW d \in ChannelId, d # c PROVE Untouched(d)
      BY <2>t, <2>1, <3>2, Zenon DEF Untouched, Connection!OpenSubstream, Connection!TypeOK
    <3>3. ChannelAgrees(c)
      BY ChannelsAgree, Zenon DEF AllAgree
    <3>4. ChannelAgrees(c)'
      BY <2>t, <2>1, <3>3, Zenon
        DEF ChannelAgrees, Connection!OpenSubstream, Connection!TypeOK, Connection!Opening
    <3> QED BY <3>1, <3>2, <3>4, OneChannel, Zenon
  <2>2. ASSUME NEW c \in ChannelId, Connection!InboundOpened(c) PROVE Connection!Inv'
    <3>1. Connection!TypeOK'
      BY <2>t, <2>2, ConnectionTypes
        DEF Connection!InboundOpened, Connection!TypeOK, Connection!Opening
    <3>2. ASSUME NEW d \in ChannelId, d # c PROVE Untouched(d)
      BY <2>t, <2>2, <3>2, Zenon DEF Untouched, Connection!InboundOpened, Connection!TypeOK
    <3>3. ChannelAgrees(c)
      BY ChannelsAgree, Zenon DEF AllAgree
    <3>4. ChannelAgrees(c)'
      BY <2>t, <2>2, <3>3
        DEF ChannelAgrees, Connection!InboundOpened, Connection!TypeOK, Connection!Opening
    <3> QED BY <3>1, <3>2, <3>4, OneChannel, Zenon
  <2>3. ASSUME NEW c \in ChannelId, Connection!OutboundOpened(c) PROVE Connection!Inv'
    <3>1. Connection!TypeOK'
      BY <2>t, <2>3, ConnectionTypes
        DEF Connection!OutboundOpened, Connection!Outcomes, Connection!Queues,
          Connection!Answers, Connection!CloseDataChannel, Connection!TypeOK, Connection!Opening
    <3>2. ASSUME NEW d \in ChannelId, d # c PROVE Untouched(d)
      BY <2>t, <2>3, <3>2
        DEF Untouched, Connection!OutboundOpened, Connection!Outcomes, Connection!Queues,
          Connection!Answers, Connection!CloseDataChannel, Connection!TypeOK
    <3>3. ChannelAgrees(c)
      BY ChannelsAgree, Zenon DEF AllAgree
    <3>4. ChannelAgrees(c)'
      BY <2>t, <2>3, <3>3
        DEF ChannelAgrees, Connection!OutboundOpened, Connection!Outcomes, Connection!Queues,
          Connection!Answers, Connection!CloseDataChannel, Connection!TypeOK, Connection!Opening
    <3> QED BY <3>1, <3>2, <3>4, OneChannel, Zenon
  <2>4. ASSUME NEW c \in ChannelId, Connection!RemoteCloses(c) PROVE Connection!Inv'
    <3>1. Connection!TypeOK'
      BY <2>t, <2>4, ConnectionTypes, Zenon
        DEF Connection!RemoteCloses, Connection!CloseDataChannel, Connection!TypeOK,
          Connection!Opening
    <3>2. ASSUME NEW d \in ChannelId, d # c PROVE Untouched(d)
      BY <2>t, <2>4, <3>2, Zenon
        DEF Untouched, Connection!RemoteCloses, Connection!CloseDataChannel, Connection!TypeOK
    <3>3. ChannelAgrees(c)
      BY ChannelsAgree, Zenon DEF AllAgree
    <3>4. ChannelAgrees(c)'
      BY <2>t, <2>4, <3>3, Zenon
        DEF ChannelAgrees, Connection!RemoteCloses, Connection!CloseDataChannel,
          Connection!TypeOK, Connection!Opening
    <3> QED BY <3>1, <3>2, <3>4, OneChannel, Zenon
  <2>5. ASSUME NEW c \in ChannelId, Connection!ChannelClosed(c) PROVE Connection!Inv'
    <3>1. Connection!TypeOK'
      BY <2>t, <2>5, ConnectionTypes
        DEF Connection!ChannelClosed, Connection!Answers, Connection!ClosedUnanswered,
          Connection!ForgetMessages, Connection!RemoveHandle, Connection!TypeOK,
          Connection!Opening
    <3>2. ASSUME NEW d \in ChannelId, d # c PROVE Untouched(d)
      BY <2>t, <2>5, <3>2, Zenon
        DEF Untouched, Connection!ChannelClosed, Connection!Answers,
          Connection!ClosedUnanswered, Connection!ForgetMessages, Connection!RemoveHandle,
          Connection!TypeOK
    <3>3. ChannelAgrees(c)
      BY ChannelsAgree, Zenon DEF AllAgree
    <3>4. ChannelAgrees(c)'
      BY <2>t, <2>5, <3>3
        DEF ChannelAgrees, Connection!ChannelClosed, Connection!Answers,
          Connection!ClosedUnanswered, Connection!ForgetMessages, Connection!RemoveHandle,
          Connection!TypeOK, Connection!Opening
    <3> QED BY <3>1, <3>2, <3>4, OneChannel, Zenon
  <2>6. ASSUME NEW c \in ChannelId, Connection!PartialData(c) PROVE Connection!Inv'
    <3>1. Connection!TypeOK'
      BY <2>t, <2>6, ConnectionTypes
        DEF Connection!PartialData, Connection!Data, Connection!TypeOK, Connection!Opening
    <3>2. ASSUME NEW d \in ChannelId, d # c PROVE Untouched(d)
      BY <2>t, <2>6, <3>2, Zenon
        DEF Untouched, Connection!PartialData, Connection!Data, Connection!TypeOK
    <3>3. ChannelAgrees(c)
      BY ChannelsAgree, Zenon DEF AllAgree
    <3>4. ChannelAgrees(c)'
      BY <2>t, <2>6, <3>3, Zenon
        DEF ChannelAgrees, Connection!PartialData, Connection!Data, Connection!TypeOK,
          Connection!Opening
    <3> QED BY <3>1, <3>2, <3>4, OneChannel, Zenon
  <2>7. ASSUME NEW c \in ChannelId, Connection!ClosingData(c) PROVE Connection!Inv'
    <3>1. Connection!TypeOK'
      BY <2>t, <2>7, ConnectionTypes
        DEF Connection!ClosingData, Connection!TypeOK, Connection!Opening
    <3>2. ASSUME NEW d \in ChannelId, d # c PROVE Untouched(d)
      BY <2>t, <2>7, <3>2, Zenon DEF Untouched, Connection!ClosingData, Connection!TypeOK
    <3>3. ChannelAgrees(c)
      BY ChannelsAgree, Zenon DEF AllAgree
    <3>4. ChannelAgrees(c)'
      BY <2>t, <2>7, <3>3, Zenon
        DEF ChannelAgrees, Connection!ClosingData, Connection!TypeOK, Connection!Opening
    <3> QED BY <3>1, <3>2, <3>4, OneChannel, Zenon
  <2>8. ASSUME NEW c \in ChannelId, Connection!FailedData(c) PROVE Connection!Inv'
    <3>1. Connection!TypeOK'
      BY <2>t, <2>8, ConnectionTypes
        DEF Connection!FailedData, Connection!Data, Connection!RemoveHandle, Connection!Fails,
          Connection!Answers, Connection!CloseDataChannel, Connection!TypeOK, Connection!Opening
    <3>2. ASSUME NEW d \in ChannelId, d # c PROVE Untouched(d)
      BY <2>t, <2>8, <3>2, Zenon
        DEF Untouched, Connection!FailedData, Connection!Data, Connection!RemoveHandle,
          Connection!Fails, Connection!Answers, Connection!CloseDataChannel, Connection!TypeOK
    <3>3. ChannelAgrees(c)
      BY ChannelsAgree, Zenon DEF AllAgree
    <3>4. ChannelAgrees(c)'
      BY <2>t, <2>8, <3>3
        DEF ChannelAgrees, Connection!FailedData, Connection!Data, Connection!RemoveHandle,
          Connection!Fails, Connection!Answers, Connection!CloseDataChannel, Connection!TypeOK,
          Connection!Opening
    <3> QED BY <3>1, <3>2, <3>4, OneChannel, Zenon
  <2>9. ASSUME NEW c \in ChannelId, Connection!FailedNegotiation(c) PROVE Connection!Inv'
    <3>1. Connection!TypeOK'
      BY <2>t, <2>9, ConnectionTypes
        DEF Connection!FailedNegotiation, Connection!Data, Connection!Outcomes,
          Connection!Queues, Connection!Fails, Connection!Answers, Connection!CloseDataChannel,
          Connection!TypeOK, Connection!Opening
    <3>2. ASSUME NEW d \in ChannelId, d # c PROVE Untouched(d)
      BY <2>t, <2>9, <3>2, Zenon
        DEF Untouched, Connection!FailedNegotiation, Connection!Data, Connection!Outcomes,
          Connection!Queues, Connection!Fails, Connection!Answers, Connection!CloseDataChannel,
          Connection!TypeOK
    <3>3. ChannelAgrees(c)
      BY ChannelsAgree, Zenon DEF AllAgree
    <3>4. ChannelAgrees(c)'
      BY <2>t, <2>9, <3>3
        DEF ChannelAgrees, Connection!FailedNegotiation, Connection!Data, Connection!Outcomes,
          Connection!Queues, Connection!Fails, Connection!Answers, Connection!CloseDataChannel,
          Connection!TypeOK, Connection!Opening
    <3> QED BY <3>1, <3>2, <3>4, OneChannel, Zenon
  <2>10. ASSUME NEW c \in ChannelId, Connection!InboundNegotiates(c) PROVE Connection!Inv'
    <3>1. Connection!TypeOK'
      BY <2>t, <2>10, ConnectionTypes
        DEF Connection!InboundNegotiates, Connection!Data, Connection!Outcomes,
          Connection!Queues, Connection!TypeOK, Connection!Opening
    <3>2. ASSUME NEW d \in ChannelId, d # c PROVE Untouched(d)
      BY <2>t, <2>10, <3>2, Zenon
        DEF Untouched, Connection!InboundNegotiates, Connection!Data, Connection!Outcomes,
          Connection!Queues, Connection!TypeOK
    <3>3. ChannelAgrees(c)
      BY ChannelsAgree, Zenon DEF AllAgree
    <3>4. ChannelAgrees(c)'
      BY <2>t, <2>10, <3>3
        DEF ChannelAgrees, Connection!InboundNegotiates, Connection!Data, Connection!Outcomes,
          Connection!Queues, Connection!TypeOK, Connection!Opening
    <3> QED BY <3>1, <3>2, <3>4, OneChannel, Zenon
  <2>11. ASSUME NEW c \in ChannelId, Connection!OutboundConfirmed(c) PROVE Connection!Inv'
    <3>1. Connection!TypeOK'
      BY <2>t, <2>11, ConnectionTypes
        DEF Connection!OutboundConfirmed, Connection!Data, Connection!Answers,
          Connection!TypeOK, Connection!Opening
    <3>2. ASSUME NEW d \in ChannelId, d # c PROVE Untouched(d)
      BY <2>t, <2>11, <3>2, Zenon
        DEF Untouched, Connection!OutboundConfirmed, Connection!Data, Connection!Answers,
          Connection!TypeOK
    <3>3. ChannelAgrees(c)
      BY ChannelsAgree, Zenon DEF AllAgree
    <3>4. ChannelAgrees(c)'
      BY <2>t, <2>11, <3>3
        DEF ChannelAgrees, Connection!OutboundConfirmed, Connection!Data, Connection!Answers,
          Connection!TypeOK, Connection!Opening
    <3> QED BY <3>1, <3>2, <3>4, OneChannel, Zenon
  <2>12. ASSUME NEW c \in ChannelId, Connection!OutboundNegotiates(c) PROVE Connection!Inv'
    <3>1. Connection!TypeOK'
      BY <2>t, <2>12, ConnectionTypes
        DEF Connection!OutboundNegotiates, Connection!Data, Connection!Outcomes,
          Connection!Queues, Connection!TypeOK, Connection!Opening
    <3>2. ASSUME NEW d \in ChannelId, d # c PROVE Untouched(d)
      BY <2>t, <2>12, <3>2, Zenon
        DEF Untouched, Connection!OutboundNegotiates, Connection!Data, Connection!Outcomes,
          Connection!Queues, Connection!TypeOK
    <3>3. ChannelAgrees(c)
      BY ChannelsAgree, Zenon DEF AllAgree
    <3>4. ChannelAgrees(c)'
      BY <2>t, <2>12, <3>3
        DEF ChannelAgrees, Connection!OutboundNegotiates, Connection!Data, Connection!Outcomes,
          Connection!Queues, Connection!TypeOK, Connection!Opening
    <3> QED BY <3>1, <3>2, <3>4, OneChannel, Zenon
  <2>13. ASSUME NEW c \in ChannelId, Connection!HandleMessage(c) PROVE Connection!Inv'
    <3>1. Connection!TypeOK'
      BY <2>t, <2>13, ConnectionTypes
        DEF Connection!HandleMessage, Connection!Outcomes, Connection!Queues,
          Connection!CloseDataChannel, Connection!RemoveHandle, Connection!TypeOK,
          Connection!Opening
    <3>2. ASSUME NEW d \in ChannelId, d # c PROVE Untouched(d)
      BY <2>t, <2>13, <3>2
        DEF Untouched, Connection!HandleMessage, Connection!Outcomes, Connection!Queues,
          Connection!CloseDataChannel, Connection!RemoveHandle, Connection!TypeOK
    <3>3. ChannelAgrees(c)
      BY ChannelsAgree, Zenon DEF AllAgree
    <3>4. ChannelAgrees(c)'
      BY <2>t, <2>13, <3>3
        DEF ChannelAgrees, Connection!HandleMessage, Connection!Outcomes, Connection!Queues,
          Connection!CloseDataChannel, Connection!RemoveHandle, Connection!TypeOK,
          Connection!Opening
    <3> QED BY <3>1, <3>2, <3>4, OneChannel, Zenon
  <2>14. ASSUME NEW c \in ChannelId, Connection!DeadlineExpires(c) PROVE Connection!Inv'
    <3>1. Connection!TypeOK'
      BY <2>t, <2>14, ConnectionTypes
        DEF Connection!DeadlineExpires, Connection!StillOpening, Connection!TimedOut,
          Connection!Answers, Connection!CloseDataChannel, Connection!TypeOK, Connection!Opening
    <3>2. ASSUME NEW d \in ChannelId, d # c PROVE Untouched(d)
      BY <2>t, <2>14, <3>2, Zenon
        DEF Untouched, Connection!DeadlineExpires, Connection!StillOpening, Connection!TimedOut,
          Connection!Answers, Connection!CloseDataChannel, Connection!TypeOK
    <3>3. ChannelAgrees(c)
      BY ChannelsAgree, Zenon DEF AllAgree
    <3>4. ChannelAgrees(c)'
      BY <2>t, <2>14, <3>3
        DEF ChannelAgrees, Connection!DeadlineExpires, Connection!StillOpening,
          Connection!TimedOut, Connection!Answers, Connection!CloseDataChannel,
          Connection!TypeOK, Connection!Opening
    <3> QED BY <3>1, <3>2, <3>4, OneChannel, Zenon
  <2>15. CASE Connection!BufferedAmountLow
    <3> DEFINE waiting == {c \in ChannelId : pending_messages[c] > 0}
    <3>1. PICK failing \in SUBSET waiting, n \in [waiting -> 0 .. MaxPendingPerChannel] :
            /\ \A c \in waiting : n[c] <= IF c \in failing THEN 0 ELSE pending_messages[c]
            /\ pending_messages' = [c \in ChannelId |-> IF c \in waiting THEN n[c] ELSE 0]
            /\ handles_pending' = handles_pending \ {c \in waiting : n[c] = 0}
            /\ Connection!Answers({c \in failing : channels[c] = "outbound_opening"})
            /\ rtc' = [c \in ChannelId |-> IF c \in failing THEN "closing" ELSE rtc[c]]
            /\ channels' = [c \in ChannelId |-> IF c \in failing THEN "closing" ELSE channels[c]]
            /\ handles' = handles \ failing
      BY <2>15, Zenon DEF Connection!BufferedAmountLow
    <3>2. /\ ~closed
          /\ UNCHANGED <<pending_outbound, opening_deadlines, opening_timed_out, recv_buffers, closed,
                         requested>>
      BY <2>15, Zenon DEF Connection!BufferedAmountLow
    <3>3. Connection!TypeOK'
      BY <2>t, <3>1, <3>2, ConnectionTypes
        DEF Connection!TypeOK, Connection!Opening, Connection!Answers
    <3>4. ASSUME NEW c \in ChannelId PROVE ChannelAgrees(c)'
      <4>1. ChannelAgrees(c)
        BY ChannelsAgree, Zenon DEF AllAgree
      <4> QED BY <2>t, <3>1, <3>2, <4>1
        DEF ChannelAgrees, Connection!Answers, Connection!TypeOK,
        Connection!Opening
    <3> QED BY <3>3, <3>4, ChannelsAgreeNext, Zenon DEF AllAgree
  <2>16. CASE Connection!ConnectionClosed
    <3>1. Connection!TypeOK'
      BY <2>t, <2>16, ConnectionTypes DEF Connection!ConnectionClosed, Connection!Answers,
        Connection!TypeOK, Connection!Opening
    <3>2. ASSUME NEW c \in ChannelId PROVE ChannelAgrees(c)'
      <4>1. ChannelAgrees(c)
        BY ChannelsAgree, Zenon DEF AllAgree
      <4> QED BY <2>t, <2>16, <4>1
        DEF ChannelAgrees, Connection!ConnectionClosed, Connection!Answers,
        Connection!AllOpening, Connection!TypeOK, Connection!Opening
    <3> QED BY <3>1, <3>2, ChannelsAgreeNext, Zenon DEF AllAgree
  <2>17. CASE UNCHANGED Connection!vars
    <3>1. Connection!TypeOK' /\ \A c \in ChannelId : Untouched(c)
      BY <2>t, <2>17, Zenon DEF Connection!vars, Connection!TypeOK, Untouched
    <3>2. ASSUME NEW c \in ChannelId PROVE ChannelAgrees(c)'
      <4>1. ChannelAgrees(c)
        BY ChannelsAgree, Zenon DEF AllAgree
      <4> QED BY <3>1, <4>1, Zenon DEF ChannelAgrees, Untouched
    <3> QED BY <3>1, <3>2, ChannelsAgreeNext, Zenon DEF AllAgree
  <2> QED BY <2>1, <2>2, <2>3, <2>4, <2>5, <2>6, <2>7, <2>8, <2>9, <2>10, <2>11, <2>12, <2>13,
     <2>14, <2>15, <2>16, <2>17, Zenon
    DEF Connection!Next
<1>3. QED
  BY <1>1, <1>2, PTL DEF Connection!Spec, WebRtcConnectionInv

-----------------------------------------------------------------------------
(* WebRtcTransport *)

USE DEF Transport!NoOpening

(* Polling a connection that is opening keeps the maps consistent. *)
LEMMA TransportPoll ==
  ASSUME Transport!Inv, NEW a \in Addrs, NEW id \in Transport!Ids, NEW state \in Transport!States,
         \/ opening[a].id = id /\ opening[a].state = state
         \/ opening[a].id = 0 /\ state = "closed",
         open[a] = 0, Transport!PollConnection(a, id, state)
  PROVE  /\ opening' \in [Addrs -> [id : Nat, state : Transport!States]]
         /\ connections' \subseteq Transport!Ids \X Addrs
         /\ timeouts' \subseteq Addrs
         /\ pending_events' \in Seq(Transport!Ids)
         /\ Transport!AcceptReady' /\ Transport!OpeningTimed'
         /\ UNCHANGED open => Transport!OpeningOrOpen'
<1>1. PICK p \in Transport!Processed(state) :
    \/ /\ p[2] = "timeout"
       /\ opening' = [opening EXCEPT ![a] = [id |-> id, state |-> p[1]]]
       /\ timeouts' = timeouts \cup {a}
       /\ UNCHANGED <<connections, pending_events>>
    \/ /\ p[2] = "established"
       /\ opening' = [opening EXCEPT ![a] = [id |-> id, state |-> p[1]]]
       /\ connections' = connections \cup {<<id, a>>}
       /\ pending_events' = Append(pending_events, id)
       /\ timeouts' = timeouts \cup {a}
    \/ /\ p[2] = "closed"
       /\ Transport!Closes(a, id)
       /\ timeouts' = timeouts \ {a}
  BY Zenon DEF Transport!PollConnection
<1>2. /\ p[1] \in Transport!States
      /\ p[2] = "timeout" /\ state = "validating" => p[1] = "validating"
      /\ p[2] = "established" => p[1] = "validating" /\ state = "handshake_sent"
  BY DEF Transport!Processed, Transport!States
<1>3. /\ opening \in [Addrs -> [id : Nat, state : Transport!States]]
      /\ connections \subseteq Transport!Ids \X Addrs /\ timeouts \subseteq Addrs
      /\ pending_events \in Seq(Transport!Ids)
      /\ Transport!AcceptReady /\ Transport!OpeningTimed /\ Transport!OpeningOrOpen
  BY Zenon DEF Transport!Inv, Transport!TypeOK
<1>a. ASSUME NEW c \in connections
      PROVE  /\ c[1] \in Transport!Ids /\ c[2] \in Addrs /\ c = <<c[1], c[2]>>
             /\ opening[c[2]].id = c[1] /\ opening[c[2]].state = "validating"
  <2>1. c \in Transport!Ids \X Addrs /\ opening[c[2]] = [id |-> c[1], state |-> "validating"]
    BY <1>3, <1>a, Zenon DEF Transport!AcceptReady
  <2> QED BY <2>1
<1>4. CASE p[2] = "timeout"
  <2>1. /\ opening' = [opening EXCEPT ![a] = [id |-> id, state |-> p[1]]]
        /\ timeouts' = timeouts \cup {a}
        /\ UNCHANGED <<connections, pending_events>>
    BY <1>1, <1>4, Zenon
  <2>2. \A c \in connections : c[2] = a => c[1] = id /\ p[1] = "validating"
    BY <1>2, <1>4, <1>a DEF Transport!Ids
  <2>3. Transport!AcceptReady'
    <3>1. SUFFICES ASSUME NEW c \in connections
                   PROVE  opening'[c[2]] = [id |-> c[1], state |-> "validating"]
      BY <2>1, Zenon DEF Transport!AcceptReady
    <3>2. c[2] \in Addrs /\ opening[c[2]] = [id |-> c[1], state |-> "validating"]
      BY <1>3, Zenon DEF Transport!AcceptReady
    <3> QED BY <1>3, <2>1, <2>2, <3>1, <3>2, Zenon
  <2>4. Transport!OpeningTimed' /\ (UNCHANGED open => Transport!OpeningOrOpen')
    BY <1>3, <2>1, Zenon DEF Transport!OpeningTimed, Transport!OpeningOrOpen
  <2>5. opening' \in [Addrs -> [id : Nat, state : Transport!States]] /\ timeouts' \subseteq Addrs
    BY <1>2, <1>3, <2>1, Zenon DEF Transport!Ids
  <2> QED BY <1>3, <2>1, <2>3, <2>4, <2>5, Zenon
<1>5. CASE p[2] = "established"
  <2>1. /\ opening' = [opening EXCEPT ![a] = [id |-> id, state |-> "validating"]]
        /\ connections' = connections \cup {<<id, a>>}
        /\ pending_events' = Append(pending_events, id)
        /\ timeouts' = timeouts \cup {a}
    BY <1>1, <1>2, <1>5, Zenon
  <2>2. \A c \in connections : c[2] # a
    BY <1>2, <1>5, <1>a, Zenon DEF Transport!Ids
  <2>3. Transport!AcceptReady'
    <3>1. SUFFICES ASSUME NEW c \in connections'
                   PROVE  opening'[c[2]] = [id |-> c[1], state |-> "validating"]
      BY Zenon DEF Transport!AcceptReady
    <3>2. CASE c = <<id, a>>
      BY <1>3, <2>1, <3>1, <3>2, Zenon
    <3>3. CASE c \in connections
      <4>1. c[2] \in Addrs /\ opening[c[2]] = [id |-> c[1], state |-> "validating"]
        BY <1>3, <3>3, Zenon DEF Transport!AcceptReady
      <4> QED BY <1>3, <2>1, <2>2, <4>1, <3>1, <3>3, Zenon
    <3> QED BY <2>1, <3>1, <3>2, <3>3, Zenon
  <2>4. Transport!OpeningTimed' /\ (UNCHANGED open => Transport!OpeningOrOpen')
    BY <1>3, <2>1, Zenon DEF Transport!OpeningTimed, Transport!OpeningOrOpen
  <2>5. opening' \in [Addrs -> [id : Nat, state : Transport!States]] /\ timeouts' \subseteq Addrs
    BY <1>3, <2>1, Zenon DEF Transport!Ids, Transport!States
  <2>6. connections' \subseteq Transport!Ids \X Addrs
    BY <1>3, <2>1
  <2>7. pending_events' \in Seq(Transport!Ids)
    BY <1>3, <2>1
  <2> QED BY <2>3, <2>4, <2>5, <2>6, <2>7, Zenon
<1>6. CASE p[2] = "closed"
  <2>1. /\ opening' = [opening EXCEPT ![a] = [id |-> 0, state |-> "none"]]
        /\ connections' = connections \ {<<id, a>>}
        /\ pending_events' = pending_events
        /\ timeouts' = timeouts \ {a}
    BY <1>1, <1>6, Zenon DEF Transport!Closes
  <2>2. \A c \in connections : c[2] = a => c = <<id, a>>
    BY <1>a, Zenon DEF Transport!Ids
  <2>3. Transport!AcceptReady'
    <3>1. SUFFICES ASSUME NEW c \in connections'
                   PROVE  opening'[c[2]] = [id |-> c[1], state |-> "validating"]
      BY Zenon DEF Transport!AcceptReady
    <3>2. CASE c = <<id, a>>
      BY <1>3, <2>1, <3>1, <3>2, Zenon
    <3>3. CASE c \in connections
      <4>1. c[2] \in Addrs /\ opening[c[2]] = [id |-> c[1], state |-> "validating"]
        BY <1>3, <3>3, Zenon DEF Transport!AcceptReady
      <4> QED BY <1>3, <2>1, <2>2, <4>1, <3>1, <3>3, Zenon
    <3> QED BY <2>1, <3>1, <3>2, <3>3, Zenon
  <2>4. Transport!OpeningTimed' /\ (UNCHANGED open => Transport!OpeningOrOpen')
    BY <1>3, <2>1, Zenon DEF Transport!OpeningTimed, Transport!OpeningOrOpen
  <2>5. opening' \in [Addrs -> [id : Nat, state : Transport!States]] /\ timeouts' \subseteq Addrs
    BY <1>3, <2>1, Zenon DEF Transport!Ids, Transport!States
  <2>6. connections' \subseteq Transport!Ids \X Addrs
    BY <1>3, <2>1, Zenon
  <2>7. pending_events' \in Seq(Transport!Ids)
    BY <1>3, <2>1, Zenon
  <2> QED BY <2>3, <2>4, <2>5, <2>6, <2>7, Zenon
<1> QED BY <1>1, <1>4, <1>5, <1>6, Zenon

(* A live connection is found under its address, an address leads to one   *)
(* connection, and an opening connection has a timer and is still there    *)
(* when it is accepted (webrtc/mod.rs), for any addresses.                 *)
THEOREM TransportSafety == Transport!Spec => []WebRtcTransportInv
<1>1. Transport!Init => Transport!Inv
  BY
    DEF Transport!Init, Transport!Inv, Transport!TypeOK, Transport!AcceptReady,
      Transport!OpeningTimed,
    Transport!OpeningOrOpen, Transport!LiveIsRouted, Transport!Ids, Transport!States
<1>2. ASSUME Transport!Inv, [Transport!Next]_(Transport!vars) PROVE Transport!Inv'
  <2> USE <1>2
  <2>1. /\ Transport!TypeOK /\ Transport!AcceptReady /\ Transport!OpeningTimed
        /\ Transport!OpeningOrOpen /\ Transport!LiveIsRouted
    BY Zenon DEF Transport!Inv
  <2>2. ASSUME NEW c \in live
        PROVE  c[1] \in Addrs /\ c[2] \in Transport!Ids /\ c = <<c[1], c[2]>> /\ open[c[1]] = c[2]
    BY <2>1, <2>2 DEF Transport!TypeOK, Transport!LiveIsRouted
  <2>3. CASE Transport!Deliver
    <3>1. Head(pending_events) \in Transport!Ids /\ Tail(pending_events) \in Seq(Transport!Ids)
      BY <2>1, <2>3 DEF Transport!TypeOK, Transport!Deliver
    <3>2. Transport!TypeOK'
      BY <2>1, <2>3, <3>1, Zenon DEF Transport!TypeOK, Transport!Deliver
    <3> QED BY <2>1, <2>3, <3>2, Zenon
      DEF Transport!Deliver, Transport!Inv, Transport!AcceptReady,
      Transport!OpeningTimed, Transport!OpeningOrOpen, Transport!LiveIsRouted
  <2>4. CASE Transport!PollStart
    <3>1. /\ closed_connections' \subseteq closed_connections
          /\ open'
               = [a \in Addrs |-> IF <<a, open[a]>> \in closed_connections \ live THEN 0 ELSE open[a]]
          /\ phase' = "sockets"
      BY <2>4, Zenon DEF Transport!PollStart, Transport!Watched
    <3>2. UNCHANGED <<opening, connections, timeouts, pending_events, expired, next_id, reported, live>>
      BY <2>4, Zenon DEF Transport!PollStart
    <3>3. Transport!TypeOK'
      BY <2>1, <3>1, <3>2, Zenon DEF Transport!TypeOK
    <3>4. Transport!LiveIsRouted'
      BY <2>2, <3>1, <3>2, Zenon DEF Transport!LiveIsRouted
    <3>5. Transport!OpeningOrOpen'
      BY <2>1, <3>1, <3>2, Zenon DEF Transport!OpeningOrOpen
    <3> QED BY <2>1, <3>2, <3>3, <3>4, <3>5, Zenon DEF Transport!Inv, Transport!AcceptReady,
      Transport!OpeningTimed
  <2>5. CASE Transport!PollTimeouts
    <3>1. /\ phase' = "timers" /\ expired' \subseteq timeouts
          /\ UNCHANGED <<opening, connections, open, closed_connections, timeouts, pending_events,
                         next_id, reported, live>>
      BY <2>5, Zenon DEF Transport!PollTimeouts
    <3>2. Transport!TypeOK'
      BY <2>1, <3>1, Zenon DEF Transport!TypeOK
    <3> QED BY <2>1, <3>1, <3>2, Zenon DEF Transport!Inv, Transport!AcceptReady,
      Transport!OpeningTimed, Transport!OpeningOrOpen, Transport!LiveIsRouted
  <2>6. CASE Transport!PollEnd
    <3>1. /\ phase' = "idle" /\ timeouts' = {a \in timeouts : opening[a].id # 0}
          /\ UNCHANGED <<opening, connections, open, closed_connections, pending_events, expired,
                         next_id, reported, live>>
      BY <2>6, Zenon DEF Transport!PollEnd
    <3>2. Transport!TypeOK'
      BY <2>1, <3>1, Zenon DEF Transport!TypeOK
    <3> QED BY <2>1, <3>1, <3>2, Zenon DEF Transport!Inv, Transport!AcceptReady,
      Transport!OpeningTimed, Transport!OpeningOrOpen, Transport!LiveIsRouted
  <2>7. ASSUME NEW a \in Addrs, Transport!OpenDatagram(a) PROVE Transport!Inv'
    <3>1. /\ open' = [open EXCEPT ![a] = 0] /\ <<a, open[a]>> \notin live
          /\ UNCHANGED <<opening, connections, closed_connections, timeouts, pending_events, phase,
                         expired, next_id, reported, live>>
      BY <2>7, Zenon DEF Transport!OpenDatagram
    <3>2. Transport!TypeOK'
      BY <2>1, <3>1, Zenon DEF Transport!TypeOK
    <3>3. Transport!LiveIsRouted'
      <4>1. ASSUME NEW c \in live PROVE c[1] # a
        BY <2>2, <3>1, <4>1, Zenon
      <4>2. open \in [Addrs -> Nat]
        BY <2>1, Zenon DEF Transport!TypeOK
      <4> QED BY <2>2, <3>1, <4>1, <4>2, Zenon DEF Transport!LiveIsRouted
    <3>4. Transport!OpeningOrOpen'
      BY <2>1, <3>1, Zenon DEF Transport!OpeningOrOpen, Transport!TypeOK
    <3> QED BY <2>1, <3>1, <3>2, <3>3, <3>4, Zenon DEF Transport!Inv, Transport!AcceptReady,
      Transport!OpeningTimed
  <2>8. ASSUME NEW a \in Addrs, NEW id \in Transport!Ids, NEW state \in Transport!States,
               \/ opening[a].id = id /\ opening[a].state = state
               \/ opening[a].id = 0 /\ state = "closed",
               open[a] = 0, Transport!PollConnection(a, id, state),
               phase' = phase, expired' \subseteq expired, next_id' \in Transport!Ids,
               UNCHANGED <<open, closed_connections, reported, live>>
        PROVE  Transport!Inv'
    <3>1. /\ opening' \in [Addrs -> [id : Nat, state : Transport!States]]
          /\ connections' \subseteq Transport!Ids \X Addrs
          /\ timeouts' \subseteq Addrs
          /\ pending_events' \in Seq(Transport!Ids)
          /\ Transport!AcceptReady' /\ Transport!OpeningTimed' /\ Transport!OpeningOrOpen'
      BY <2>8, TransportPoll, Zenon
    <3>2. Transport!TypeOK'
      BY <2>1, <2>8, <3>1, Zenon DEF Transport!TypeOK
    <3> QED BY <2>1, <2>8, <3>1, <3>2, Zenon DEF Transport!Inv, Transport!LiveIsRouted
  <2>9. ASSUME NEW a \in Addrs
                 PROVE opening[a].id \in Nat /\ opening[a].state \in Transport!States
    BY <2>1, Zenon DEF Transport!TypeOK
  <2>10. ASSUME NEW a \in Addrs, Transport!OpeningDatagram(a) PROVE Transport!Inv'
    <3>1. /\ open[a] = 0 /\ opening[a].id # 0
          /\ Transport!PollConnection(a, opening[a].id, opening[a].state)
          /\ UNCHANGED <<open, closed_connections, phase, expired, next_id, reported, live>>
      BY <2>10, Zenon DEF Transport!OpeningDatagram
    <3>2. opening[a].id \in Transport!Ids /\ next_id \in Transport!Ids
      BY <2>1, <2>9, <3>1, Zenon DEF Transport!Ids, Transport!TypeOK
    <3> QED BY <2>8, <2>9, <3>1, <3>2, Zenon
  <2>11. ASSUME NEW a \in Addrs, Transport!StunDatagram(a) PROVE Transport!Inv'
    <3>1. /\ open[a] = 0 /\ opening[a].id = 0
          /\ Transport!PollConnection(a, next_id, "closed") /\ next_id' = next_id + 1
          /\ UNCHANGED <<open, closed_connections, phase, expired, reported, live>>
      BY <2>11, Zenon DEF Transport!StunDatagram
    <3>2. next_id \in Transport!Ids /\ next_id' \in Transport!Ids /\ "closed" \in Transport!States
      BY <2>1, <3>1 DEF Transport!Ids, Transport!TypeOK, Transport!States
    <3> QED BY <2>8, <3>1, <3>2, Zenon
  <2>12. ASSUME NEW a \in Addrs, Transport!TimeoutExpires(a) PROVE Transport!Inv'
    <3>1. /\ expired' = expired \ {a}
          /\ UNCHANGED <<open, closed_connections, phase, next_id, reported, live>>
      BY <2>12, Zenon DEF Transport!TimeoutExpires
    <3>2. CASE opening[a].id # 0
      <4>1. Transport!PollConnection(a, opening[a].id, opening[a].state) /\ open[a] = 0
        BY <2>1, <2>12, <3>2, Zenon DEF Transport!TimeoutExpires, Transport!OpeningOrOpen
      <4>2. opening[a].id \in Transport!Ids /\ next_id \in Transport!Ids
        BY <2>1, <2>9, <3>2, Zenon DEF Transport!Ids, Transport!TypeOK
      <4> QED BY <2>8, <2>9, <3>1, <4>1, <4>2, Zenon
    <3>3. CASE opening[a].id = 0
      <4>1. UNCHANGED <<opening, connections, timeouts, pending_events>>
        BY <2>12, <3>3, Zenon DEF Transport!TimeoutExpires
      <4>2. Transport!TypeOK'
        BY <2>1, <3>1, <4>1, Zenon DEF Transport!TypeOK
      <4> QED BY <2>1, <3>1, <4>1, <4>2, Zenon DEF Transport!Inv, Transport!AcceptReady,
        Transport!OpeningTimed, Transport!OpeningOrOpen, Transport!LiveIsRouted
    <3> QED BY <3>2, <3>3, Zenon
  <2>13. ASSUME NEW c \in connections
         PROVE  /\ c[1] \in Transport!Ids /\ c[2] \in Addrs /\ c = <<c[1], c[2]>>
                /\ opening[c[2]] = [id |-> c[1], state |-> "validating"]
    BY <2>1, <2>13 DEF Transport!TypeOK, Transport!AcceptReady
  <2>14. ASSUME NEW id \in 1 .. MaxConnections, Transport!Accept(id) PROVE Transport!Inv'
    <3>1. /\ reported' \subseteq reported
          /\ UNCHANGED <<timeouts, pending_events, phase, expired, next_id>>
      BY <2>14, Zenon DEF Transport!Accept
    <3>2. CASE UNCHANGED <<connections, opening, open, closed_connections, live>>
      <4>1. Transport!TypeOK'
        BY <2>1, <3>1, <3>2, Zenon DEF Transport!TypeOK
      <4> QED BY <2>1, <3>1, <3>2, <4>1, Zenon DEF Transport!Inv, Transport!AcceptReady,
        Transport!OpeningTimed, Transport!OpeningOrOpen, Transport!LiveIsRouted
    <3>3. ASSUME NEW a \in Addrs, <<id, a>> \in connections,
                 connections' = connections \ {<<id, a>>},
                 opening' = [opening EXCEPT ![a] = [id |-> 0, state |-> "none"]],
                 \/ UNCHANGED <<open, closed_connections, live>>
                 \/ /\ closed_connections' = closed_connections \cup {<<a, id>>}
                    /\ open' = [open EXCEPT ![a] = id]
                    /\ live' = live \cup {<<a, id>>}
          PROVE  Transport!Inv'
      <4>1. id \in Transport!Ids /\ opening[a].id = id /\ id # 0 /\ open[a] = 0
        <5>1. id \in Transport!Ids /\ opening[a] = [id |-> id, state |-> "validating"]
          BY <2>13, <3>3, Zenon
        <5> QED BY <2>1, <5>1 DEF Transport!Ids, Transport!OpeningOrOpen
      <4>2. /\ opening' \in [Addrs -> [id : Nat, state : Transport!States]]
            /\ open' \in [Addrs -> Nat]
        BY <2>1, <3>3, <4>1, Zenon DEF Transport!TypeOK, Transport!States, Transport!Ids
      <4>3. closed_connections' \subseteq Addrs \X Transport!Ids
              /\ live' \subseteq Addrs \X Transport!Ids
        BY <2>1, <3>3, <4>1 DEF Transport!TypeOK
      <4>4. Transport!TypeOK'
        BY <2>1, <3>1, <3>3, <4>2, <4>3, Zenon DEF Transport!TypeOK
      <4>5. Transport!AcceptReady'
        <5>1. SUFFICES ASSUME NEW c \in connections'
                       PROVE  opening'[c[2]] = [id |-> c[1], state |-> "validating"]
          BY Zenon DEF Transport!AcceptReady
        <5>2. c \in connections /\ c # <<id, a>>
          BY <3>3, <5>1, Zenon
        <5>3. c[2] # a
          <6>1. opening[c[2]] = [id |-> c[1], state |-> "validating"] /\ c = <<c[1], c[2]>>
            BY <2>13, <5>2, Zenon
          <6>2. opening[c[2]].id = c[1]
            BY <6>1
          <6> QED BY <4>1, <5>2, <6>1, <6>2, Zenon
        <5> QED BY <2>1, <2>13, <3>3, <5>2, <5>3, Zenon DEF Transport!TypeOK
      <4>6. Transport!OpeningTimed' /\ Transport!OpeningOrOpen'
        BY <2>1, <3>1, <3>3, Zenon
          DEF Transport!OpeningTimed, Transport!OpeningOrOpen, Transport!TypeOK
      <4>7. Transport!LiveIsRouted'
        <5>1. ASSUME NEW c \in live PROVE c[1] # a
          BY <2>2, <4>1, <5>1, Zenon DEF Transport!Ids
        <5> QED BY <2>1, <2>2, <3>3, <5>1 DEF Transport!LiveIsRouted, Transport!TypeOK
      <4> QED BY <4>4, <4>5, <4>6, <4>7, Zenon DEF Transport!Inv
    <3> QED BY <2>14, <3>2, <3>3, Zenon DEF Transport!Accept, Transport!NoOpening
  <2>15. ASSUME NEW id \in 1 .. MaxConnections, Transport!Reject(id) PROVE Transport!Inv'
    <3>1. /\ reported' \subseteq reported
          /\ connections' = {c \in connections : c[1] # id}
          /\ opening'
               = [a \in Addrs |-> IF <<id, a>> \in connections THEN [id |-> 0, state |-> "none"]
                                         ELSE opening[a]]
          /\ UNCHANGED <<open, closed_connections, timeouts, pending_events, phase, expired, next_id,
                         live>>
      BY <2>15, Zenon DEF Transport!Reject, Transport!NoOpening
    <3>2. opening' \in [Addrs -> [id : Nat, state : Transport!States]]
      BY <2>1, <3>1, Zenon DEF Transport!TypeOK, Transport!States
    <3>3. Transport!TypeOK'
      BY <2>1, <3>1, <3>2, Zenon DEF Transport!TypeOK
    <3>4. Transport!AcceptReady'
      <4>1. SUFFICES ASSUME NEW c \in connections'
                     PROVE  opening'[c[2]] = [id |-> c[1], state |-> "validating"]
        BY Zenon DEF Transport!AcceptReady
      <4>2. c \in connections /\ c[1] # id
        BY <3>1, <4>1, Zenon
      <4>3. <<id, c[2]>> \notin connections
        <5>1. SUFFICES ASSUME <<id, c[2]>> \in connections PROVE FALSE
          OBVIOUS
        <5>2. opening[c[2]] = [id |-> c[1], state |-> "validating"]
          BY <2>13, <4>2, Zenon
        <5>3. opening[c[2]] = [id |-> id, state |-> "validating"]
          <6>1. \A d \in connections : opening[d[2]] = [id |-> d[1], state |-> "validating"]
            BY <2>13, Zenon
          <6> QED BY <5>1, <6>1, Zenon
        <5> QED BY <4>2, <5>2, <5>3
      <4> QED BY <2>13, <3>1, <4>2, <4>3, Zenon
    <3>5. Transport!OpeningTimed' /\ Transport!OpeningOrOpen'
      BY <2>1, <3>1, Zenon DEF Transport!OpeningTimed, Transport!OpeningOrOpen
    <3> QED BY <2>1, <3>1, <3>3, <3>4, <3>5, Zenon DEF Transport!Inv, Transport!LiveIsRouted
  <2>16. CASE Transport!ConnectionEnds
    <3>1. /\ live' \subseteq live
          /\ UNCHANGED <<opening, connections, open, closed_connections, timeouts, pending_events,
                         phase, expired, next_id, reported>>
      BY <2>16, Zenon DEF Transport!ConnectionEnds
    <3>2. Transport!TypeOK'
      BY <2>1, <3>1, Zenon DEF Transport!TypeOK
    <3> QED BY <2>1, <3>1, <3>2, Zenon DEF Transport!Inv, Transport!AcceptReady,
      Transport!OpeningTimed, Transport!OpeningOrOpen, Transport!LiveIsRouted
  <2>17. CASE UNCHANGED Transport!vars
    <3>1. Transport!TypeOK'
      BY <2>1, <2>17, Zenon DEF Transport!vars, Transport!TypeOK
    <3> QED BY <2>1, <2>17, <3>1, Zenon
      DEF Transport!vars, Transport!Inv, Transport!AcceptReady,
      Transport!OpeningTimed, Transport!OpeningOrOpen, Transport!LiveIsRouted
  <2> QED BY <2>3, <2>4, <2>5, <2>6, <2>7, <2>10, <2>11, <2>12, <2>14, <2>15, <2>16, <2>17,
     Zenon
       DEF Transport!Next
<1>3. QED
  BY <1>1, <1>2, PTL DEF Transport!Spec, WebRtcTransportInv

HIDE DEF Transport!NoOpening

-----------------------------------------------------------------------------
(* AddressStore, for every set of addresses and capacity *)

INSTANCE FiniteSetTheorems

Types ==
  /\ addresses \subseteq Address
  /\ score \in [Address -> Int]
  /\ outcome \in [Address -> Outcome]

(* The score of an address is the one of its outcome, with or without the  *)
(* bonus it had when it was inserted.                                      *)
ScoreMatches ==
  \A a \in addresses : score[a] \in {Score(outcome[a]), Score(outcome[a]) + 1}

IInv == Types /\ ScoreMatches

(* Every score is an integer, and scores of outcomes of different rank     *)
(* differ by more than the bonus.                                          *)
LEMMA ScoreOrder ==
  /\ \A o \in Outcome : Score(o) \in Int
  /\ \A o, p \in Outcome : Rank(o) < Rank(p) => Score(o) + 1 < Score(p)
BY SMT DEF Outcome, Score, Rank, CONNECTION_ESTABLISHED, CONNECTION_FAILURE, ADDRESS_FAILURE

(* The score with its bonus is one of the two scores of the outcome. *)
LEMMA BonusIsOne ==
  ASSUME NEW a, NEW s \in Int
  PROVE  WithBonus(a, s) \in {s, s + 1} /\ WithBonus(a, s) \in Int
BY DEF WithBonus, PUBLIC_ADDRESS_BONUS

(* An address enters with a score of its outcome. *)
LEMMA EntersMatches ==
  ASSUME IInv, NEW a \in Address, NEW o \in Outcome, Enters(a, o),
         addresses' \subseteq addresses \cup {a}
  PROVE  IInv'
<1>1. Score(o) \in Int
  BY ScoreOrder
<1>2. WithBonus(a, Score(o)) \in {Score(o), Score(o) + 1} /\ WithBonus(a, Score(o)) \in Int
  BY <1>1, BonusIsOne
<1>3. Types'
  BY <1>2 DEF IInv, Types, Enters
<1>4. ASSUME NEW b \in addresses'
      PROVE  score'[b] \in {Score(outcome'[b]), Score(outcome'[b]) + 1}
  <2>1. CASE b = a
    BY <1>2, <2>1 DEF IInv, Types, Enters
  <2>2. CASE b # a
    <3>1. b \in addresses /\ score'[b] = score[b] /\ outcome'[b] = outcome[b]
      BY <2>2, <1>4 DEF IInv, Types, Enters
    <3>2. QED
      BY <3>1 DEF IInv, ScoreMatches
  <2>3. QED
    BY <2>1, <2>2
<1>5. QED
  BY <1>3, <1>4 DEF IInv, ScoreMatches

(* The invariant is inductive: an update replaces the score by the one of  *)
(* the new outcome, without a bonus.                                       *)
LEMMA InvariantHolds ==
  /\ Init => IInv
  /\ IInv /\ [Next]_vars => IInv'
<1>1. Init => IInv
  BY DEF Init, IInv, Types, ScoreMatches, Outcome
<1>2. ASSUME IInv, [Next]_vars PROVE IInv'
  <2>1. CASE UNCHANGED vars
    BY <1>2, <2>1 DEF vars, IInv, Types, ScoreMatches
  <2>2. CASE Next
    <3>1. PICK a \in Address, o \in Outcome :
            InsertKnown(a, o) \/ InsertNew(a, o) \/ InsertEvicting(a, o)
      BY <2>2 DEF Next
    <3>2. CASE InsertKnown(a, o)
      <4>1. o # "untested"
        BY <3>2 DEF InsertKnown, Updates, Score
      <4>2. Types'
        BY <3>2, <1>2, ScoreOrder DEF InsertKnown, IInv, Types
      <4>3. ASSUME NEW b \in addresses'
            PROVE  score'[b] \in {Score(outcome'[b]), Score(outcome'[b]) + 1}
        <5>1. CASE b = a
          BY <5>1, <4>1, <3>2, <1>2 DEF InsertKnown, IInv, Types
        <5>2. CASE b # a
          <6>1. b \in addresses /\ score'[b] = score[b] /\ outcome'[b] = outcome[b]
            BY <5>2, <4>3, <3>2, <1>2 DEF InsertKnown, IInv, Types
          <6>2. QED
            BY <6>1, <1>2 DEF IInv, ScoreMatches
        <5>3. QED
          BY <5>1, <5>2
      <4>4. QED
        BY <4>2, <4>3 DEF IInv, ScoreMatches
    <3>3. CASE InsertNew(a, o)
      BY <3>3, <1>2, EntersMatches DEF InsertNew
    <3>4. CASE InsertEvicting(a, o)
      <4>1. addresses' \subseteq addresses \cup {a} /\ Enters(a, o)
        BY <3>4 DEF InsertEvicting
      <4>2. QED
        BY <4>1, <1>2, EntersMatches
    <3>5. QED
      BY <3>1, <3>2, <3>3, <3>4
  <2>3. QED
    BY <1>2, <2>1, <2>2
<1>3. QED
  BY <1>1, <1>2

(* A dial prefers the addresses that did better, for every store: the      *)
(* bonus for public addresses never outweighs what was learnt.             *)
THEOREM BetterDialedFirstAlways == Spec => []BetterDialedFirst
<1>1. IInv => BetterDialedFirst
  <2>1. SUFFICES ASSUME IInv, NEW limit \in 0 .. max_capacity, NEW best \in Dialed(limit),
                        NEW a \in best, NEW b \in addresses \ best
                 PROVE  Rank(outcome[b]) <= Rank(outcome[a])
    BY DEF BetterDialedFirst
  <2>2. best \subseteq addresses /\ score[b] <= score[a]
    BY <2>1 DEF Dialed
  <2>3. outcome[a] \in Outcome /\ outcome[b] \in Outcome
    BY <2>1, <2>2 DEF IInv, Types
  <2>4. /\ score[a] \in {Score(outcome[a]), Score(outcome[a]) + 1}
        /\ score[b] \in {Score(outcome[b]), Score(outcome[b]) + 1}
    BY <2>1, <2>2 DEF IInv, ScoreMatches
  <2>5. /\ Rank(outcome[a]) \in Int /\ Rank(outcome[b]) \in Int
        /\ Score(outcome[a]) \in Int /\ Score(outcome[b]) \in Int
    BY <2>3, ScoreOrder DEF Rank
  <2>6. ~(Rank(outcome[a]) < Rank(outcome[b]))
    <3>1. SUFFICES ASSUME Rank(outcome[a]) < Rank(outcome[b]) PROVE FALSE
      OBVIOUS
    <3>2. Score(outcome[a]) + 1 < Score(outcome[b])
      BY <3>1, <2>3, ScoreOrder
    <3>3. QED
      BY <3>2, <2>2, <2>4, <2>5
  <2>7. QED
    BY <2>5, <2>6
<1>2. QED
  BY <1>1, InvariantHolds, PTL DEF Spec

(* An address that worked last is never evicted, and an untested one takes *)
(* only the place of one that failed.                                      *)
THEOREM EvictsFailedAlways == Spec => EvictsFailed
<1>1. ASSUME IInv, [Next]_vars PROVE [Evicts]_vars
  <2>1. SUFFICES ASSUME Next, NEW x \in addresses \ addresses'
                 PROVE  /\ outcome[x] # "established"
                        /\ (\E b \in addresses' \ addresses : outcome'[b] = "untested")
                             => outcome[x] \in {"failed", "invalid"}
    BY <1>1 DEF Evicts
  <2>2. PICK a \in Address, o \in Outcome :
          InsertKnown(a, o) \/ InsertNew(a, o) \/ InsertEvicting(a, o)
    BY <2>1 DEF Next
  <2>3. InsertEvicting(a, o)
    BY <2>1, <2>2 DEF InsertKnown, InsertNew
  <2>4. /\ a \notin addresses
        /\ score[x] < Score(o)
        /\ \A b \in addresses' \ addresses : b = a
        /\ outcome'[a] = o
    BY <2>1, <2>3, <1>1, ScoreOrder DEF InsertEvicting, Beats, Enters, IInv, Types
  <2>5. /\ outcome[x] \in Outcome
        /\ score[x] \in {Score(outcome[x]), Score(outcome[x]) + 1}
    BY <1>1, <2>1 DEF IInv, Types, ScoreMatches
  <2>6. outcome[x] # "established" /\ (o = "untested" => outcome[x] \in {"failed", "invalid"})
    BY <2>4, <2>5
      DEF Outcome, Score, CONNECTION_ESTABLISHED, CONNECTION_FAILURE, ADDRESS_FAILURE
  <2>7. QED
    BY <2>4, <2>6
<1>2. QED
  BY <1>1, InvariantHolds, PTL DEF Spec, EvictsFailed

(* The store never holds more than max_capacity addresses. *)
THEOREM WithinCapacityAlways == Spec => []WithinCapacity
<1>1. Init => WithinCapacity
  BY FS_EmptySet, CapacityAssumption DEF Init, WithinCapacity
<1>2. ASSUME WithinCapacity, [Next]_vars PROVE WithinCapacity'
  <2>1. CASE UNCHANGED vars
    BY <1>2, <2>1 DEF vars, WithinCapacity
  <2>2. CASE Next
    <3>1. PICK a \in Address, o \in Outcome :
            InsertKnown(a, o) \/ InsertNew(a, o) \/ InsertEvicting(a, o)
      BY <2>2 DEF Next
    <3>2. CASE InsertKnown(a, o)
      BY <3>2, <1>2 DEF InsertKnown, WithinCapacity
    <3>3. Cardinality(addresses) \in Nat
      BY <1>2, FS_CardinalityType DEF WithinCapacity
    <3>4. CASE InsertNew(a, o)
      <4>1. /\ IsFiniteSet(addresses \cup {a})
            /\ Cardinality(addresses \cup {a}) = Cardinality(addresses) + 1
        BY <3>4, <1>2, FS_AddElement DEF InsertNew, WithinCapacity
      <4>2. QED
        BY <4>1, <3>3, <3>4, CapacityAssumption DEF InsertNew, HasRoom, WithinCapacity
    <3>5. CASE InsertEvicting(a, o)
      <4>1. PICK min \in addresses : addresses' = (addresses \ {min}) \cup {a}
        BY <3>5 DEF InsertEvicting
      <4>2. /\ IsFiniteSet(addresses \ {min})
            /\ Cardinality(addresses \ {min}) = Cardinality(addresses) - 1
        BY <4>1, <1>2, FS_RemoveElement DEF WithinCapacity
      <4>3. /\ IsFiniteSet(addresses')
            /\ Cardinality(addresses') = Cardinality(addresses \ {min}) + 1
        BY <4>1, <4>2, <3>5, FS_AddElement DEF InsertEvicting
      <4>4. QED
        BY <4>2, <4>3, <3>3, <1>2 DEF WithinCapacity
    <3>6. QED
      BY <3>1, <3>2, <3>4, <3>5
  <2>3. QED
    BY <1>2, <2>1, <2>2
<1>3. QED
  BY <1>1, <1>2, PTL DEF Spec
=============================================================================
