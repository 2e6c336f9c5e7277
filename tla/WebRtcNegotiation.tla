-------------------------- MODULE WebRtcNegotiation --------------------------
(***************************************************************************)
(* multistream-select on a WebRTC channel: WebRtcDialerState               *)
(* (multistream_select/dialer_select.rs) and webrtc_listener_negotiate     *)
(* (listener_select.rs) on the two ends, as webrtc/connection.rs calls     *)
(* them.  A payload holds one or more messages; an end that is another     *)
(* implementation may send the header in a payload of its own.             *)
(***************************************************************************)
EXTENDS Naturals, Sequences

CONSTANTS
  Proposals,    \* the protocol and its fallback names, in preference order
  Supports,
  Splits        \* whether another implementation may be at an end

VARIABLES
  supported, wanted,
  splits,               \* the ends that send the header on its own
  dialer,               \* "WaitingResponse", "WaitingProtocol", "Succeeded" or "Failed"
  protocol,             \* the one it has proposed
  fallback_names,       \* reversed, as the code has them
  listener,             \* "Opening", "Accepted" or "Failed"
  header_received,
  accepted,
  up, down              \* payloads on their way

vars == <<supported, wanted, splits, dialer, protocol, fallback_names, listener, header_received,
          accepted, up, down>>

NoProtocol == "none"
Reversed(s) == [i \in 1 .. Len(s) |-> s[Len(s) + 1 - i]]

(* A payload as the end w sends it. *)
Payloads(w, messages) ==
  IF w \in splits /\ Len(messages) = 2
    THEN <<SubSeq(messages, 1, 1), SubSeq(messages, 2, 2)>>
    ELSE <<messages>>

(* WebRtcDialerState::propose *)
Init ==
  /\ supported \in Supports
  /\ wanted \in Proposals
  /\ splits \in SUBSET (IF Splits THEN {"dialer", "listener"} ELSE {})
  /\ protocol = Head(wanted)
  /\ fallback_names = Reversed(Tail(wanted))
  /\ dialer = "WaitingResponse"
  /\ listener = "Opening" /\ header_received = FALSE /\ accepted = NoProtocol
  /\ up = Payloads("dialer", <<"header", protocol>>)
  /\ down = <<>>

-----------------------------------------------------------------------------
(* The listener *)

(* webrtc_encode_multistream_message *)
Response(message, header_in_this_payload) ==
  IF header_in_this_payload THEN <<"header", message>> ELSE <<message>>

(* The protocol of a payload that is neither the header alone nor an       *)
(* error.                                                                  *)
ProposedBy(payload) ==
  IF ~header_received /\ Len(payload) = 2 /\ payload[1] = "header" THEN payload[2]
  ELSE IF header_received /\ Len(payload) = 1 /\ payload[1] # "header" THEN payload[1]
  ELSE NoProtocol

(* webrtc_listener_negotiate, and dispatch_framed_message for its result. *)
ListenerNegotiate ==
  LET payload == Head(up)
      p == ProposedBy(payload) IN
  /\ listener = "Opening" /\ up # <<>>
  /\ up' = Tail(up)
  /\ \/ /\ payload = <<"header">> /\ ~header_received        \* PendingProtocol
        /\ down' = Append(down, <<"header">>)
        /\ header_received' = TRUE
        /\ UNCHANGED <<listener, accepted>>
     \/ /\ p # NoProtocol /\ p \in supported                       \* Accepted
        /\ down' = down \o Payloads("listener", Response(p, ~header_received))
        /\ listener' = "Accepted" /\ accepted' = p
        /\ UNCHANGED header_received
     \/ /\ p # NoProtocol /\ p \notin supported                    \* Rejected
        /\ down' = down \o Payloads("listener", Response("na", ~header_received))
        /\ header_received' = TRUE
        /\ UNCHANGED <<listener, accepted>>
     \/ /\ p = NoProtocol /\ ~(payload = <<"header">> /\ ~header_received)
        /\ listener' = "Failed"
        /\ UNCHANGED <<down, header_received, accepted>>
  /\ UNCHANGED <<supported, wanted, splits, dialer, protocol, fallback_names>>

-----------------------------------------------------------------------------
(* The dialer *)

(* register_response, message by message: the result and the new state. *)
RegisterResponse(payload) ==
  LET rest == IF dialer = "WaitingResponse" THEN Tail(payload) ELSE payload IN
  IF dialer = "WaitingResponse" /\ payload[1] # "header" THEN "Failed"
  ELSE IF rest = <<>> THEN "NotReady"
  ELSE IF rest[1] = "na" THEN "Rejected"
  ELSE IF rest[1] = protocol THEN "Succeeded"
  ELSE "Failed"

(* Mutant: fallback names are tried from the last. *)
NextFallback_last == fallback_names[1]

(* fallback_names.pop() *)
NextFallback == fallback_names[Len(fallback_names)]

(* on_outbound_opening_channel_data *)
DialerRegister ==
  LET result == RegisterResponse(Head(down)) IN
  /\ dialer \in {"WaitingResponse", "WaitingProtocol"} /\ down # <<>>
  /\ down' = Tail(down)
  /\ \/ /\ result \in {"Succeeded", "Failed"}
        /\ dialer' = result
        /\ UNCHANGED <<protocol, fallback_names, up>>
     \/ /\ result = "NotReady"
        /\ dialer' = "WaitingProtocol"
        /\ UNCHANGED <<protocol, fallback_names, up>>
     \/ /\ result = "Rejected" /\ fallback_names = <<>>
        /\ dialer' = "Failed"
        /\ UNCHANGED <<protocol, fallback_names, up>>
     \/ /\ result = "Rejected" /\ fallback_names # <<>>
        /\ dialer' = "WaitingProtocol"
        /\ protocol' = NextFallback
        /\ fallback_names' = SubSeq(fallback_names, 1, Len(fallback_names) - 1)
        /\ up' = Append(up, <<protocol'>>)
  /\ UNCHANGED <<supported, wanted, splits, listener, header_received, accepted>>

Next == ListenerNegotiate \/ DialerRegister

Spec == Init /\ [][Next]_vars /\ WF_vars(Next)

-----------------------------------------------------------------------------
(* Properties *)

Supported == {i \in DOMAIN wanted : wanted[i] \in supported}

Settled ==
  IF Supported # {}
    THEN /\ dialer = "Succeeded" /\ listener = "Accepted"
         /\ protocol = accepted
         /\ \E i \in Supported : wanted[i] = accepted /\ \A j \in Supported : i <= j
    ELSE dialer = "Failed" /\ listener = "Opening"

(* The negotiation ends, with success if there is a protocol that both     *)
(* support: whoever splits its payloads, the ends agree on the first one   *)
(* of the dialer's preference.  The listener is never the one to fail.     *)
FallbackEnds == <>[]Settled
=============================================================================
