------------------------ MODULE WebRtcSubstreamProofs ------------------------
(***************************************************************************)
(* WebRtcSubstreamInv is an invariant of WebRtcSubstream, for any limit of *)
(* messages in flight and any number of messages.                          *)
(***************************************************************************)
EXTENDS WebRtcSubstream, TLAPS

(* What the first message and the ones after it say about the flags of a   *)
(* sequence of messages.                                                   *)
LEMMA FlagsOfTail ==
  ASSUME NEW w \in Seq(Message), w # <<>>
  PROVE  /\ Tail(w) \in Seq(Message) /\ Head(w) \in Message
         /\ Has(w, Head(w).flag)
         /\ \A f : Has(Tail(w), f) => Has(w, f)
         /\ \A f : Has(w, f) /\ Head(w).flag # f => Has(Tail(w), f)
         /\ Ordered(w) => Ordered(Tail(w))
         /\ Ordered(w) /\ Head(w).flag = "fin" => ~Has(Tail(w), "fin") /\ ~Has(w, "none")
         /\ Ordered(w) /\ Head(w).flag = "fin_ack" => ~Has(Tail(w), "fin_ack")
<1> DEFINE t == Tail(w)
<1>1. /\ t \in Seq(Message) /\ Head(w) \in Message /\ Head(w) = w[1] /\ 1 \in 1 .. Len(w)
      /\ Len(w) \in Nat /\ Len(t) = Len(w) - 1
      /\ \A i \in 1 .. Len(t) : t[i] = w[i + 1] /\ i + 1 \in 1 .. Len(w)
      /\ \A i \in 1 .. Len(w) : i # 1 => i - 1 \in 1 .. Len(t) /\ t[i - 1] = w[i]
  OBVIOUS
<1> HIDE DEF t
<1>2. Has(w, Head(w).flag)
  BY <1>1, Zenon DEF Has
<1>3. ASSUME NEW f, Has(t, f) PROVE Has(w, f)
  <2>1. PICK i \in 1 .. Len(t) : t[i].flag = f
    BY <1>3, Zenon DEF Has
  <2>2. i + 1 \in 1 .. Len(w) /\ w[i + 1].flag = f
    BY <1>1, <2>1, Zenon
  <2> QED BY <2>2, Zenon DEF Has
<1>4. ASSUME NEW f, Has(w, f), Head(w).flag # f PROVE Has(t, f)
  <2>1. PICK i \in 1 .. Len(w) : w[i].flag = f
    BY <1>4, Zenon DEF Has
  <2>2. i # 1
    BY <1>1, <1>4, <2>1, Zenon
  <2>3. i - 1 \in 1 .. Len(t) /\ t[i - 1].flag = f
    BY <1>1, <2>1, <2>2, Zenon
  <2> QED BY <2>3, Zenon DEF Has
<1>5. Ordered(w) => Ordered(t)
  BY <1>1 DEF Ordered
<1>6. ASSUME Ordered(w), NEW f, Has(t, f)
      PROVE  /\ Head(w).flag = "fin" => f # "fin" /\ f # "none"
             /\ Head(w).flag = "fin_ack" => f # "fin_ack"
  BY <1>1, <1>6 DEF Ordered, Has
<1>7. ASSUME Ordered(w), Head(w).flag = "fin" PROVE ~Has(w, "none")
  BY <1>4, <1>6, <1>7, Zenon
<1> QED BY <1>1, <1>2, <1>3, <1>4, <1>5, <1>6, <1>7, Zenon DEF t

(* A message that is appended. *)
LEMMA FlagsOfAppend ==
  ASSUME NEW w \in Seq(Message), NEW m \in Message
  PROVE  /\ Append(w, m) \in Seq(Message)
         /\ \A f : Has(Append(w, m), f) <=> Has(w, f) \/ m.flag = f
         /\ /\ Ordered(w)
            /\ m.flag \in {"none", "fin"} => ~Has(w, "fin")
            /\ m.flag = "fin_ack" => ~Has(w, "fin_ack")
            => Ordered(Append(w, m))
<1> DEFINE a == Append(w, m)
<1>1. /\ a \in Seq(Message) /\ Len(w) \in Nat /\ Len(a) = Len(w) + 1
      /\ a[Len(w) + 1] = m /\ Len(w) + 1 \in 1 .. Len(a)
      /\ \A i \in 1 .. Len(w) : a[i] = w[i] /\ i \in 1 .. Len(a)
      /\ \A i \in 1 .. Len(a) : i \in 1 .. Len(w) \/ i = Len(w) + 1
  OBVIOUS
<1> HIDE DEF a
<1>2. ASSUME NEW f PROVE Has(a, f) <=> Has(w, f) \/ m.flag = f
  BY <1>1, Zenon DEF Has
<1>3. ASSUME Ordered(w), m.flag \in {"none", "fin"} => ~Has(w, "fin"),
             m.flag = "fin_ack" => ~Has(w, "fin_ack")
      PROVE  Ordered(a)
  BY <1>1, <1>3 DEF Has, Ordered
<1> QED BY <1>1, <1>2, <1>3, Zenon DEF a

(* The payload of a sequence of messages, when the first is taken. *)
LEMMA PayloadOfTail ==
  ASSUME NEW w \in Seq(Message), w # <<>>, NEW from \in Nat, NEW last \in Nat,
         InOrder(w, from, last)
  PROVE  /\ Head(w).flag # "none" => InOrder(Tail(w), from, last)
         /\ Head(w).flag = "none" =>
              /\ Head(w).payload = from + 1 /\ from + 1 <= last
              /\ InOrder(Tail(w), from + 1, last)
<1> DEFINE t == Tail(w)
<1>1. /\ Head(w) = w[1] /\ 1 \in 1 .. Len(w)
      /\ Len(w) \in Nat /\ Len(t) = Len(w) - 1
      /\ \A i \in 1 .. Len(t) : t[i] = w[i + 1] /\ i + 1 \in 1 .. Len(w)
      /\ \A i \in 1 .. Len(w) : i # 1 => i - 1 \in 1 .. Len(t) /\ t[i - 1] = w[i]
  OBVIOUS
<1>2. ASSUME NEW i \in 1 .. Len(w) PROVE w[i].payload \in Nat
  <2>1. w[i] \in Message
    OBVIOUS
  <2> QED BY <2>1, Zenon DEF Message
<1> HIDE DEF t
<1>3. ASSUME Head(w).flag # "none" PROVE InOrder(t, from, last)
  <2>1. ASSUME NEW n \in from + 1 .. last PROVE \E i \in 1 .. Len(t) : t[i] = Payload(n)
    <3>1. PICK i \in 1 .. Len(w) : w[i] = Payload(n)
      BY Zenon DEF InOrder
    <3>2. i # 1
      BY <1>1, <1>3, <3>1 DEF Payload
    <3> QED BY <1>1, <3>1, <3>2, Zenon
  <2>2. ASSUME NEW i \in 1 .. Len(t), t[i].flag = "none"
        PROVE  /\ from < t[i].payload /\ t[i].payload <= last
               /\ \A j \in 1 .. Len(t) :
                    i < j /\ t[j].flag = "none" => t[i].payload < t[j].payload
    BY <1>1, <2>2 DEF InOrder
  <2> QED BY <2>1, <2>2, Zenon DEF InOrder
<1>4. ASSUME Head(w).flag = "none"
      PROVE  /\ Head(w).payload = from + 1 /\ from + 1 <= last
             /\ InOrder(t, from + 1, last)
  <2>1. /\ from < w[1].payload /\ w[1].payload <= last
        /\ \A j \in 1 .. Len(w) : 1 < j /\ w[j].flag = "none" => w[1].payload < w[j].payload
    BY <1>1, <1>4, Zenon DEF InOrder
  <2>2. PICK i \in 1 .. Len(w) : w[i] = Payload(from + 1)
    BY <1>1, <1>2, <2>1 DEF InOrder
  <2>3. w[i].payload = from + 1 /\ w[i].flag = "none"
    BY <2>2 DEF Payload
  <2>4. w[1].payload = from + 1
    BY <1>1, <1>2, <2>1, <2>3
  <2>5. ASSUME NEW n \in from + 1 + 1 .. last PROVE \E k \in 1 .. Len(t) : t[k] = Payload(n)
    <3>1. PICK k \in 1 .. Len(w) : w[k] = Payload(n)
      BY DEF InOrder
    <3>2. k # 1
      BY <2>4, <3>1 DEF Payload
    <3> QED BY <1>1, <3>1, <3>2, Zenon
  <2>6. ASSUME NEW k \in 1 .. Len(t), t[k].flag = "none"
        PROVE  /\ from + 1 < t[k].payload /\ t[k].payload <= last
               /\ \A j \in 1 .. Len(t) :
                    k < j /\ t[j].flag = "none" => t[k].payload < t[j].payload
    <3>1. /\ k + 1 \in 1 .. Len(w) /\ t[k] = w[k + 1] /\ 1 < k + 1
          /\ w[k + 1].payload \in Nat
      BY <1>1, <1>2
    <3>2. from + 1 < t[k].payload /\ t[k].payload <= last
      BY <2>1, <2>4, <2>6, <3>1, Zenon DEF InOrder
    <3>3. ASSUME NEW j \in 1 .. Len(t), k < j, t[j].flag = "none"
          PROVE  t[k].payload < t[j].payload
      <4>1. j + 1 \in 1 .. Len(w) /\ t[j] = w[j + 1] /\ k + 1 < j + 1
        BY <1>1, <3>3
      <4> QED BY <2>6, <3>1, <3>3, <4>1, Zenon DEF InOrder
    <3> QED BY <3>2, <3>3, Zenon
  <2>7. InOrder(t, from + 1, last)
    BY <2>5, <2>6, Zenon DEF InOrder
  <2> QED BY <1>1, <2>1, <2>4, <2>7, Zenon
<1> QED BY <1>3, <1>4, Zenon DEF t

(* The payload of a sequence of messages, when one is appended. *)
LEMMA PayloadOfAppend ==
  ASSUME NEW w \in Seq(Message), NEW from \in Nat, NEW last \in Nat, from <= last,
         InOrder(w, from, last)
  PROVE  /\ \A m \in Message : m.flag # "none" => InOrder(Append(w, m), from, last)
         /\ InOrder(Append(w, Payload(last + 1)), from, last + 1)
         /\ ~Has(w, "none") => from = last
<1>1. ASSUME NEW m \in Message
      PROVE  /\ Len(w) \in Nat /\ Len(Append(w, m)) = Len(w) + 1
             /\ Append(w, m)[Len(w) + 1] = m /\ Len(w) + 1 \in 1 .. Len(Append(w, m))
             /\ \A i \in 1 .. Len(w) : Append(w, m)[i] = w[i] /\ i \in 1 .. Len(Append(w, m))
             /\ \A i \in 1 .. Len(Append(w, m)) : i \in 1 .. Len(w) \/ i = Len(w) + 1
  OBVIOUS
<1>2. ASSUME NEW m \in Message, m.flag # "none" PROVE InOrder(Append(w, m), from, last)
  <2> DEFINE a == Append(w, m)
  <2>1. ASSUME NEW n \in from + 1 .. last PROVE \E i \in 1 .. Len(a) : a[i] = Payload(n)
    BY <1>1, Zenon DEF InOrder
  <2>2. ASSUME NEW i \in 1 .. Len(a), a[i].flag = "none"
        PROVE  /\ from < a[i].payload /\ a[i].payload <= last
               /\ \A j \in 1 .. Len(a) :
                    i < j /\ a[j].flag = "none" => a[i].payload < a[j].payload
    <3> HIDE DEF a
    <3> QED BY <1>1, <1>2, <2>2, Zenon DEF InOrder, a
  <2> QED BY <2>1, <2>2, Zenon DEF InOrder
<1>3. InOrder(Append(w, Payload(last + 1)), from, last + 1)
  <2> DEFINE m == Payload(last + 1)
             a == Append(w, m)
  <2>1. m \in Message /\ m.payload = last + 1 /\ m.flag = "none"
    BY DEF Message, Payload
  <2> HIDE DEF m
  <2>2. /\ Len(w) \in Nat /\ Len(a) = Len(w) + 1
        /\ a[Len(w) + 1] = m /\ Len(w) + 1 \in 1 .. Len(a)
        /\ \A i \in 1 .. Len(w) : a[i] = w[i] /\ i \in 1 .. Len(a)
        /\ \A i \in 1 .. Len(a) : i \in 1 .. Len(w) \/ i = Len(w) + 1
    BY <1>1, <2>1, Zenon
  <2> HIDE DEF a
  <2>3. ASSUME NEW n \in from + 1 .. last + 1 PROVE \E i \in 1 .. Len(a) : a[i] = Payload(n)
    <3>1. CASE n \in from + 1 .. last
      <4>1. PICK i \in 1 .. Len(w) : w[i] = Payload(n)
        BY <3>1, Zenon DEF InOrder
      <4> QED BY <2>2, <4>1, Zenon
    <3>2. CASE n = last + 1
      BY <2>2, <3>2, Zenon DEF m
    <3> QED BY <3>1, <3>2
  <2>4. ASSUME NEW i \in 1 .. Len(w) PROVE w[i].payload \in Nat
    <3>1. w[i] \in Message
      OBVIOUS
    <3> QED BY <3>1, Zenon DEF Message
  <2>5. ASSUME NEW i \in 1 .. Len(a), a[i].flag = "none"
        PROVE  /\ from < a[i].payload /\ a[i].payload <= last + 1
               /\ \A j \in 1 .. Len(a) :
                    i < j /\ a[j].flag = "none" => a[i].payload < a[j].payload
    <3>1. ASSUME NEW k \in 1 .. Len(w), w[k].flag = "none"
          PROVE  /\ from < w[k].payload /\ w[k].payload <= last /\ w[k].payload \in Nat
                 /\ w[k].payload < last + 1
                 /\ \A j \in 1 .. Len(w) :
                      k < j /\ w[j].flag = "none" => w[k].payload < w[j].payload
      <4>1. from < w[k].payload /\ w[k].payload <= last
        BY <3>1, Zenon DEF InOrder
      <4>2. \A j \in 1 .. Len(w) :
              k < j /\ w[j].flag = "none" => w[k].payload < w[j].payload
        BY <3>1, Zenon DEF InOrder
      <4> QED BY <2>4, <4>1, <4>2
    <3>2. CASE i \in 1 .. Len(w)
      BY <2>1, <2>2, <2>5, <3>1, <3>2
    <3>3. CASE i = Len(w) + 1
      BY <2>1, <2>2, <3>3
    <3> QED BY <2>2, <3>2, <3>3, Zenon
  <2> QED BY <2>3, <2>5, Zenon DEF InOrder, a, m
<1>4. ASSUME ~Has(w, "none") PROVE from = last
  <2>1. ASSUME from + 1 \in from + 1 .. last PROVE FALSE
    <3>1. PICK i \in 1 .. Len(w) : w[i] = Payload(from + 1)
      BY <2>1, Zenon DEF InOrder
    <3> QED BY <1>4, <3>1 DEF Has, Payload
  <2> QED BY <2>1
<1> QED BY <1>2, <1>3, <1>4, Zenon

(* Numbers that follow one another. *)
LEMMA Following ==
  ASSUME NEW q \in Seq(Nat), NEW n \in Nat, Follow(q, n)
  PROVE  /\ Len(q) \in Nat
         /\ q # <<>> => /\ Head(q) = n + 1 /\ Follow(Tail(q), n + 1)
                        /\ Tail(q) \in Seq(Nat) /\ Len(q) = Len(Tail(q)) + 1
         /\ Follow(Append(q, n + Len(q) + 1), n)
         /\ \A v \in Nat : Append(q, v) \in Seq(Nat) /\ Len(Append(q, v)) = Len(q) + 1
<1>1. ASSUME q # <<>>
      PROVE  /\ Head(q) = n + 1 /\ Follow(Tail(q), n + 1)
             /\ Tail(q) \in Seq(Nat) /\ Len(q) = Len(Tail(q)) + 1
  BY <1>1 DEF Follow
<1>2. Follow(Append(q, n + Len(q) + 1), n)
  BY DEF Follow
<1> QED BY <1>1, <1>2

(* ... and none. *)
LEMMA EmptyFollows == ASSUME NEW n PROVE Follow(<<>>, n) /\ Len(<<>>) = 0
BY DEF Follow

(* The two sides are each other's other. *)
LEMMA Sides ==
  ASSUME NEW t \in Side
  PROVE  /\ Other(t) \in Side /\ Other(t) # t /\ Other(Other(t)) = t
         /\ \A s \in Side : s = t \/ s = Other(t)
BY Zenon DEF Side, Other

(* A step leaves the side s alone, except for the messages to it. *)
Unmoved(s) ==
  /\ channel_state'[s] = channel_state[s] /\ reader_state'[s] = reader_state[s]
  /\ writer_state'[s] = writer_state[s] /\ dropped'[s] = dropped[s]
  /\ tx'[s] = tx[s] /\ gone'[s] = gone[s]
  /\ message_tx'[s] = message_tx[s] /\ message_rx'[s] = message_rx[s]
  /\ inbound'[s] = inbound[s] /\ outbound'[s] = outbound[s]
  /\ written'[s] = written[s] /\ read'[s] = read[s] /\ eof'[s] = eof[s]

(* The payload on its way stays complete in a step of the sender that adds *)
(* no payload and no FIN.                                                  *)
LEMMA SenderKeeps ==
  ASSUME TypeOK, NEW s \in Side, NEW o \in Side, o = Other(s),
         NothingMissing(s), Unmoved(o), written'[s] = written[s],
         writer_state'[s] = "open" /\ ~gone'[s] =>
           writer_state[s] = "open" /\ ~gone[s] /\ outbound'[s] = outbound[s],
         \/ wire'[o] = wire[o]
         \/ \E m \in Message : m.flag \notin {"none", "fin"} /\ wire'[o] = Append(wire[o], m)
  PROVE  NothingMissing(s)'
<1>1. Takes(o)' => Takes(o)
  BY Zenon DEF Takes, Unmoved
<1>2. Arrived(o)' = Arrived(o)
  BY Zenon DEF Arrived, Unmoved
<1>3. wire[o] \in Seq(Message) /\ Arrived(o) \in Nat /\ written[s] \in Nat
  BY DEF TypeOK, DataTyped, Arrived
<1>4. ASSUME Takes(o)
      PROVE  \E last \in Arrived(o) .. written[s] : Sent(s, last)'
  <2>1. PICK last \in Arrived(o) .. written[s] : Sent(s, last)
    BY <1>4, Zenon DEF NothingMissing
  <2>2. last \in Nat /\ Arrived(o) <= last
    BY <1>3
  <2>3. /\ InOrder(wire'[o], Arrived(o), last)
        /\ Has(wire'[o], "fin") => Has(wire[o], "fin")
    <3>1. InOrder(wire[o], Arrived(o), last)
      BY <2>1, Zenon DEF Sent
    <3>2. ASSUME NEW m \in Message, m.flag \notin {"none", "fin"},
                 wire'[o] = Append(wire[o], m)
          PROVE  /\ InOrder(wire'[o], Arrived(o), last)
                 /\ Has(wire'[o], "fin") => Has(wire[o], "fin")
      <4>1. \A f : Has(Append(wire[o], m), f) <=> Has(wire[o], f) \/ m.flag = f
        BY <1>3, FlagsOfAppend, Zenon
      <4>2. InOrder(Append(wire[o], m), Arrived(o), last)
        BY <1>3, <2>2, <3>1, <3>2, PayloadOfAppend, Zenon
      <4> QED BY <3>2, <4>1, <4>2, Zenon
    <3> QED BY <3>1, <3>2, Zenon
  <2>4. Sent(s, last)'
    BY <1>2, <2>1, <2>3, Zenon DEF Sent
  <2> QED BY <2>4, Zenon
<1>5. Follow(inbound'[o], read'[o])
  BY Zenon DEF NothingMissing, Unmoved
<1>6. Takes(o)' => \E last \in Arrived(o)' .. written'[s] : Sent(s, last)'
  BY <1>1, <1>2, <1>4, Zenon
<1>7. /\ reader_state'[o] # "open" /\ ~dropped'[o] /\ channel_state'[o] # "reset" =>
           Arrived(o)' = written'[s]
      /\ eof'[o] = "ok" =>
           reader_state'[o] # "open" /\ inbound'[o] = <<>> /\ read'[o] = written'[s]
  BY <1>2, Zenon DEF NothingMissing, Unmoved
<1> QED BY <1>5, <1>6, <1>7, Zenon DEF NothingMissing

(* ... and in a step of the receiver that takes no payload and no FIN. *)
LEMMA ReceiverKeeps ==
  ASSUME TypeOK, NEW s \in Side, NEW o \in Side, o = Other(s),
         NothingMissing(s), Unmoved(s),
         inbound'[o] = inbound[o], read'[o] = read[o], eof'[o] = eof[o],
         dropped'[o] = dropped[o], reader_state'[o] = "open" <=> reader_state[o] = "open",
         channel_state'[o] # "reset" => channel_state[o] # "reset",
         Takes(o)' =>
           /\ Takes(o)
           /\ \/ wire'[o] = wire[o]
              \/ /\ wire[o] # <<>> /\ wire'[o] = Tail(wire[o])
                 /\ Head(wire[o]).flag \notin {"none", "fin"}
  PROVE  NothingMissing(s)'
<1>1. Arrived(o)' = Arrived(o)
  BY Zenon DEF Arrived
<1>2. wire[o] \in Seq(Message) /\ Arrived(o) \in Nat /\ written[s] \in Nat
  BY DEF TypeOK, DataTyped, Arrived
<1>3. ASSUME Takes(o)'
      PROVE  \E last \in Arrived(o) .. written[s] : Sent(s, last)'
  <2>1. PICK last \in Arrived(o) .. written[s] : Sent(s, last)
    BY <1>3, Zenon DEF NothingMissing
  <2>2. last \in Nat
    BY <1>2
  <2>3. /\ InOrder(wire'[o], Arrived(o), last)
        /\ Has(wire'[o], "fin") => Has(wire[o], "fin")
    <3>1. InOrder(wire[o], Arrived(o), last)
      BY <2>1, Zenon DEF Sent
    <3>2. CASE wire'[o] = wire[o]
      BY <3>1, <3>2, Zenon
    <3>3. CASE wire[o] # <<>> /\ wire'[o] = Tail(wire[o])
                 /\ Head(wire[o]).flag \notin {"none", "fin"}
      <4>1. \A f : Has(Tail(wire[o]), f) => Has(wire[o], f)
        BY <1>2, <3>3, FlagsOfTail, Zenon
      <4>2. InOrder(Tail(wire[o]), Arrived(o), last)
        BY <1>2, <2>2, <3>1, <3>3, PayloadOfTail, Zenon
      <4> QED BY <3>3, <4>1, <4>2, Zenon
    <3> QED BY <1>3, <3>2, <3>3, Zenon
  <2>4. Sent(s, last)'
    BY <1>1, <2>1, <2>3, Zenon DEF Sent, Unmoved
  <2> QED BY <2>4, Zenon
<1>4. Follow(inbound'[o], read'[o])
  BY Zenon DEF NothingMissing
<1>5. Takes(o)' => \E last \in Arrived(o)' .. written'[s] : Sent(s, last)'
  BY <1>1, <1>3, Zenon DEF Unmoved
<1>6. /\ reader_state'[o] # "open" /\ ~dropped'[o] /\ channel_state'[o] # "reset" =>
           Arrived(o)' = written'[s]
      /\ eof'[o] = "ok" =>
           reader_state'[o] # "open" /\ inbound'[o] = <<>> /\ read'[o] = written'[s]
  BY <1>1, Zenon DEF NothingMissing, Unmoved
<1> QED BY <1>4, <1>5, <1>6, Zenon DEF NothingMissing

(* What taking the first message and adding one say about the flags. *)
Taken(t) ==
  \/ wire'[t] = wire[t]
  \/ wire[t] # <<>> /\ wire'[t] = Tail(wire[t])

Added(u, flags) ==
  \/ wire'[u] = wire[u]
  \/ \E m \in Message : m.flag \in flags /\ wire'[u] = Append(wire[u], m)

(* The states agree with the flags after a step that takes a message and   *)
(* may answer with a reset or close the channel, and changes no half.      *)
LEMMA FlagsKept ==
  ASSUME TypeOK, NEW t \in Side, NEW u \in Side, u = Other(t), t = Other(u),
         FlagsMatch(t), FlagsMatch(u),
         Unmoved(u), reader_state'[t] = reader_state[t], writer_state'[t] = writer_state[t],
         dropped[t] => dropped'[t],
         Taken(t), Added(u, {"reset", "close"})
  PROVE  FlagsMatch(t)' /\ FlagsMatch(u)'
<1>1. wire[t] \in Seq(Message) /\ wire[u] \in Seq(Message)
  BY Zenon DEF TypeOK, DataTyped
<1>2. /\ \A f : Has(wire'[t], f) => Has(wire[t], f)
      /\ Ordered(wire[t]) => Ordered(wire'[t])
  <2>1. CASE wire[t] # <<>> /\ wire'[t] = Tail(wire[t])
    BY <1>1, <2>1, FlagsOfTail, ZenonT(30)
  <2> QED BY <2>1, Zenon DEF Taken
<1>3. /\ \A f \in {"fin", "fin_ack", "stop_sending"} : Has(wire'[u], f) => Has(wire[u], f)
      /\ Ordered(wire[u]) => Ordered(wire'[u])
  <2>1. ASSUME NEW m \in Message, m.flag \in {"reset", "close"}, wire'[u] = Append(wire[u], m)
        PROVE  /\ \A f \in {"fin", "fin_ack", "stop_sending"} :
                    Has(wire'[u], f) => Has(wire[u], f)
               /\ Ordered(wire[u]) => Ordered(wire'[u])
    <3>1. /\ \A f : Has(Append(wire[u], m), f) <=> Has(wire[u], f) \/ m.flag = f
          /\ /\ Ordered(wire[u])
             /\ m.flag \in {"none", "fin"} => ~Has(wire[u], "fin")
             /\ m.flag = "fin_ack" => ~Has(wire[u], "fin_ack")
             => Ordered(Append(wire[u], m))
      BY <1>1, FlagsOfAppend, Zenon
    <3>2. m.flag \notin {"none", "fin", "fin_ack", "stop_sending"}
      BY <2>1, Zenon
    <3> QED BY <2>1, <3>1, <3>2, Zenon
  <2> QED BY <2>1, Zenon DEF Added
<1>4. FlagsMatch(t)'
  BY <1>2, <1>3, ZenonT(30) DEF FlagsMatch, Unmoved
<1>5. FlagsMatch(u)'
  BY <1>2, <1>3 DEF FlagsMatch, Unmoved
<1> QED BY <1>4, <1>5, Zenon

(* The invariant, without what follows from the rest. *)
Directions ==
  \A s \in Side : FlagsMatch(s) /\ HalvesClosed(s) /\ NothingMissing(s)

(* A step of t that moves no half, and no payload or FIN. *)
Quiet(t) ==
  LET u == Other(t) IN
  /\ Unmoved(u)
  /\ reader_state'[t] = reader_state[t] /\ writer_state'[t] = writer_state[t]
  /\ dropped'[t] = dropped[t] /\ inbound'[t] = inbound[t] /\ read'[t] = read[t]
  /\ eof'[t] = eof[t] /\ written'[t] = written[t]
  /\ ~gone'[t] => ~gone[t] /\ outbound'[t] = outbound[t]
  /\ channel_state'[t] # "reset" => channel_state[t] # "reset"
  /\ Taken(t) /\ Added(u, {"reset", "close"})
  /\ \/ wire'[t] = wire[t] /\ (Takes(t)' => Takes(t))
     \/ Head(wire[t]).flag \notin {"none", "fin"} /\ (Takes(t)' => Takes(t))
     \/ ~Takes(t)'
  /\ HalvesClosed(t)'

(* The other side is as it was. *)
LEMMA OtherHalves ==
  ASSUME NEW u \in Side, HalvesClosed(u), Unmoved(u) PROVE HalvesClosed(u)'
BY Zenon DEF HalvesClosed, WriterGone, Unmoved

(* Such a step keeps both directions. *)
LEMMA QuietKeeps ==
  ASSUME TypeOK, Directions, NEW t \in Side, Quiet(t) PROVE Directions'
<1> DEFINE u == Other(t)
<1>1. u \in Side /\ u = Other(t) /\ t = Other(u) /\ \A s \in Side : s = t \/ s = u
  BY Sides, Zenon
<1>2. /\ FlagsMatch(t) /\ HalvesClosed(t) /\ NothingMissing(t)
      /\ FlagsMatch(u) /\ HalvesClosed(u) /\ NothingMissing(u)
  BY <1>1, Zenon DEF Directions
<1>3. /\ Unmoved(u) /\ Taken(t) /\ Added(u, {"reset", "close"})
      /\ HalvesClosed(t)'
  BY Zenon DEF Quiet
<1> HIDE DEF u
<1>4. FlagsMatch(t)' /\ FlagsMatch(u)'
  <2>1. /\ reader_state'[t] = reader_state[t] /\ writer_state'[t] = writer_state[t]
        /\ dropped[t] => dropped'[t]
    BY Zenon DEF Quiet
  <2> QED BY <1>1, <1>2, <1>3, <2>1, FlagsKept, Zenon
<1>5. HalvesClosed(u)'
  BY <1>1, <1>2, <1>3, OtherHalves, Zenon
<1>6. NothingMissing(t)'
  <2>1. /\ written'[t] = written[t]
        /\ writer_state'[t] = "open" /\ ~gone'[t] =>
             writer_state[t] = "open" /\ ~gone[t] /\ outbound'[t] = outbound[t]
    BY Zenon DEF Quiet
  <2>2. \/ wire'[u] = wire[u]
        \/ \E m \in Message : m.flag \notin {"none", "fin"} /\ wire'[u] = Append(wire[u], m)
    BY <1>3, Zenon DEF Added
  <2> QED BY <1>1, <1>2, <1>3, <2>1, <2>2, SenderKeeps, Zenon
<1>7. NothingMissing(u)'
  <2>1. /\ inbound'[t] = inbound[t] /\ read'[t] = read[t] /\ eof'[t] = eof[t]
        /\ dropped'[t] = dropped[t] /\ (reader_state'[t] = "open" <=> reader_state[t] = "open")
        /\ channel_state'[t] # "reset" => channel_state[t] # "reset"
    BY Zenon DEF Quiet
  <2>2. Takes(t)' =>
          /\ Takes(t)
          /\ \/ wire'[t] = wire[t]
             \/ /\ wire[t] # <<>> /\ wire'[t] = Tail(wire[t])
                /\ Head(wire[t]).flag \notin {"none", "fin"}
    BY <1>3, Zenon DEF Quiet, Taken
  <2> QED BY <1>1, <1>2, <1>3, <2>1, <2>2, ReceiverKeeps, Zenon
<1>8. ASSUME NEW s \in Side
      PROVE  FlagsMatch(s)' /\ HalvesClosed(s)' /\ NothingMissing(s)'
  BY <1>1, <1>3, <1>4, <1>5, <1>6, <1>7, Zenon
<1> QED BY <1>8, Zenon DEF Directions

(* The messages without payload. *)
LEMMA FlagMessages ==
  ASSUME NEW f \in {"fin", "fin_ack", "stop_sending", "reset", "close"}
  PROVE  Flag(f) \in Message /\ Flag(f).flag = f
BY Zenon DEF Flag, Message

(* The sequences keep their types. *)
LEMMA SequenceTypes ==
  ASSUME TypeOK, NEW t \in Side
  PROVE  /\ wire[t] # <<>> =>
              /\ [wire EXCEPT ![t] = Tail(wire[t])] \in [Side -> Seq(Message)]
              /\ [wire EXCEPT ![t] = Tail(wire[t]), ![Other(t)] = Closes(t)]
                   \in [Side -> Seq(Message)]
              /\ Head(wire[t]).payload \in Nat
         /\ \A m \in Message :
              [wire EXCEPT ![Other(t)] = Append(wire[Other(t)], m)]
                \in [Side -> Seq(Message)]
         /\ inbound[t] # <<>> =>
              Head(inbound[t]) \in Nat /\ [inbound EXCEPT ![t] = Tail(inbound[t])]
                \in [Side -> Seq(Nat)]
         /\ \A n \in Nat : [inbound EXCEPT ![t] = Append(inbound[t], n)] \in [Side -> Seq(Nat)]
         /\ [inbound EXCEPT ![t] = <<>>] \in [Side -> Seq(Nat)]
         /\ outbound[t] # <<>> =>
              Head(outbound[t]) \in Nat /\ [outbound EXCEPT ![t] = Tail(outbound[t])]
                \in [Side -> Seq(Nat)]
         /\ \A n \in Nat : [outbound EXCEPT ![t] = Append(outbound[t], n)] \in [Side -> Seq(Nat)]
         /\ [outbound EXCEPT ![t] = <<>>] \in [Side -> Seq(Nat)]
<1> DEFINE u == Other(t)
<1>1. /\ u \in Side
      /\ wire \in [Side -> Seq(Message)]
      /\ inbound \in [Side -> Seq(Nat)] /\ outbound \in [Side -> Seq(Nat)]
  BY Sides, Zenon DEF TypeOK, DataTyped
<1>2. ASSUME NEW A, NEW f \in [Side -> Seq(A)], NEW s \in Side, NEW v \in A
      PROVE  /\ Append(f[s], v) \in Seq(A) /\ <<>> \in Seq(A)
             /\ f[s] # <<>> => Head(f[s]) \in A /\ Tail(f[s]) \in Seq(A)
  OBVIOUS
<1>3. ASSUME NEW A, NEW f \in [Side -> A], NEW s \in Side, NEW v \in A
      PROVE  [f EXCEPT ![s] = v] \in [Side -> A]
  OBVIOUS
<1>4. Flag("close") \in Message
  BY FlagMessages, Zenon
<1>5. ASSUME wire[t] # <<>>
      PROVE  Tail(wire[t]) \in Seq(Message) /\ Head(wire[t]) \in Message
  BY <1>1, <1>2, <1>4, <1>5, Zenon
<1>6. Closes(t) \in Seq(Message)
  BY <1>1, <1>2, <1>4, Zenon DEF Closes
<1>7. ASSUME wire[t] # <<>>
      PROVE  /\ [wire EXCEPT ![t] = Tail(wire[t])] \in [Side -> Seq(Message)]
             /\ [wire EXCEPT ![t] = Tail(wire[t]), ![u] = Closes(t)] \in [Side -> Seq(Message)]
             /\ Head(wire[t]).payload \in Nat
  <2> HIDE DEF u
  <2>1. [wire EXCEPT ![t] = Tail(wire[t])] \in [Side -> Seq(Message)]
    BY <1>1, <1>3, <1>5, <1>7, Zenon
  <2>2. [[wire EXCEPT ![t] = Tail(wire[t])] EXCEPT ![u] = Closes(t)] \in [Side -> Seq(Message)]
    BY <1>1, <1>3, <1>6, <2>1, Zenon
  <2>3. Head(wire[t]).payload \in Nat
    BY <1>5, <1>7, Zenon DEF Message
  <2> QED BY <2>1, <2>2, <2>3, Zenon
<1>8. ASSUME NEW m \in Message
      PROVE  [wire EXCEPT ![u] = Append(wire[u], m)] \in [Side -> Seq(Message)]
  BY <1>1, <1>2, <1>3, Zenon
<1>9. inbound[t] # <<>> =>
        Head(inbound[t]) \in Nat /\ [inbound EXCEPT ![t] = Tail(inbound[t])]
          \in [Side -> Seq(Nat)]
  <2>1. 0 \in Nat
    OBVIOUS
  <2> QED BY <1>1, <1>2, <1>3, <2>1, Zenon
<1>10. ASSUME NEW n \in Nat
       PROVE  /\ [inbound EXCEPT ![t] = Append(inbound[t], n)] \in [Side -> Seq(Nat)]
              /\ [outbound EXCEPT ![t] = Append(outbound[t], n)] \in [Side -> Seq(Nat)]
  BY <1>1, <1>2, <1>3, Zenon
<1>11. /\ [inbound EXCEPT ![t] = <<>>] \in [Side -> Seq(Nat)]
       /\ [outbound EXCEPT ![t] = <<>>] \in [Side -> Seq(Nat)]
  BY <1>1
<1>12. outbound[t] # <<>> =>
         Head(outbound[t]) \in Nat /\ [outbound EXCEPT ![t] = Tail(outbound[t])]
           \in [Side -> Seq(Nat)]
  <2>1. 0 \in Nat
    OBVIOUS
  <2> QED BY <1>1, <1>2, <1>3, <2>1, Zenon
<1> QED BY <1>7, <1>8, <1>9, <1>10, <1>11, <1>12, Zenon

(* Every step keeps the types. *)
LEMMA SubstreamTypes ==
  ASSUME TypeOK, Next PROVE TypeOK'
<1>1. PICK t \in Side :
    \/ Write(t) \/ Shutdown(t) \/ Read(t) \/ DropSubstream(t)
    \/ OnMessage(t)
    \/ PollInitReset(t) \/ PollStopSending(t) \/ ArmDeadline(t) \/ PollFinAck(t)
    \/ PollPayload(t) \/ PollFin(t) \/ PollEnd(t) \/ PollTimeout(t) \/ WriteFailure(t)
  BY Zenon DEF Next
<1>2. ASSUME NEW n \in Nat PROVE Payload(n) \in Message
  BY Zenon DEF Payload, Message
<1>3. /\ wire \in [Side -> Seq(Message)]
      /\ inbound \in [Side -> Seq(Nat)] /\ outbound \in [Side -> Seq(Nat)]
      /\ written \in [Side -> Nat] /\ read \in [Side -> Nat]
      /\ [written EXCEPT ![t] = written[t] + 1] \in [Side -> Nat]
      /\ written[t] + 1 \in Nat
  BY DEF TypeOK, DataTyped
<1>0. StatesTyped
  BY Zenon DEF TypeOK
<1>4. CASE Write(t)
  <2>1. DataTyped'
    BY <1>2, <1>3, <1>4, SequenceTypes, FlagMessages, Zenon
      DEF Write, Set, states, local, timers, DataTyped
  <2>4. StatesTyped'
    BY <1>0, <1>4, Zenon DEF Write, Set, states, local, timers, StatesTyped
  <2> QED BY <2>1, <2>4, Zenon DEF TypeOK
<1>5. CASE Shutdown(t)
  <2>1. DataTyped'
    BY <1>2, <1>3, <1>5, SequenceTypes, FlagMessages, Zenon
      DEF Shutdown, Set, states, local, timers, DataTyped
  <2>4. StatesTyped'
    BY <1>0, <1>5, Zenon DEF Shutdown, Set, states, local, timers, StatesTyped
  <2> QED BY <2>1, <2>4, Zenon DEF TypeOK
<1>6. CASE Read(t)
  <2>1. /\ wire' = wire /\ outbound' = outbound /\ written' = written
        /\ \/ UNCHANGED <<inbound, read>>
           \/ /\ inbound[t] # <<>>
              /\ inbound' = [inbound EXCEPT ![t] = Tail(inbound[t])]
              /\ read' = [read EXCEPT ![t] = Head(inbound[t])]
    BY <1>6, Zenon DEF Read, Set
  <2>2. ASSUME inbound[t] # <<>>
        PROVE  /\ [read EXCEPT ![t] = Head(inbound[t])] \in [Side -> Nat]
               /\ [inbound EXCEPT ![t] = Tail(inbound[t])] \in [Side -> Seq(Nat)]
    <3>1. Head(inbound[t]) \in Nat /\ [inbound EXCEPT ![t] = Tail(inbound[t])]
            \in [Side -> Seq(Nat)]
      BY <2>2, SequenceTypes, Zenon
    <3> QED BY <1>3, <3>1, Zenon
  <2>3. DataTyped'
    BY <1>3, <2>1, <2>2, Zenon DEF DataTyped
  <2>4. StatesTyped'
    BY <1>0, <1>6, Zenon DEF Read, Set, states, local, timers, StatesTyped
  <2> QED BY <2>3, <2>4, Zenon DEF TypeOK
<1>7. CASE DropSubstream(t)
  <2>1. DataTyped'
    BY <1>2, <1>3, <1>7, SequenceTypes, FlagMessages, Zenon
      DEF DropSubstream, Set, states, local, timers, DataTyped
  <2>4. StatesTyped'
    BY <1>0, <1>7, Zenon DEF DropSubstream, Set, states, local, timers, StatesTyped
  <2> QED BY <2>1, <2>4, Zenon DEF TypeOK
<1>8. CASE Discard(t)
  <2>1. DataTyped'
    BY <1>2, <1>3, <1>8, SequenceTypes, FlagMessages, Zenon
      DEF Discard, Receives, Set, states, local, timers, DataTyped
  <2>4. StatesTyped'
    BY <1>0, <1>8, Zenon DEF Discard, Receives, Set, states, local, timers, StatesTyped
  <2> QED BY <2>1, <2>4, Zenon DEF TypeOK
<1>9. CASE OnChannelClosed(t)
  <2>1. DataTyped'
    BY <1>2, <1>3, <1>9, SequenceTypes, FlagMessages, Zenon
      DEF OnChannelClosed, Receives, Removed, DropResets, Set, states, local, timers, DataTyped
  <2>4. StatesTyped'
    BY <1>0, <1>9, Zenon
      DEF OnChannelClosed, Receives, Removed, DropResets, Set, states, local, timers,
        StatesTyped
  <2> QED BY <2>1, <2>4, Zenon DEF TypeOK
<1>10. CASE OnPayload(t)
  <2>1. /\ wire[t] # <<>> /\ wire' = [wire EXCEPT ![t] = Tail(wire[t])]
        /\ outbound' = outbound /\ written' = written /\ read' = read
        /\ \/ inbound' = inbound
           \/ inbound' = [inbound EXCEPT ![t] = Append(inbound[t], Head(wire[t]).payload)]
    BY <1>10, Zenon DEF OnPayload, Receives, Set, local
  <2>2. /\ wire' \in [Side -> Seq(Message)] /\ Head(wire[t]).payload \in Nat
    BY <2>1, SequenceTypes, Zenon
  <2>5. inbound' \in [Side -> Seq(Nat)]
    <3>1. [inbound EXCEPT ![t] = Append(inbound[t], Head(wire[t]).payload)] \in [Side -> Seq(Nat)]
      BY <2>2, SequenceTypes, Zenon
    <3> QED BY <1>3, <2>1, <3>1, Zenon
  <2>3. DataTyped'
    BY <1>3, <2>1, <2>2, <2>5, Zenon DEF DataTyped
  <2>4. StatesTyped'
    BY <1>0, <1>10 DEF OnPayload, Receives, Handles, Set, states, local, timers, StatesTyped
  <2> QED BY <2>3, <2>4, Zenon DEF TypeOK
<1>11. CASE OnFin(t)
  <2>1. DataTyped'
    BY <1>2, <1>3, <1>11, SequenceTypes, FlagMessages, Zenon
      DEF OnFin, Receives, Handles, Set, states, local, timers, DataTyped
  <2>2. /\ reader_state' \in [Side -> {"open", "fin", "fin_ack"}]
        /\ message_tx' \in [Side -> BOOLEAN]
    <3>1. /\ \/ reader_state' = [reader_state EXCEPT ![t] = "fin"] \/ reader_state' = reader_state
          /\ \/ message_tx' = [message_tx EXCEPT ![t] = FALSE] \/ message_tx' = message_tx
      BY <1>11, Zenon DEF OnFin, Set
    <3>2. /\ reader_state \in [Side -> {"open", "fin", "fin_ack"}]
          /\ message_tx \in [Side -> BOOLEAN]
      BY <1>0, Zenon DEF StatesTyped
    <3>3. reader_state' \in [Side -> {"open", "fin", "fin_ack"}]
      BY <3>1, <3>2, Zenon
    <3>4. message_tx' \in [Side -> BOOLEAN]
      BY <3>1, <3>2, Zenon
    <3> QED BY <3>3, <3>4, Zenon
  <2>3. UNCHANGED <<channel_state, writer_state, dropped, tx, eof, gone, message_rx,
                    stop_sending_sent, fin_ack_timeout, teardown_deadline>>
    BY <1>11 DEF OnFin, local, timers
  <2>4. StatesTyped'
    BY <1>0, <2>2, <2>3, Zenon DEF StatesTyped
  <2> QED BY <2>1, <2>4, Zenon DEF TypeOK
<1>12. CASE OnFinAck(t)
  <2>1. /\ inbound' = inbound /\ written' = written /\ read' = read
        /\ wire[t] # <<>>
        /\ \/ wire' = [wire EXCEPT ![t] = Tail(wire[t])]
           \/ wire' = [wire EXCEPT ![t] = Tail(wire[t]), ![Other(t)] = Closes(t)]
        /\ outbound' = outbound \/ outbound' = [outbound EXCEPT ![t] = <<>>]
    BY <1>12, Zenon DEF OnFinAck, Handles, Receives, Removed, Set, local
  <2>2. wire' \in [Side -> Seq(Message)] /\ outbound' \in [Side -> Seq(Nat)]
    <3>1. /\ [wire EXCEPT ![t] = Tail(wire[t])] \in [Side -> Seq(Message)]
          /\ [wire EXCEPT ![t] = Tail(wire[t]), ![Other(t)] = Closes(t)]
               \in [Side -> Seq(Message)]
          /\ [outbound EXCEPT ![t] = <<>>] \in [Side -> Seq(Nat)]
      BY <2>1, SequenceTypes, Zenon
    <3> QED BY <1>3, <2>1, <3>1, Zenon
  <2>3. DataTyped'
    BY <1>3, <2>1, <2>2, Zenon DEF DataTyped
  <2>4. StatesTyped'
    <3>1. \/ /\ writer_state' = [writer_state EXCEPT ![t] = "fin_ack"]
             /\ UNCHANGED <<channel_state, reader_state, gone, message_tx, message_rx>>
          \/ Removed(t, "reset", writer_state[t], reader_state[t])
      BY <1>12, Zenon DEF OnFinAck, Set
    <3>2. UNCHANGED <<local, stop_sending_sent, timers>>
      BY <1>12, Zenon DEF OnFinAck
    <3>3. CASE Removed(t, "reset", writer_state[t], reader_state[t])
      BY <1>0, <3>2, <3>3, Zenon DEF Removed, DropResets, Set, local, timers, StatesTyped
    <3>4. CASE /\ writer_state' = [writer_state EXCEPT ![t] = "fin_ack"]
               /\ UNCHANGED <<channel_state, reader_state, gone, message_tx, message_rx>>
      BY <1>0, <3>2, <3>4, Zenon DEF local, timers, StatesTyped
    <3> QED BY <3>1, <3>3, <3>4, Zenon
  <2> QED BY <2>3, <2>4, Zenon DEF TypeOK
<1>13. CASE OnStopSending(t)
  <2>1. DataTyped'
    BY <1>2, <1>3, <1>13, SequenceTypes, FlagMessages, Zenon
      DEF OnStopSending, Receives, Handles, Set, states, local, timers, DataTyped
  <2>4. StatesTyped'
    BY <1>0, <1>13 DEF OnStopSending, Receives, Handles, Set, states, local, timers, StatesTyped
  <2> QED BY <2>1, <2>4, Zenon DEF TypeOK
<1>14. CASE OnReset(t)
  <2>1. DataTyped'
    BY <1>2, <1>3, <1>14, SequenceTypes, FlagMessages, Zenon
      DEF OnReset, Handles, Removed, DropResets, Set, states, local, timers, DataTyped
  <2>4. StatesTyped'
    BY <1>0, <1>14, Zenon
      DEF OnReset, Handles, Removed, DropResets, Closes, Set, states, local, timers, StatesTyped
  <2> QED BY <2>1, <2>4, Zenon DEF TypeOK
<1>15. CASE PollInitReset(t)
  <2>1. DataTyped'
    BY <1>2, <1>3, <1>15, SequenceTypes, FlagMessages, Zenon
      DEF PollInitReset, Emits, Set, states, local, timers, DataTyped
  <2>4. StatesTyped'
    BY <1>0, <1>15, Zenon DEF PollInitReset, Emits, Set, states, local, timers, StatesTyped
  <2> QED BY <2>1, <2>4, Zenon DEF TypeOK
<1>16. CASE PollStopSending(t)
  <2>1. DataTyped'
    BY <1>2, <1>3, <1>16, SequenceTypes, FlagMessages, Zenon
      DEF PollStopSending, Emits, PollOpen, Set, states, local, timers, DataTyped
  <2>4. StatesTyped'
    BY <1>0, <1>16, Zenon
      DEF PollStopSending, Emits, PollOpen, Set, states, local, timers, StatesTyped
  <2> QED BY <2>1, <2>4, Zenon DEF TypeOK
<1>17. CASE ArmDeadline(t)
  <2>1. DataTyped'
    BY <1>2, <1>3, <1>17, SequenceTypes, FlagMessages, Zenon
      DEF ArmDeadline, PollOpen, Set, states, local, timers, DataTyped
  <2>4. StatesTyped'
    BY <1>0, <1>17, Zenon DEF ArmDeadline, PollOpen, Set, states, local, timers, StatesTyped
  <2> QED BY <2>1, <2>4, Zenon DEF TypeOK
<1>18. CASE PollFinAck(t)
  <2>1. DataTyped'
    BY <1>2, <1>3, <1>18, SequenceTypes, FlagMessages, Zenon
      DEF PollFinAck, Emits, PollOpen, Set, states, local, timers, DataTyped
  <2>4. StatesTyped'
    BY <1>0, <1>18, Zenon
      DEF PollFinAck, Emits, PollOpen, Set, states, local, timers, StatesTyped
  <2> QED BY <2>1, <2>4, Zenon DEF TypeOK
<1>19. CASE PollPayload(t)
  <2>1. DataTyped'
    BY <1>2, <1>3, <1>19, SequenceTypes, FlagMessages, Zenon
      DEF PollPayload, Emits, PollWriter, PollOpen, Set, states, local, timers, DataTyped
  <2>4. StatesTyped'
    BY <1>0, <1>19, Zenon
      DEF PollPayload, Emits, PollWriter, PollOpen, Set, states, local, timers, StatesTyped
  <2> QED BY <2>1, <2>4, Zenon DEF TypeOK
<1>20. CASE PollFin(t)
  <2>1. DataTyped'
    BY <1>2, <1>3, <1>20, SequenceTypes, FlagMessages, Zenon
      DEF PollFin, Emits, PollWriter, PollOpen, Set, states, local, timers, DataTyped
  <2>4. StatesTyped'
    BY <1>0, <1>20, Zenon
      DEF PollFin, Emits, PollWriter, PollOpen, Set, states, local, timers, StatesTyped
  <2> QED BY <2>1, <2>4, Zenon DEF TypeOK
<1>21. CASE PollEnd(t)
  <2>1. DataTyped'
    BY <1>2, <1>3, <1>21, SequenceTypes, FlagMessages, Zenon
      DEF PollEnd, Removed, DropResets, Closes, PollWriter, PollOpen, Set, states, local,
         timers, DataTyped
  <2>4. StatesTyped'
    BY <1>0, <1>21, Zenon
      DEF PollEnd, Removed, DropResets, Closes, PollWriter, PollOpen, Set, states, local,
        timers, StatesTyped
  <2> QED BY <2>1, <2>4, Zenon DEF TypeOK
<1>22. CASE PollTimeout(t)
  <2>1. DataTyped'
    BY <1>2, <1>3, <1>22, SequenceTypes, FlagMessages, Zenon
      DEF PollTimeout, Emits, PollOpen, Set, states, local, timers, DataTyped
  <2>4. StatesTyped'
    BY <1>0, <1>22, Zenon
      DEF PollTimeout, Emits, PollOpen, Set, states, local, timers, StatesTyped
  <2> QED BY <2>1, <2>4, Zenon DEF TypeOK
<1>23. CASE WriteFailure(t)
  <2>1. DataTyped'
    BY <1>2, <1>3, <1>23, SequenceTypes, FlagMessages, Zenon
      DEF WriteFailure, Removed, DropResets, Closes, PollOpen, Set, states, local, timers,
         DataTyped
  <2>4. StatesTyped'
    BY <1>0, <1>23, Zenon
      DEF WriteFailure, Removed, DropResets, Closes, PollOpen, Set, states, local, timers,
        StatesTyped
  <2> QED BY <2>1, <2>4, Zenon DEF TypeOK
<1> QED BY <1>1, <1>4, <1>5, <1>6, <1>7, <1>8, <1>9, <1>10, <1>11, <1>12, <1>13, <1>14, <1>15,
   <1>16, <1>17, <1>18, <1>19, <1>20, <1>21, <1>22, <1>23, Zenon
  DEF OnMessage

(* The handle is dropped: after whatever message, and whatever was sent. *)
LEMMA RemovedQuiet ==
  ASSUME TypeOK, Directions, NEW t \in Side,
         \/ Removed(t, "reset", writer_state[t], reader_state[t])
         \/ Removed(t, channel_state[t], writer_state[t], reader_state[t]),
         UNCHANGED <<local, inbound, written>>,
         Taken(t), wire'[Other(t)] \in {wire[Other(t)], Closes(t)}
  PROVE  Directions'
<1> DEFINE u == Other(t)
<1>1. u \in Side /\ u # t /\ HalvesClosed(t)
  BY Sides, Zenon DEF Directions
<1>2. StatesTyped /\ DataTyped
  BY Zenon DEF TypeOK
<1> HIDE DEF u
<1>3. /\ dropped' = dropped /\ tx' = tx /\ read' = read /\ eof' = eof
      /\ inbound' = inbound /\ written' = written
  BY Zenon DEF local
<1>4. /\ gone'[t] = TRUE /\ gone'[u] = gone[u]
      /\ \/ channel_state'[t] = "reset"
         \/ channel_state'[t] = channel_state[t] /\ reader_state[t] = "fin_ack"
      /\ channel_state'[u] = channel_state[u]
      /\ writer_state'[t] = writer_state[t] /\ writer_state'[u] = writer_state[u]
      /\ reader_state'[t] = reader_state[t] /\ reader_state'[u] = reader_state[u]
      /\ message_tx'[t] = FALSE /\ message_tx'[u] = message_tx[u]
      /\ message_rx'[t] = "closed" /\ message_rx'[u] = message_rx[u]
      /\ outbound'[u] = outbound[u]
  <2>1. /\ gone' = [gone EXCEPT ![t] = TRUE]
        /\ writer_state' = [writer_state EXCEPT ![t] = writer_state[t]]
        /\ reader_state' = [reader_state EXCEPT ![t] = reader_state[t]]
        /\ message_tx' = [message_tx EXCEPT ![t] = FALSE]
        /\ message_rx' = [message_rx EXCEPT ![t] = "closed"]
        /\ outbound' = [outbound EXCEPT ![t] = <<>>]
    BY Zenon DEF Removed, Set
  <2>2. \/ channel_state' = [channel_state EXCEPT ![t] = "reset"]
        \/ /\ channel_state' = [channel_state EXCEPT ![t] = channel_state[t]]
           /\ reader_state[t] = "fin_ack"
    BY DEF Removed, Set, DropResets
  <2>3. /\ \/ channel_state'[t] = "reset"
           \/ channel_state'[t] = channel_state[t] /\ reader_state[t] = "fin_ack"
        /\ channel_state'[u] = channel_state[u]
    <3>1. DOMAIN channel_state = Side
      BY <1>2, Zenon DEF StatesTyped
    <3>2. CASE channel_state' = [channel_state EXCEPT ![t] = "reset"]
      BY <1>1, <3>1, <3>2, Zenon
    <3>3. CASE /\ channel_state' = [channel_state EXCEPT ![t] = channel_state[t]]
               /\ reader_state[t] = "fin_ack"
      BY <1>1, <3>1, <3>3, Zenon
    <3> QED BY <2>2, <3>2, <3>3, Zenon
  <2>4. /\ DOMAIN gone = Side /\ DOMAIN writer_state = Side /\ DOMAIN reader_state = Side
        /\ DOMAIN message_tx = Side /\ DOMAIN message_rx = Side /\ DOMAIN outbound = Side
    BY <1>2, Zenon DEF StatesTyped, DataTyped
  <2> QED BY <1>1, <2>1, <2>3, <2>4, Zenon
<1>5. Unmoved(u)
  BY <1>3, <1>4, Zenon DEF Unmoved
<1>6. Added(u, {"reset", "close"})
  BY FlagMessages, Zenon DEF Added, Closes, u
<1>7. HalvesClosed(t)'
  BY <1>1, <1>3, <1>4, Zenon DEF HalvesClosed, WriterGone
<1>8. ~Takes(t)'
  BY <1>4, Zenon DEF Takes
<1>9. channel_state'[t] # "reset" => channel_state[t] # "reset"
  BY <1>4, Zenon
<1>10. Quiet(t)
  BY <1>3, <1>4, <1>5, <1>6, <1>7, <1>8, <1>9, Zenon DEF Quiet, u
<1> QED BY <1>10, QuietKeeps, Zenon

(* A step of the handle that leaves the halves alone. *)
LEMMA IdleQuiet ==
  ASSUME TypeOK, Directions, NEW t \in Side,
         UNCHANGED <<reader_state, writer_state, dropped, read, eof, gone, message_tx, message_rx,
                     inbound, outbound, written>>,
         tx' = tx \/ tx' = [tx EXCEPT ![t] = "taken"],
         \/ channel_state' = channel_state
         \/ channel_state[t] = "open" /\ channel_state' = [channel_state EXCEPT ![t]
              = "init_reset"]
         \/ channel_state' = [channel_state EXCEPT ![t] = "reset"],
         Taken(t), Added(Other(t), {"reset", "close"}),
         \/ wire'[t] = wire[t]
         \/ Head(wire[t]).flag \notin {"none", "fin"}
         \/ ~Takes(t)
         \/ channel_state'[t] # "open"
  PROVE  Directions'
<1> DEFINE u == Other(t)
<1>1. u \in Side /\ u # t /\ HalvesClosed(t)
  BY Sides, Zenon DEF Directions
<1>2. StatesTyped
  BY Zenon DEF TypeOK
<1> HIDE DEF u
<1>3. /\ tx'[u] = tx[u] /\ (tx[t] = "taken" => tx'[t] = "taken")
      /\ channel_state'[u] = channel_state[u]
      /\ channel_state[t] = "reset" => channel_state'[t] = "reset"
      /\ channel_state'[t] = "open" => channel_state[t] = "open"
  BY <1>1, <1>2 DEF StatesTyped
<1>4. Unmoved(u)
  BY <1>3, Zenon DEF Unmoved
<1>5. HalvesClosed(t)'
  BY <1>1, <1>3, Zenon DEF HalvesClosed, WriterGone
<1>6. Takes(t)' => Takes(t) /\ channel_state'[t] = "open"
  BY <1>3, Zenon DEF Takes
<1>7. Quiet(t)
  BY <1>3, <1>4, <1>5, <1>6, Zenon DEF Quiet, u
<1> QED BY <1>7, QuietKeeps, Zenon

(* What a step does to the messages. *)
LEMMA WireSteps ==
  ASSUME TypeOK, NEW t \in Side
  PROVE  /\ Receives(t) =>
              /\ wire[t] # <<>> /\ wire'[t] = Tail(wire[t])
              /\ wire'[Other(t)] = wire[Other(t)]
              /\ Taken(t) /\ Added(Other(t), {"reset", "close"})
         /\ \A m : Emits(t, m) =>
              /\ wire'[t] = wire[t] /\ wire'[Other(t)] = Append(wire[Other(t)], m)
              /\ Taken(t)
         /\ Emits(t, Flag("reset")) => Added(Other(t), {"reset", "close"})
         /\ wire' = [wire EXCEPT ![Other(t)] = Closes(t)] =>
              Taken(t) /\ wire'[Other(t)] = Closes(t)
         /\ wire[t] # <<>> /\ wire' = [wire EXCEPT ![t] = Tail(wire[t]), ![Other(t)]
              = Closes(t)] =>
              Taken(t) /\ wire'[Other(t)] = Closes(t)
<1> DEFINE u == Other(t)
<1>1. /\ u \in Side /\ u # t
      /\ wire \in [Side -> Seq(Message)]
  BY Sides, Zenon DEF TypeOK, DataTyped
<1> HIDE DEF u
<1>3. ASSUME Receives(t)
      PROVE  /\ wire[t] # <<>> /\ wire'[t] = Tail(wire[t])
             /\ wire'[u] = wire[u]
             /\ Taken(t) /\ Added(u, {"reset", "close"})
  <2>1. wire[t] # <<>> /\ wire'[t] = Tail(wire[t]) /\ wire'[u] = wire[u]
    BY <1>1, <1>3, Zenon DEF Receives
  <2> QED BY <2>1, Zenon DEF Taken, Added
<1>4. ASSUME NEW m, Emits(t, m)
      PROVE  wire'[t] = wire[t] /\ wire'[u] = Append(wire[u], m) /\ Taken(t)
  <2>1. wire'[t] = wire[t] /\ wire'[u] = Append(wire[u], m)
    BY <1>1, <1>4, Zenon DEF Emits, u
  <2> QED BY <2>1, Zenon DEF Taken
<1>5. ASSUME Emits(t, Flag("reset")) PROVE Added(u, {"reset", "close"})
  <2>1. wire'[u] = Append(wire[u], Flag("reset"))
    BY <1>4, <1>5, Zenon
  <2>2. Flag("reset") \in Message /\ Flag("reset").flag \in {"reset", "close"}
    BY FlagMessages, Zenon
  <2> QED BY <2>1, <2>2, Zenon DEF Added
<1>6. ASSUME wire' = [wire EXCEPT ![u] = Closes(t)]
      PROVE  Taken(t) /\ wire'[u] = Closes(t)
  <2>1. wire'[t] = wire[t] /\ wire'[u] = Closes(t)
    BY <1>1, <1>6, Zenon
  <2> QED BY <2>1, Zenon DEF Taken
<1>7. ASSUME wire[t] # <<>>,
             wire' = [wire EXCEPT ![t] = Tail(wire[t]), ![u] = Closes(t)]
      PROVE  Taken(t) /\ wire'[u] = Closes(t)
  <2>1. wire'[t] = Tail(wire[t]) /\ wire'[u] = Closes(t)
    BY <1>1, <1>7, Zenon
  <2> QED BY <1>7, <2>1, Zenon DEF Taken
<1> QED BY <1>3, <1>4, <1>5, <1>6, <1>7, Zenon DEF u

(* The steps that move no half, and no payload or FIN. *)
LEMMA QuietSteps ==
  ASSUME TypeOK, Directions, NEW t \in Side,
         \/ Shutdown(t) \/ Discard(t) \/ OnChannelClosed(t) \/ OnReset(t)
         \/ PollInitReset(t) \/ ArmDeadline(t) \/ PollEnd(t) \/ PollTimeout(t)
         \/ WriteFailure(t)
  PROVE  Directions'
<1>0. wire' = wire => Taken(t) /\ Added(Other(t), {"reset", "close"})
  BY Zenon DEF Taken, Added
<1>1. CASE Shutdown(t) \/ ArmDeadline(t)
  <2>1. wire' = wire
    BY <1>1, Zenon DEF Shutdown, ArmDeadline
  <2>2. /\ UNCHANGED <<reader_state, writer_state, dropped, read, eof, gone, message_tx, message_rx,
                     inbound, outbound, written>>
        /\ tx' = tx \/ tx' = [tx EXCEPT ![t] = "taken"]
        /\ channel_state' = channel_state
    BY <1>1, Zenon DEF Shutdown, ArmDeadline, Set, states, local
  <2> QED BY <1>0, <2>1, <2>2, IdleQuiet, Zenon
<1>2. CASE Discard(t)
  <2>1. Receives(t) /\ ~Takes(t)
    BY <1>2, Zenon DEF Discard, Takes
  <2>2. /\ UNCHANGED <<reader_state, writer_state, dropped, read, eof, gone, message_tx, message_rx,
                     inbound, outbound, written>>
        /\ tx' = tx /\ channel_state' = channel_state
    BY <1>2, Zenon DEF Discard, states, local
  <2> QED BY <2>1, <2>2, WireSteps, IdleQuiet, Zenon
<1>3. CASE OnChannelClosed(t)
  <2>1. /\ Receives(t) /\ Removed(t, channel_state[t], writer_state[t], reader_state[t])
        /\ UNCHANGED <<local, inbound, written>>
    BY <1>3, Zenon DEF OnChannelClosed
  <2>2. Taken(t) /\ wire'[Other(t)] \in {wire[Other(t)], Closes(t)}
    BY <2>1, WireSteps, Zenon
  <2> QED BY <2>1, <2>2, RemovedQuiet, Zenon
<1>4. CASE OnReset(t)
  <2>1. /\ wire[t] # <<>>
        /\ wire' = [wire EXCEPT ![t] = Tail(wire[t]), ![Other(t)] = Closes(t)]
        /\ Removed(t, "reset", writer_state[t], reader_state[t])
        /\ UNCHANGED <<local, inbound, written>>
    BY <1>4, Zenon DEF OnReset, Handles
  <2>2. Taken(t) /\ wire'[Other(t)] \in {wire[Other(t)], Closes(t)}
    BY <2>1, WireSteps, Zenon
  <2> QED BY <2>1, <2>2, RemovedQuiet, Zenon
<1>5. CASE PollInitReset(t) \/ PollTimeout(t)
  <2>1. Emits(t, Flag("reset"))
    BY <1>5, Zenon DEF PollInitReset, PollTimeout
  <2>2. /\ UNCHANGED <<reader_state, writer_state, dropped, read, eof, gone, message_tx, message_rx,
                     inbound, outbound, written>>
        /\ tx' = tx /\ channel_state' = [channel_state EXCEPT ![t] = "reset"]
    BY <1>5, Zenon DEF PollInitReset, PollTimeout, Set, local
  <2>3. Taken(t) /\ Added(Other(t), {"reset", "close"}) /\ wire'[t] = wire[t]
    BY <2>1, WireSteps, Zenon
  <2> QED BY <2>2, <2>3, IdleQuiet, Zenon
<1>6. CASE PollEnd(t) \/ WriteFailure(t)
  <2>1. /\ wire' = [wire EXCEPT ![Other(t)] = Closes(t)]
        /\ Removed(t, channel_state[t], writer_state[t], reader_state[t])
        /\ UNCHANGED <<local, inbound, written>>
    BY <1>6, Zenon DEF PollEnd, WriteFailure
  <2>2. Taken(t) /\ wire'[Other(t)] \in {wire[Other(t)], Closes(t)}
    BY <2>1, WireSteps, Zenon
  <2> QED BY <2>1, <2>2, RemovedQuiet, Zenon
<1> QED BY <1>1, <1>2, <1>3, <1>4, <1>5, <1>6, Zenon

(* One more. *)
LEMMA OneMore == \A a, b \in Nat : a + 1 + b = a + (b + 1) /\ a + (b + 1) = a + b + 1
OBVIOUS

(* A number of a range. *)
LEMMA InRange ==
  \A a, b \in Nat : \A n \in a .. b : n \in Nat /\ a <= n
OBVIOUS

(* ... and the one after it. *)
LEMMA NextInRange ==
  \A a, b, n, l \in Nat : a <= n /\ n + 1 + l = b => n + 1 \in a .. b
OBVIOUS

(* The invariant of the two directions, from its parts. *)
LEMMA BothDirections ==
  ASSUME NEW t \in Side, NEW u \in Side, u = Other(t),
         FlagsMatch(t)', FlagsMatch(u)', HalvesClosed(t)', HalvesClosed(u)',
         NothingMissing(t)', NothingMissing(u)'
  PROVE  Directions'
<1>1. ASSUME NEW s \in Side
      PROVE  FlagsMatch(s)' /\ HalvesClosed(s)' /\ NothingMissing(s)'
  BY Sides, Zenon
<1> QED BY <1>1, Zenon DEF Directions

(* What the protocol writes is sent after what it wrote before. *)
LEMMA WriteStep ==
  ASSUME TypeOK, Directions, NEW t \in Side, Write(t) PROVE Directions'
<1> DEFINE u == Other(t)
<1>1. /\ u \in Side /\ u # t /\ u = Other(t) /\ t = Other(u)
      /\ FlagsMatch(t) /\ HalvesClosed(t) /\ NothingMissing(t)
      /\ FlagsMatch(u) /\ HalvesClosed(u) /\ NothingMissing(u)
  BY Sides, Zenon DEF Directions
<1> HIDE DEF u
<1>2. /\ UNCHANGED <<channel_state, reader_state, writer_state, dropped, tx, gone, message_tx,
                    message_rx, inbound, read, eof, wire>>
      /\ outbound'[t] = Append(outbound[t], written[t] + 1) /\ outbound'[u] = outbound[u]
      /\ written'[t] = written[t] + 1 /\ written'[u] = written[u]
      /\ written[t] \in Nat /\ outbound[t] \in Seq(Nat) /\ Arrived(u) \in Nat
      /\ ~WriterGone(t) /\ ~gone[t]
  <2>1. /\ outbound \in [Side -> Seq(Nat)] /\ outbound[t] \in Seq(Nat)
        /\ written \in [Side -> Nat] /\ written[t] \in Nat
        /\ read[u] \in Nat /\ inbound[u] \in Seq(Nat)
    BY <1>1, Zenon DEF TypeOK, DataTyped
  <2>2. Arrived(u) \in Nat
    BY <2>1 DEF Arrived
  <2>3. /\ outbound' = [outbound EXCEPT ![t] = Append(outbound[t], written[t] + 1)]
        /\ written' = [written EXCEPT ![t] = written[t] + 1]
        /\ tx[t] = "open" /\ message_rx[t] = "open" /\ ~gone[t]
    BY Zenon DEF Write, Set
  <2>4. ~WriterGone(t)
    BY <2>3 DEF WriterGone
  <2>5. UNCHANGED <<channel_state, reader_state, writer_state, dropped, tx, gone, message_tx,
                    message_rx, inbound, read, eof, wire>>
    BY DEF Write, states, local
  <2> QED BY <1>1, <2>1, <2>2, <2>3, <2>4, <2>5, Zenon
<1>3. writer_state[t] = "open" /\ ~Has(wire[u], "fin")
      /\ reader_state[u] \notin {"fin", "fin_ack"}
  BY <1>1, <1>2, Zenon DEF FlagsMatch, HalvesClosed
<1>4. Unmoved(u) /\ Taken(t) /\ Added(u, {"reset", "close"})
  BY <1>2, Zenon DEF Unmoved, Taken, Added
<1>5. FlagsMatch(t)' /\ FlagsMatch(u)'
  BY <1>1, <1>2, <1>4, FlagsKept, Zenon
<1>6. HalvesClosed(t)' /\ HalvesClosed(u)'
  BY <1>1, <1>2, Zenon DEF HalvesClosed, WriterGone
<1>7. NothingMissing(t)'
  <2>1. reader_state[u] = "open"
    BY <1>1, <1>3 DEF TypeOK, StatesTyped
  <2>2. Arrived(u)' = Arrived(u) /\ (Takes(u)' => Takes(u))
    BY <1>2, Zenon DEF Arrived, Takes
  <2>3. ASSUME Takes(u)
        PROVE  \E last \in Arrived(u) .. written'[t] : Sent(t, last)'
    <3>1. PICK last \in Arrived(u) .. written[t] : Sent(t, last)
      BY <1>1, <2>3, Zenon DEF NothingMissing
    <3>2. last \in Nat /\ last \in Arrived(u) .. written'[t]
      BY <1>2
    <3>3. /\ InOrder(wire[u], Arrived(u), last)
          /\ last + Len(outbound[t]) = written[t] /\ Follow(outbound[t], last)
      BY <1>1, <1>2, <1>3, <3>1, Zenon DEF Sent
    <3>4. /\ last + Len(outbound'[t]) = written'[t] /\ Follow(outbound'[t], last)
      <4>1. /\ Follow(Append(outbound[t], last + Len(outbound[t]) + 1), last)
            /\ Len(outbound[t]) \in Nat
            /\ \A v \in Nat : Len(Append(outbound[t], v)) = Len(outbound[t]) + 1
        BY <1>2, <3>2, <3>3, Following, Zenon
      <4>2. written[t] + 1 = last + Len(outbound[t]) + 1 /\ written[t] + 1 \in Nat
        BY <1>2, <3>2, <3>3, <4>1
      <4>3. Len(outbound'[t]) = Len(outbound[t]) + 1
        BY <1>2, <4>1, <4>2, Zenon
      <4>4. Follow(outbound'[t], last)
        BY <1>2, <4>1, <4>2, Zenon
      <4> QED BY <1>2, <3>2, <3>3, <4>1, <4>3, <4>4
    <3>5. Sent(t, last)'
      BY <1>1, <1>2, <1>3, <2>2, <3>3, <3>4, Zenon DEF Sent
    <3> QED BY <3>2, <3>5, Zenon
  <2> QED BY <1>1, <1>2, <2>1, <2>2, <2>3, Zenon DEF NothingMissing
<1>8. NothingMissing(u)'
  <2>1. Takes(t)' => Takes(t)
    BY <1>2, Zenon DEF Takes
  <2> QED BY <1>1, <1>2, <1>4, <2>1, ReceiverKeeps, Zenon
<1> QED BY <1>1, <1>5, <1>6, <1>7, <1>8, BothDirections, Zenon

(* A read takes the next message, or finds the end. *)
LEMMA ReadStep ==
  ASSUME TypeOK, Directions, NEW t \in Side, Read(t) PROVE Directions'
<1> DEFINE u == Other(t)
<1>1. /\ u \in Side /\ u # t /\ u = Other(t) /\ t = Other(u)
      /\ FlagsMatch(t) /\ HalvesClosed(t) /\ NothingMissing(t)
      /\ FlagsMatch(u) /\ HalvesClosed(u) /\ NothingMissing(u)
  BY Sides, Zenon DEF Directions
<1> HIDE DEF u
<1>2. /\ UNCHANGED <<channel_state, reader_state, writer_state, dropped, tx, gone, message_tx,
                    message_rx, outbound, written, wire>>
      /\ inbound'[u] = inbound[u] /\ read'[u] = read[u] /\ eof'[u] = eof[u]
      /\ \/ /\ inbound[t] # <<>> /\ inbound'[t] = Tail(inbound[t])
            /\ read'[t] = Head(inbound[t]) /\ eof'[t] = eof[t]
         \/ /\ inbound[t] = <<>> /\ (gone[t] \/ ~message_tx[t])
            /\ inbound'[t] = inbound[t] /\ read'[t] = read[t]
            /\ eof'[t] = "ok" => channel_state[t] # "reset"
      /\ read[t] \in Nat /\ inbound[t] \in Seq(Nat) /\ ~dropped[t]
  <2>1. /\ inbound \in [Side -> Seq(Nat)] /\ inbound[t] \in Seq(Nat)
        /\ read \in [Side -> Nat] /\ read[t] \in Nat
        /\ eof \in [Side -> {"none", "ok", "reset"}]
    BY <1>1, Zenon DEF TypeOK, DataTyped, StatesTyped
  <2>2. /\ ~dropped[t]
        /\ \/ /\ inbound[t] # <<>> /\ eof' = eof
              /\ read' = [read EXCEPT ![t] = Head(inbound[t])]
              /\ inbound' = [inbound EXCEPT ![t] = Tail(inbound[t])]
           \/ /\ inbound[t] = <<>> /\ (gone[t] \/ ~message_tx[t])
              /\ eof' = [eof EXCEPT ![t] = IF channel_state[t] = "reset" THEN "reset" ELSE "ok"]
              /\ read' = read /\ inbound' = inbound
    BY Zenon DEF Read, Set
  <2>3. UNCHANGED <<channel_state, reader_state, writer_state, dropped, tx, gone, message_tx,
                    message_rx, outbound, written, wire>>
    BY DEF Read, states
  <2> QED BY <1>1, <2>1, <2>2, <2>3
<1>4. Unmoved(u) /\ Taken(t) /\ Added(u, {"reset", "close"})
  BY <1>2, Zenon DEF Unmoved, Taken, Added
<1>5. FlagsMatch(t)' /\ FlagsMatch(u)'
  BY <1>1, <1>2, <1>4, FlagsKept, Zenon
<1>6. HalvesClosed(t)' /\ HalvesClosed(u)'
  BY <1>1, <1>2, Zenon DEF HalvesClosed, WriterGone
<1>7. NothingMissing(t)'
  BY <1>1, <1>2, <1>4, SenderKeeps, Zenon
<1>8. NothingMissing(u)'
  <2>1. Follow(inbound'[t], read'[t]) /\ Arrived(t)' = Arrived(t)
    <3>1. Follow(inbound[t], read[t])
      BY <1>1, Zenon DEF NothingMissing
    <3>2. CASE /\ inbound[t] # <<>> /\ inbound'[t] = Tail(inbound[t])
               /\ read'[t] = Head(inbound[t])
      <4>1. /\ Head(inbound[t]) = read[t] + 1 /\ Follow(Tail(inbound[t]), read[t] + 1)
            /\ Tail(inbound[t]) \in Seq(Nat) /\ Len(inbound[t]) = Len(Tail(inbound[t])) + 1
        BY <1>2, <3>1, <3>2, Following, Zenon
      <4>2. Follow(inbound'[t], read'[t])
        BY <3>2, <4>1, Zenon
      <4>3. read'[t] = read[t] + 1 /\ Len(inbound[t]) = Len(inbound'[t]) + 1
        BY <3>2, <4>1, Zenon
      <4>4. Len(inbound'[t]) \in Nat
        BY <3>2, <4>1
      <4>5. read[t] + 1 + Len(inbound'[t]) = read[t] + (Len(inbound'[t]) + 1)
        BY <1>2, <4>4, OneMore, Zenon
      <4> QED BY <4>2, <4>3, <4>5, Zenon DEF Arrived
    <3>3. CASE inbound'[t] = inbound[t] /\ read'[t] = read[t]
      BY <3>1, <3>3, Zenon DEF Arrived
    <3> QED BY <1>2, <3>2, <3>3, Zenon
  <2>2. Takes(t)' = Takes(t) /\ \A last : Sent(u, last)' = Sent(u, last)
    BY <1>1, <1>2, <2>1, Zenon DEF Takes, Sent
  <2>3. eof'[t] = "ok" =>
          reader_state[t] # "open" /\ inbound'[t] = <<>> /\ read'[t] = written[u]
    <3>1. CASE inbound[t] # <<>> /\ eof'[t] = eof[t]
      BY <1>1, <3>1, Zenon DEF NothingMissing
    <3>2. CASE /\ inbound[t] = <<>> /\ (gone[t] \/ ~message_tx[t])
               /\ inbound'[t] = inbound[t] /\ read'[t] = read[t]
               /\ eof'[t] = "ok" => channel_state[t] # "reset"
      <4>1. SUFFICES ASSUME eof'[t] = "ok"
                     PROVE  reader_state[t] # "open" /\ read[t] = written[u]
        BY <3>2, Zenon
      <4>2. reader_state[t] # "open" /\ channel_state[t] # "reset"
        BY <1>1, <3>2, <4>1, Zenon DEF HalvesClosed
      <4>3. Arrived(t) = written[u]
        BY <1>1, <1>2, <4>2, Zenon DEF NothingMissing
      <4> QED BY <1>2, <3>2, <4>2, <4>3 DEF Arrived
    <3> QED BY <1>2, <3>1, <3>2, Zenon
  <2>4. /\ Takes(t)' => \E last \in Arrived(t)' .. written'[u] : Sent(u, last)'
        /\ reader_state'[t] # "open" /\ ~dropped'[t] /\ channel_state'[t] # "reset" =>
             Arrived(t)' = written'[u]
    BY <1>1, <1>2, <2>1, <2>2, Zenon DEF NothingMissing
  <2> QED BY <1>1, <1>2, <2>1, <2>3, <2>4, Zenon DEF NothingMissing
<1> QED BY <1>1, <1>5, <1>6, <1>7, <1>8, BothDirections, Zenon

(* A protocol that drops its substream takes nothing more. *)
LEMMA DropStep ==
  ASSUME TypeOK, Directions, NEW t \in Side, DropSubstream(t) PROVE Directions'
<1> DEFINE u == Other(t)
<1>1. /\ u \in Side /\ u # t /\ u = Other(t) /\ t = Other(u)
      /\ FlagsMatch(t) /\ HalvesClosed(t) /\ NothingMissing(t)
      /\ FlagsMatch(u) /\ HalvesClosed(u) /\ NothingMissing(u)
  BY Sides, Zenon DEF Directions
<1> HIDE DEF u
<1>2. /\ UNCHANGED <<channel_state, reader_state, writer_state, gone, message_tx,
                    message_rx, outbound, written, read, eof, wire>>
      /\ dropped'[t] = TRUE /\ dropped'[u] = dropped[u]
      /\ tx'[t] = "taken" /\ tx'[u] = tx[u]
      /\ inbound'[t] = <<>> /\ inbound'[u] = inbound[u]
  BY <1>1 DEF DropSubstream, Set, states, TypeOK, DataTyped, StatesTyped
<1>4. Unmoved(u) /\ Taken(t) /\ Added(u, {"reset", "close"})
  BY <1>2, Zenon DEF Unmoved, Taken, Added
<1>5. FlagsMatch(t)' /\ FlagsMatch(u)'
  BY <1>1, <1>2, <1>4, FlagsKept, Zenon
<1>6. HalvesClosed(t)' /\ HalvesClosed(u)'
  BY <1>1, <1>2, Zenon DEF HalvesClosed, WriterGone
<1>7. NothingMissing(t)'
  BY <1>1, <1>2, <1>4, SenderKeeps, Zenon
<1>8. NothingMissing(u)'
  <2>1. Follow(inbound'[t], read'[t]) /\ ~Takes(t)'
    BY <1>2, EmptyFollows, Zenon DEF Takes
  <2> QED BY <1>1, <1>2, <2>1, Zenon DEF NothingMissing
<1> QED BY <1>1, <1>5, <1>6, <1>7, <1>8, BothDirections, Zenon

(* Payload is delivered in order, or ignored, or resets the channel. *)
LEMMA PayloadStep ==
  ASSUME TypeOK, Directions, NEW t \in Side, OnPayload(t) PROVE Directions'
<1> DEFINE u == Other(t)
<1>1. /\ u \in Side /\ u # t /\ u = Other(t) /\ t = Other(u)
      /\ FlagsMatch(t) /\ HalvesClosed(t) /\ NothingMissing(t)
      /\ FlagsMatch(u) /\ HalvesClosed(u) /\ NothingMissing(u)
  BY Sides, Zenon DEF Directions
<1> HIDE DEF u
<1>2. /\ UNCHANGED <<reader_state, writer_state, dropped, tx, read, eof, gone, message_tx,
                    message_rx, outbound, written>>
      /\ Head(wire[t]).flag = "none" /\ ~gone[t] /\ channel_state[t] = "open"
      /\ Receives(t)
  BY Zenon DEF OnPayload, Handles, local
<1>3. /\ wire[t] # <<>> /\ wire'[t] = Tail(wire[t]) /\ wire'[u] = wire[u]
      /\ Taken(t) /\ Added(u, {"reset", "close"})
  BY <1>1, <1>2, WireSteps, Zenon
<1>4. CASE inbound' = inbound /\ channel_state' = channel_state /\ (~message_tx[t] \/ dropped[t])
  <2>1. ~Takes(t)
    BY <1>1, <1>2, <1>4, Zenon DEF Takes, HalvesClosed
  <2> QED BY <1>1, <1>2, <1>3, <1>4, <2>1, IdleQuiet, Zenon
<1>5. CASE inbound' = inbound /\ channel_state' = [channel_state EXCEPT ![t] = "init_reset"]
  <2>1. channel_state'[t] # "open"
    BY <1>5, Zenon DEF TypeOK, StatesTyped
  <2> QED BY <1>1, <1>2, <1>3, <1>5, <2>1, IdleQuiet, Zenon
<1>6. CASE /\ message_tx[t] /\ ~dropped[t] /\ channel_state' = channel_state
           /\ inbound' = [inbound EXCEPT ![t] = Append(inbound[t], Head(wire[t]).payload)]
  <2>1. /\ inbound'[t] = Append(inbound[t], Head(wire[t]).payload) /\ inbound'[u] = inbound[u]
        /\ inbound[t] \in Seq(Nat) /\ read[t] \in Nat /\ wire[t] \in Seq(Message)
        /\ written[u] \in Nat /\ Arrived(t) \in Nat
    BY <1>1, <1>6 DEF TypeOK, DataTyped, Arrived
  <2>2. Unmoved(u)
    BY <1>2, <1>6, <2>1, Zenon DEF Unmoved
  <2>3. FlagsMatch(t)' /\ FlagsMatch(u)'
    BY <1>1, <1>2, <1>3, <2>2, FlagsKept, Zenon
  <2>4. HalvesClosed(t)' /\ HalvesClosed(u)'
    BY <1>1, <1>2, <1>6, Zenon DEF HalvesClosed, WriterGone
  <2>5. NothingMissing(t)'
    BY <1>1, <1>2, <1>3, <2>2, SenderKeeps, Zenon
  <2>6. Takes(t) /\ reader_state[t] = "open"
    BY <1>1, <1>2, <1>6, Zenon DEF Takes, HalvesClosed
  <2>7. PICK last \in Arrived(t) .. written[u] : Sent(u, last)
    BY <1>1, <2>6, Zenon DEF NothingMissing
  <2>8. last \in Nat /\ InOrder(wire[t], Arrived(t), last)
    BY <1>1, <2>1, <2>7 DEF Sent
  <2>9. /\ Head(wire[t]).payload = Arrived(t) + 1 /\ Arrived(t) + 1 <= last
        /\ InOrder(Tail(wire[t]), Arrived(t) + 1, last)
    BY <1>2, <1>3, <2>1, <2>8, PayloadOfTail, Zenon
  <2>10. Follow(inbound'[t], read'[t]) /\ Arrived(t)' = Arrived(t) + 1
    <3>1. Follow(inbound[t], read[t])
      BY <1>1, Zenon DEF NothingMissing
    <3>2. /\ Follow(Append(inbound[t], read[t] + Len(inbound[t]) + 1), read[t])
          /\ Len(inbound[t]) \in Nat
          /\ \A v \in Nat : Len(Append(inbound[t], v)) = Len(inbound[t]) + 1
      BY <2>1, <3>1, Following, Zenon
    <3>3. Arrived(t) + 1 = read[t] + Len(inbound[t]) + 1 /\ Arrived(t) + 1 \in Nat
      BY <2>1, <3>2 DEF Arrived
    <3>4. Len(inbound'[t]) = Len(inbound[t]) + 1 /\ Follow(inbound'[t], read'[t])
      BY <1>2, <2>1, <2>9, <3>2, <3>3, Zenon
    <3>5. read[t] + (Len(inbound[t]) + 1) = read[t] + Len(inbound[t]) + 1
      BY <2>1, <3>2, OneMore, Zenon
    <3> QED BY <1>2, <3>3, <3>4, <3>5, Zenon DEF Arrived
  <2>11. last \in Arrived(t)' .. written'[u]
    BY <1>2, <2>1, <2>7, <2>8, <2>9, <2>10
  <2>12. Sent(u, last)'
    <3>1. \A f : Has(Tail(wire[t]), f) => Has(wire[t], f)
      BY <1>3, <2>1, FlagsOfTail, Zenon
    <3> QED BY <1>1, <1>2, <1>3, <2>7, <2>9, <2>10, <3>1, Zenon DEF Sent
  <2>13. NothingMissing(u)'
    BY <1>1, <1>2, <2>6, <2>10, <2>11, <2>12, Zenon DEF NothingMissing
  <2> QED BY <1>1, <2>3, <2>4, <2>5, <2>13, BothDirections, Zenon
<1> QED BY <1>4, <1>5, <1>6, Zenon DEF OnPayload, Set

(* FIN closes the half of the reader, after all the payload. *)
LEMMA FinStep ==
  ASSUME TypeOK, Directions, NEW t \in Side, OnFin(t) PROVE Directions'
<1> DEFINE u == Other(t)
<1>1. /\ u \in Side /\ u # t /\ u = Other(t) /\ t = Other(u)
      /\ FlagsMatch(t) /\ HalvesClosed(t) /\ NothingMissing(t)
      /\ FlagsMatch(u) /\ HalvesClosed(u) /\ NothingMissing(u)
  BY Sides, Zenon DEF Directions
<1> HIDE DEF u
<1>2. /\ UNCHANGED <<channel_state, writer_state, dropped, tx, read, eof, gone, message_rx,
                    inbound, outbound, written>>
      /\ Head(wire[t]).flag = "fin" /\ ~gone[t] /\ channel_state[t] = "open"
      /\ Receives(t)
  BY Zenon DEF OnFin, Handles, local
<1>3. /\ wire[t] # <<>> /\ wire'[t] = Tail(wire[t]) /\ wire'[u] = wire[u]
      /\ Taken(t) /\ Added(u, {"reset", "close"})
  BY <1>1, <1>2, WireSteps, Zenon
<1>4. wire[t] \in Seq(Message) /\ wire[u] \in Seq(Message)
  BY <1>1, Zenon DEF TypeOK, DataTyped
<1>5. /\ Has(wire[t], Head(wire[t]).flag)
      /\ \A f : Has(wire'[t], f) => Has(wire[t], f)
      /\ Ordered(wire'[t])
      /\ Head(wire[t]).flag = "fin" => ~Has(wire'[t], "fin") /\ ~Has(wire[t], "none")
      /\ Head(wire[t]).flag = "fin_ack" => ~Has(wire'[t], "fin_ack")
  <2>1. Ordered(wire[t])
    BY <1>1, Zenon DEF FlagsMatch
  <2> QED BY <1>3, <1>4, <2>1, FlagsOfTail, Zenon
<1>6. CASE reader_state[t] # "open"
  <2>1. reader_state' = reader_state /\ message_tx' = message_tx
    BY <1>6, Zenon DEF OnFin
  <2>2. ~Takes(t)
    BY <1>6, Zenon DEF Takes
  <2> QED BY <1>1, <1>2, <1>3, <2>1, <2>2, IdleQuiet, Zenon
<1>7. CASE reader_state[t] = "open"
  <2>1. /\ reader_state'[t] = "fin" /\ reader_state'[u] = reader_state[u]
        /\ message_tx'[t] = FALSE /\ message_tx'[u] = message_tx[u]
    BY <1>1, <1>7 DEF OnFin, Set, TypeOK, StatesTyped
  <2>2. Unmoved(u)
    BY <1>2, <2>1, Zenon DEF Unmoved
  <2>3. writer_state[u] = "fin" /\ ~Has(wire[u], "fin_ack")
    BY <1>1, <1>2, <1>5, <1>7, Zenon DEF FlagsMatch
  <2>4. FlagsMatch(t)'
    BY <1>1, <1>2, <1>3, <1>5, <2>1, Zenon DEF FlagsMatch
  <2>5. FlagsMatch(u)'
    BY <1>1, <1>2, <1>3, <1>5, <2>1, <2>3, Zenon DEF FlagsMatch
  <2>6. HalvesClosed(t)' /\ HalvesClosed(u)'
    BY <1>1, <1>2, <2>1, Zenon DEF HalvesClosed, WriterGone
  <2>7. NothingMissing(t)'
    BY <1>1, <1>2, <1>3, <2>2, SenderKeeps, Zenon
  <2>8. ~dropped[t] => Arrived(t) = written[u]
    <3>1. SUFFICES ASSUME ~dropped[t] PROVE Arrived(t) = written[u]
      BY Zenon
    <3>2. Takes(t)
      BY <1>2, <1>7, <3>1, Zenon DEF Takes
    <3>3. PICK last \in Arrived(t) .. written[u] : Sent(u, last)
      BY <1>1, <3>2, Zenon DEF NothingMissing
    <3>4. Arrived(t) \in Nat /\ written[u] \in Nat
      BY <1>1 DEF TypeOK, DataTyped, Arrived
    <3>5. last \in Nat /\ Arrived(t) <= last
      BY <3>4
    <3>6. InOrder(wire[t], Arrived(t), last) /\ last = written[u]
      BY <1>1, <1>2, <1>5, <3>3, Zenon DEF Sent
    <3>7. Arrived(t) = last
      BY <1>2, <1>4, <1>5, <3>4, <3>5, <3>6, PayloadOfAppend, Zenon
    <3> QED BY <3>6, <3>7, Zenon
  <2>9. Arrived(t)' = Arrived(t) /\ ~Takes(t)'
    BY <1>2, <2>1, Zenon DEF Arrived, Takes
  <2>10. NothingMissing(u)'
    BY <1>1, <1>2, <1>7, <2>8, <2>9, Zenon DEF NothingMissing
  <2> QED BY <1>1, <2>4, <2>5, <2>6, <2>7, <2>10, BothDirections, Zenon
<1> QED BY <1>6, <1>7, Zenon

(* FIN_ACK answers a FIN. *)
LEMMA FinAckStep ==
  ASSUME TypeOK, Directions, NEW t \in Side, OnFinAck(t) PROVE Directions'
<1> DEFINE u == Other(t)
<1>1. /\ u \in Side /\ u # t /\ u = Other(t) /\ t = Other(u)
      /\ FlagsMatch(t) /\ HalvesClosed(t) /\ NothingMissing(t)
      /\ FlagsMatch(u) /\ HalvesClosed(u) /\ NothingMissing(u)
  BY Sides, Zenon DEF Directions
<1> HIDE DEF u
<1>0. /\ Head(wire[t]).flag = "fin_ack" /\ wire[t] # <<>>
      /\ wire[t] \in Seq(Message)
  BY Zenon DEF OnFinAck, Handles, TypeOK, DataTyped
<1>01. Has(wire[t], "fin_ack")
  BY <1>0, FlagsOfTail, Zenon
<1>02. writer_state[t] = "fin" /\ reader_state[u] = "fin_ack"
  BY <1>01, <1>1, Zenon DEF FlagsMatch
<1>2. /\ UNCHANGED <<channel_state, reader_state, gone, message_tx, message_rx, outbound,
                    dropped, tx, read, eof, inbound, written>>
      /\ writer_state'[t] = "fin_ack" /\ writer_state'[u] = writer_state[u]
      /\ Receives(t)
  BY <1>02, <1>1, Zenon DEF OnFinAck, Set, local, TypeOK, StatesTyped
<1>3. /\ wire[t] # <<>> /\ wire'[t] = Tail(wire[t]) /\ wire'[u] = wire[u]
      /\ Taken(t) /\ Added(u, {"reset", "close"})
  BY <1>1, <1>2, WireSteps, Zenon
<1>4. wire[t] \in Seq(Message) /\ wire[u] \in Seq(Message)
  BY <1>1, Zenon DEF TypeOK, DataTyped
<1>5. /\ Has(wire[t], Head(wire[t]).flag)
      /\ \A f : Has(wire'[t], f) => Has(wire[t], f)
      /\ Ordered(wire'[t])
      /\ Head(wire[t]).flag = "fin" => ~Has(wire'[t], "fin") /\ ~Has(wire[t], "none")
      /\ Head(wire[t]).flag = "fin_ack" => ~Has(wire'[t], "fin_ack")
  <2>1. Ordered(wire[t])
    BY <1>1, Zenon DEF FlagsMatch
  <2> QED BY <1>3, <1>4, <2>1, FlagsOfTail, Zenon
<1>6. Unmoved(u)
  BY <1>2, Zenon DEF Unmoved
<1>7. FlagsMatch(t)'
  BY <1>0, <1>02, <1>1, <1>2, <1>3, <1>5, Zenon DEF FlagsMatch
<1>8. FlagsMatch(u)'
  BY <1>1, <1>2, <1>3, <1>5, Zenon DEF FlagsMatch
<1>9. HalvesClosed(t)' /\ HalvesClosed(u)'
  BY <1>02, <1>1, <1>2, Zenon DEF HalvesClosed, WriterGone
<1>10. NothingMissing(t)'
  <2>1. writer_state'[t] # "open"
    BY <1>2, Zenon
  <2> QED BY <1>1, <1>2, <1>3, <1>6, <2>1, SenderKeeps, Zenon
<1>11. NothingMissing(u)'
  <2>1. Takes(t)' => Takes(t)
    BY <1>2, Zenon DEF Takes
  <2>2. Head(wire[t]).flag \notin {"none", "fin"}
    BY <1>0, Zenon
  <2> QED BY <1>1, <1>2, <1>3, <1>6, <2>1, <2>2, ReceiverKeeps, Zenon
<1> QED BY <1>1, <1>7, <1>8, <1>9, <1>10, <1>11, BothDirections, Zenon

(* STOP_SENDING closes the half of the writer. *)
LEMMA StopSendingStep ==
  ASSUME TypeOK, Directions, NEW t \in Side, OnStopSending(t) PROVE Directions'
<1> DEFINE u == Other(t)
<1>1. /\ u \in Side /\ u # t /\ u = Other(t) /\ t = Other(u)
      /\ FlagsMatch(t) /\ HalvesClosed(t) /\ NothingMissing(t)
      /\ FlagsMatch(u) /\ HalvesClosed(u) /\ NothingMissing(u)
  BY Sides, Zenon DEF Directions
<1> HIDE DEF u
<1>2. /\ UNCHANGED <<channel_state, reader_state, dropped, tx, read, eof, gone, message_tx,
                    inbound, outbound, written>>
      /\ Head(wire[t]).flag = "stop_sending"
      /\ Receives(t)
  BY Zenon DEF OnStopSending, Handles, local
<1>3. /\ wire[t] # <<>> /\ wire'[t] = Tail(wire[t]) /\ wire'[u] = wire[u]
      /\ Taken(t) /\ Added(u, {"reset", "close"})
  BY <1>1, <1>2, WireSteps, Zenon
<1>4. wire[t] \in Seq(Message) /\ wire[u] \in Seq(Message)
  BY <1>1, Zenon DEF TypeOK, DataTyped
<1>5. /\ Has(wire[t], Head(wire[t]).flag)
      /\ \A f : Has(wire'[t], f) => Has(wire[t], f)
      /\ Ordered(wire'[t])
      /\ Head(wire[t]).flag = "fin" => ~Has(wire'[t], "fin") /\ ~Has(wire[t], "none")
      /\ Head(wire[t]).flag = "fin_ack" => ~Has(wire'[t], "fin_ack")
  <2>1. Ordered(wire[t])
    BY <1>1, Zenon DEF FlagsMatch
  <2> QED BY <1>3, <1>4, <2>1, FlagsOfTail, Zenon
<1>0. Head(wire[t]).flag \notin {"none", "fin"}
  BY <1>2, Zenon
<1>6. CASE writer_state[t] \in {"fin", "fin_ack"}
  <2>1. writer_state' = writer_state /\ message_rx' = message_rx
    BY <1>6, Zenon DEF OnStopSending
  <2> QED BY <1>0, <1>1, <1>2, <1>3, <2>1, IdleQuiet, Zenon
<1>7. CASE writer_state[t] \notin {"fin", "fin_ack"}
  <2>1. /\ writer_state'[t] = "stop_sending" /\ writer_state'[u] = writer_state[u]
        /\ message_rx'[t] = "closed" /\ message_rx'[u] = message_rx[u]
    BY <1>1, <1>7 DEF OnStopSending, Set, TypeOK, StatesTyped
  <2>2. Unmoved(u)
    BY <1>2, <2>1, Zenon DEF Unmoved
  <2>3. dropped[u]
    BY <1>1, <1>2, <1>5, Zenon DEF FlagsMatch
  <2>4. FlagsMatch(t)'
    BY <1>1, <1>2, <1>3, <1>5, <1>7, <2>1, <2>3, Zenon DEF FlagsMatch
  <2>5. FlagsMatch(u)'
    BY <1>1, <1>2, <1>3, <1>5, <2>1, Zenon DEF FlagsMatch
  <2>6. HalvesClosed(t)' /\ HalvesClosed(u)'
    BY <1>1, <1>2, <2>1, Zenon DEF HalvesClosed, WriterGone
  <2>7. NothingMissing(t)'
    <3>1. writer_state'[t] # "open"
      BY <2>1, Zenon
    <3> QED BY <1>1, <1>2, <1>3, <2>2, <3>1, SenderKeeps, Zenon
  <2>8. NothingMissing(u)'
    <3>1. Takes(t)' => Takes(t)
      BY <1>2, Zenon DEF Takes
    <3> QED BY <1>0, <1>1, <1>2, <1>3, <2>2, <3>1, ReceiverKeeps, Zenon
  <2> QED BY <1>1, <2>4, <2>5, <2>6, <2>7, <2>8, BothDirections, Zenon
<1> QED BY <1>6, <1>7, Zenon

(* STOP_SENDING is sent for a protocol that has dropped its substream. *)
LEMMA PollStopSendingStep ==
  ASSUME TypeOK, Directions, NEW t \in Side, PollStopSending(t) PROVE Directions'
<1> DEFINE u == Other(t)
<1>1. /\ u \in Side /\ u # t /\ u = Other(t) /\ t = Other(u)
      /\ FlagsMatch(t) /\ HalvesClosed(t) /\ NothingMissing(t)
      /\ FlagsMatch(u) /\ HalvesClosed(u) /\ NothingMissing(u)
  BY Sides, Zenon DEF Directions
<1> HIDE DEF u
<1>2. /\ UNCHANGED <<channel_state, reader_state, writer_state, dropped, tx, read, eof, gone,
                    message_tx, message_rx, inbound, outbound, written>>
      /\ dropped[t] /\ Emits(t, Flag("stop_sending"))
  BY Zenon DEF PollStopSending, StopDue, ReaderGone, states, local
<1>3. wire'[t] = wire[t] /\ wire'[u] = Append(wire[u], Flag("stop_sending")) /\ Taken(t)
  BY <1>1, <1>2, WireSteps, Zenon
<1>4. wire[u] \in Seq(Message) /\ Flag("stop_sending") \in Message /\ Flag("stop_sending").flag
        = "stop_sending"
  BY <1>1, FlagMessages, Zenon DEF TypeOK, DataTyped
<1>5. /\ \A f : Has(wire'[u], f) <=> Has(wire[u], f) \/ f = "stop_sending"
      /\ /\ Ordered(wire[u])
         /\ "stop_sending" \in {"none", "fin"} => ~Has(wire[u], "fin")
         /\ "stop_sending" = "fin_ack" => ~Has(wire[u], "fin_ack")
         => Ordered(wire'[u])
  <2>1. /\ \A f : Has(Append(wire[u], Flag("stop_sending")), f) <=> Has(wire[u], f)
             \/ Flag("stop_sending").flag = f
        /\ /\ Ordered(wire[u])
           /\ Flag("stop_sending").flag \in {"none", "fin"} => ~Has(wire[u], "fin")
           /\ Flag("stop_sending").flag = "fin_ack" => ~Has(wire[u], "fin_ack")
           => Ordered(Append(wire[u], Flag("stop_sending")))
    BY <1>4, FlagsOfAppend, Zenon
  <2> QED BY <1>3, <1>4, <2>1, Zenon
<1>6. Unmoved(u)
  BY <1>2, Zenon DEF Unmoved
<1>7. FlagsMatch(t)' /\ FlagsMatch(u)'
  BY <1>1, <1>2, <1>3, <1>5, Zenon DEF FlagsMatch
<1>8. HalvesClosed(t)' /\ HalvesClosed(u)'
  BY <1>1, <1>2, Zenon DEF HalvesClosed, WriterGone
<1>9. NothingMissing(t)'
  <2>1. Flag("stop_sending").flag \notin {"none", "fin"}
    BY <1>4, Zenon
  <2> QED BY <1>1, <1>2, <1>3, <1>4, <1>6, <2>1, SenderKeeps, Zenon
<1>10. NothingMissing(u)'
  <2>1. Takes(t)' => Takes(t)
    BY <1>2, Zenon DEF Takes
  <2> QED BY <1>1, <1>2, <1>3, <1>6, <2>1, ReceiverKeeps, Zenon
<1> QED BY <1>1, <1>7, <1>8, <1>9, <1>10, BothDirections, Zenon

(* FIN_ACK is sent once, for a FIN. *)
LEMMA PollFinAckStep ==
  ASSUME TypeOK, Directions, NEW t \in Side, PollFinAck(t) PROVE Directions'
<1> DEFINE u == Other(t)
<1>1. /\ u \in Side /\ u # t /\ u = Other(t) /\ t = Other(u)
      /\ FlagsMatch(t) /\ HalvesClosed(t) /\ NothingMissing(t)
      /\ FlagsMatch(u) /\ HalvesClosed(u) /\ NothingMissing(u)
  BY Sides, Zenon DEF Directions
<1> HIDE DEF u
<1>2. /\ UNCHANGED <<channel_state, writer_state, dropped, tx, read, eof, gone,
                    message_tx, message_rx, inbound, outbound, written>>
      /\ reader_state[t] = "fin" /\ Emits(t, Flag("fin_ack"))
      /\ reader_state'[t] = "fin_ack" /\ reader_state'[u] = reader_state[u]
  BY <1>1, Zenon DEF PollFinAck, Set, local, TypeOK, StatesTyped
<1>3. wire'[t] = wire[t] /\ wire'[u] = Append(wire[u], Flag("fin_ack")) /\ Taken(t)
  BY <1>1, <1>2, WireSteps, Zenon
<1>4. wire[u] \in Seq(Message) /\ Flag("fin_ack") \in Message /\ Flag("fin_ack").flag = "fin_ack"
  BY <1>1, FlagMessages, Zenon DEF TypeOK, DataTyped
<1>5. /\ \A f : Has(wire'[u], f) <=> Has(wire[u], f) \/ f = "fin_ack"
      /\ /\ Ordered(wire[u])
         /\ "fin_ack" \in {"none", "fin"} => ~Has(wire[u], "fin")
         /\ "fin_ack" = "fin_ack" => ~Has(wire[u], "fin_ack")
         => Ordered(wire'[u])
  <2>1. /\ \A f : Has(Append(wire[u], Flag("fin_ack")), f) <=> Has(wire[u], f)
             \/ Flag("fin_ack").flag = f
        /\ /\ Ordered(wire[u])
           /\ Flag("fin_ack").flag \in {"none", "fin"} => ~Has(wire[u], "fin")
           /\ Flag("fin_ack").flag = "fin_ack" => ~Has(wire[u], "fin_ack")
           => Ordered(Append(wire[u], Flag("fin_ack")))
    BY <1>4, FlagsOfAppend, Zenon
  <2> QED BY <1>3, <1>4, <2>1, Zenon
<1>6. Unmoved(u)
  BY <1>2, Zenon DEF Unmoved
<1>7. ~Has(wire[u], "fin_ack") /\ writer_state[u] = "fin" /\ ~Has(wire[t], "fin")
  BY <1>1, <1>2, Zenon DEF FlagsMatch
<1>8. FlagsMatch(t)'
  BY <1>1, <1>2, <1>3, <1>5, Zenon DEF FlagsMatch
<1>9. FlagsMatch(u)'
  BY <1>1, <1>2, <1>3, <1>5, <1>7, Zenon DEF FlagsMatch
<1>10. HalvesClosed(t)' /\ HalvesClosed(u)'
  BY <1>1, <1>2, Zenon DEF HalvesClosed, WriterGone
<1>11. NothingMissing(t)'
  <2>1. Flag("fin_ack").flag \notin {"none", "fin"}
    BY <1>4, Zenon
  <2> QED BY <1>1, <1>2, <1>3, <1>4, <1>6, <2>1, SenderKeeps, Zenon
<1>12. NothingMissing(u)'
  <2>1. ~Takes(t)' /\ (reader_state'[t] = "open" <=> reader_state[t] = "open")
    BY <1>2, Zenon DEF Takes
  <2> QED BY <1>1, <1>2, <1>3, <1>6, <2>1, ReceiverKeeps, Zenon
<1> QED BY <1>1, <1>8, <1>9, <1>10, <1>11, <1>12, BothDirections, Zenon

(* Payload leaves in order, and never after FIN. *)
LEMMA PollPayloadStep ==
  ASSUME TypeOK, Directions, NEW t \in Side, PollPayload(t) PROVE Directions'
<1> DEFINE u == Other(t)
<1>1. /\ u \in Side /\ u # t /\ u = Other(t) /\ t = Other(u)
      /\ FlagsMatch(t) /\ HalvesClosed(t) /\ NothingMissing(t)
      /\ FlagsMatch(u) /\ HalvesClosed(u) /\ NothingMissing(u)
  BY Sides, Zenon DEF Directions
<1> HIDE DEF u
<1>2. /\ UNCHANGED <<channel_state, reader_state, writer_state, dropped, tx, read, eof, gone,
                    message_tx, message_rx, inbound, written>>
      /\ writer_state[t] = "open" /\ outbound[t] # <<>> /\ ~gone[t]
      /\ Emits(t, Payload(Head(outbound[t])))
      /\ outbound'[t] = Tail(outbound[t]) /\ outbound'[u] = outbound[u]
      /\ outbound[t] \in Seq(Nat) /\ written[t] \in Nat /\ Arrived(u) \in Nat
      /\ Head(outbound[t]) \in Nat
  <2>1. /\ outbound \in [Side -> Seq(Nat)] /\ outbound[t] \in Seq(Nat) /\ written[t] \in Nat
        /\ read[u] \in Nat /\ inbound[u] \in Seq(Nat)
    BY <1>1, Zenon DEF TypeOK, DataTyped
  <2>2. Len(inbound[u]) \in Nat /\ (outbound[t] # <<>> => Head(outbound[t]) \in Nat)
    BY <2>1
  <2>3. Arrived(u) \in Nat
    BY <2>1, <2>2 DEF Arrived
  <2>4. /\ writer_state[t] = "open" /\ outbound[t] # <<>> /\ ~gone[t]
        /\ Emits(t, Payload(Head(outbound[t])))
        /\ outbound' = [outbound EXCEPT ![t] = Tail(outbound[t])]
    BY Zenon DEF PollPayload, PollWriter, PollOpen, Set
  <2>5. outbound'[t] = Tail(outbound[t]) /\ outbound'[u] = outbound[u]
    BY <1>1, <2>1, <2>4, Zenon
  <2>6. UNCHANGED <<channel_state, reader_state, writer_state, dropped, tx, read, eof, gone,
                    message_tx, message_rx, inbound, written>>
    BY DEF PollPayload, states, local
  <2> QED BY <2>1, <2>2, <2>3, <2>4, <2>5, <2>6, Zenon
<1>3. wire'[t] = wire[t] /\ wire'[u] = Append(wire[u], Payload(Head(outbound[t]))) /\ Taken(t)
  BY <1>1, <1>2, WireSteps, Zenon
<1>4. wire[u] \in Seq(Message) /\ Payload(Head(outbound[t])) \in Message
        /\ Payload(Head(outbound[t])).flag = "none"
  BY <1>1, <1>2, Zenon DEF TypeOK, DataTyped, Payload, Message
<1>5. /\ \A f : Has(wire'[u], f) <=> Has(wire[u], f) \/ f = "none"
      /\ /\ Ordered(wire[u])
         /\ "none" \in {"none", "fin"} => ~Has(wire[u], "fin")
         /\ "none" = "fin_ack" => ~Has(wire[u], "fin_ack")
         => Ordered(wire'[u])
  <2>1. /\ \A f : Has(Append(wire[u], Payload(Head(outbound[t]))), f) <=> Has(wire[u], f)
             \/ Payload(Head(outbound[t])).flag = f
        /\ /\ Ordered(wire[u])
           /\ Payload(Head(outbound[t])).flag \in {"none", "fin"} => ~Has(wire[u], "fin")
           /\ Payload(Head(outbound[t])).flag = "fin_ack" => ~Has(wire[u], "fin_ack")
           => Ordered(Append(wire[u], Payload(Head(outbound[t]))))
    BY <1>4, FlagsOfAppend, Zenon
  <2> QED BY <1>3, <1>4, <2>1, Zenon
<1>6. Unmoved(u)
  BY <1>2, Zenon DEF Unmoved
<1>7. ~Has(wire[u], "fin") /\ reader_state[u] \notin {"fin", "fin_ack"}
  BY <1>1, <1>2, Zenon DEF FlagsMatch
<1>8. FlagsMatch(t)' /\ FlagsMatch(u)'
  BY <1>1, <1>2, <1>3, <1>5, <1>7, Zenon DEF FlagsMatch
<1>9. HalvesClosed(t)' /\ HalvesClosed(u)'
  BY <1>1, <1>2, Zenon DEF HalvesClosed, WriterGone
<1>10. NothingMissing(t)'
  <2>1. Arrived(u)' = Arrived(u) /\ (Takes(u)' => Takes(u))
    BY <1>2, Zenon DEF Arrived, Takes
  <2>2. ASSUME Takes(u)
        PROVE  \E last \in Arrived(u) .. written[t] : Sent(t, last)'
    <3>1. PICK last \in Arrived(u) .. written[t] : Sent(t, last)
      BY <1>1, <2>2, Zenon DEF NothingMissing
    <3>2. last \in Nat /\ Arrived(u) <= last
      BY <1>2, InRange, Zenon
    <3>3. /\ InOrder(wire[u], Arrived(u), last)
          /\ last + Len(outbound[t]) = written[t] /\ Follow(outbound[t], last)
      BY <1>1, <1>2, <3>1, Zenon DEF Sent
    <3>4. /\ Head(outbound[t]) = last + 1 /\ Follow(outbound'[t], last + 1)
          /\ outbound'[t] \in Seq(Nat) /\ Len(outbound[t]) = Len(outbound'[t]) + 1
      BY <1>2, <3>2, <3>3, Following, Zenon
    <3>5. InOrder(wire'[u], Arrived(u), last + 1)
      <4>1. InOrder(Append(wire[u], Payload(last + 1)), Arrived(u), last + 1)
        BY <1>2, <1>4, <3>2, <3>3, PayloadOfAppend, Zenon
      <4> QED BY <1>3, <3>4, <4>1, Zenon
    <3>6. Len(outbound'[t]) \in Nat
      BY <3>4
    <3>7. last + 1 + Len(outbound'[t]) = written[t]
      BY <3>2, <3>3, <3>4, <3>6, OneMore, Zenon
    <3>8. last + 1 \in Arrived(u) .. written[t]
      BY <1>2, <3>2, <3>6, <3>7, NextInRange, Zenon
    <3>9. ~Has(wire'[u], "fin")
      BY <1>5, <1>7, Zenon
    <3>10. Sent(t, last + 1)'
      BY <1>1, <1>2, <2>1, <3>4, <3>5, <3>7, <3>9, Zenon DEF Sent
    <3> QED BY <3>8, <3>10, Zenon
  <2> QED BY <1>1, <1>2, <2>1, <2>2, Zenon DEF NothingMissing
<1>11. NothingMissing(u)'
  <2>1. Takes(t)' => Takes(t)
    BY <1>2, Zenon DEF Takes
  <2> QED BY <1>1, <1>2, <1>3, <1>6, <2>1, ReceiverKeeps, Zenon
<1> QED BY <1>1, <1>8, <1>9, <1>10, <1>11, BothDirections, Zenon

(* FIN is sent once, after all the payload. *)
LEMMA PollFinStep ==
  ASSUME TypeOK, Directions, NEW t \in Side, PollFin(t) PROVE Directions'
<1> DEFINE u == Other(t)
<1>1. /\ u \in Side /\ u # t /\ u = Other(t) /\ t = Other(u)
      /\ FlagsMatch(t) /\ HalvesClosed(t) /\ NothingMissing(t)
      /\ FlagsMatch(u) /\ HalvesClosed(u) /\ NothingMissing(u)
  BY Sides, Zenon DEF Directions
<1> HIDE DEF u
<1>2. /\ UNCHANGED <<channel_state, reader_state, dropped, tx, read, eof, gone,
                    message_tx, message_rx, inbound, outbound, written>>
      /\ \/ writer_state[t] = "open" /\ WriterGone(t) /\ outbound[t] = <<>>
         \/ writer_state[t] = "stop_sending"
      /\ ~gone[t] /\ Emits(t, Flag("fin"))
      /\ writer_state'[t] = "fin" /\ writer_state'[u] = writer_state[u]
      /\ written[t] \in Nat /\ Arrived(u) \in Nat
  BY <1>1 DEF PollFin, Flushed, PollWriter, PollOpen, Set, local, TypeOK,
    StatesTyped, DataTyped, Arrived
<1>3. wire'[t] = wire[t] /\ wire'[u] = Append(wire[u], Flag("fin")) /\ Taken(t)
  BY <1>1, <1>2, WireSteps, Zenon
<1>4. wire[u] \in Seq(Message) /\ Flag("fin") \in Message /\ Flag("fin").flag = "fin"
  BY <1>1, FlagMessages, Zenon DEF TypeOK, DataTyped
<1>5. /\ \A f : Has(wire'[u], f) <=> Has(wire[u], f) \/ f = "fin"
      /\ /\ Ordered(wire[u])
         /\ "fin" \in {"none", "fin"} => ~Has(wire[u], "fin")
         /\ "fin" = "fin_ack" => ~Has(wire[u], "fin_ack")
         => Ordered(wire'[u])
  <2>1. /\ \A f : Has(Append(wire[u], Flag("fin")), f) <=> Has(wire[u], f) \/ Flag("fin").flag = f
        /\ /\ Ordered(wire[u])
           /\ Flag("fin").flag \in {"none", "fin"} => ~Has(wire[u], "fin")
           /\ Flag("fin").flag = "fin_ack" => ~Has(wire[u], "fin_ack")
           => Ordered(Append(wire[u], Flag("fin")))
    BY <1>4, FlagsOfAppend, Zenon
  <2> QED BY <1>3, <1>4, <2>1, Zenon
<1>6. Unmoved(u)
  BY <1>2, Zenon DEF Unmoved
<1>7. ~Has(wire[u], "fin") /\ ~Has(wire[t], "fin_ack") /\ reader_state[u] = "open"
  BY <1>1, <1>2, Zenon DEF FlagsMatch, TypeOK, StatesTyped
<1>8. FlagsMatch(t)'
  BY <1>1, <1>2, <1>3, <1>5, <1>7, Zenon DEF FlagsMatch
<1>9. FlagsMatch(u)'
  BY <1>1, <1>2, <1>3, <1>5, <1>7, Zenon DEF FlagsMatch
<1>10. HalvesClosed(t)' /\ HalvesClosed(u)'
  BY <1>1, <1>2, Zenon DEF HalvesClosed, WriterGone
<1>11. NothingMissing(t)'
  <2>1. Arrived(u)' = Arrived(u) /\ (Takes(u)' => Takes(u))
    BY <1>2, Zenon DEF Arrived, Takes
  <2>2. ASSUME Takes(u)
        PROVE  \E last \in Arrived(u) .. written[t] : Sent(t, last)'
    <3>1. PICK last \in Arrived(u) .. written[t] : Sent(t, last)
      BY <1>1, <2>2, Zenon DEF NothingMissing
    <3>2. last \in Nat /\ Arrived(u) <= last
      BY <1>2, InRange, Zenon
    <3>3. writer_state[t] = "open" /\ outbound[t] = <<>>
      BY <1>1, <1>2, <2>2, Zenon DEF Takes, FlagsMatch
    <3>4. /\ InOrder(wire[u], Arrived(u), last)
          /\ last + Len(outbound[t]) = written[t]
      BY <1>1, <1>2, <3>1, <3>3, Zenon DEF Sent
    <3>5. last = written[t]
      BY <3>2, <3>3, <3>4
    <3>6. InOrder(wire'[u], Arrived(u), last)
      <4>1. Flag("fin").flag # "none"
        BY <1>4, Zenon
      <4> QED BY <1>2, <1>3, <1>4, <3>2, <3>4, <4>1, PayloadOfAppend, Zenon
    <3>7. writer_state'[t] # "open"
      BY <1>2, Zenon
    <3>8. Sent(t, last)'
      BY <1>1, <1>2, <2>1, <3>5, <3>6, <3>7, Zenon DEF Sent
    <3> QED BY <3>8, Zenon
  <2> QED BY <1>1, <1>2, <1>7, <2>1, <2>2, Zenon DEF NothingMissing
<1>12. NothingMissing(u)'
  <2>1. Takes(t)' => Takes(t)
    BY <1>2, Zenon DEF Takes
  <2> QED BY <1>1, <1>2, <1>3, <1>6, <2>1, ReceiverKeeps, Zenon
<1> QED BY <1>1, <1>8, <1>9, <1>10, <1>11, <1>12, BothDirections, Zenon

(* Initially nothing is on its way. *)
LEMMA SubstreamInit == ASSUME Init PROVE TypeOK /\ Directions
<1>1. /\ wire = [s \in Side |-> <<>>] /\ inbound = [s \in Side |-> <<>>]
      /\ outbound = [s \in Side |-> <<>>]
      /\ written = [s \in Side |-> 0] /\ read = [s \in Side |-> 0]
  BY Zenon DEF Init, Each
<1>2. DataTyped
  BY <1>1 DEF DataTyped
<1>3. StatesTyped
  BY Zenon DEF Init, Each, StatesTyped
<1>4. ASSUME NEW s \in Side
      PROVE  FlagsMatch(s) /\ HalvesClosed(s) /\ NothingMissing(s)
  <2> DEFINE o == Other(s)
  <2>1. o \in Side /\ o = Other(s)
    BY Sides, Zenon
  <2> HIDE DEF o
  <2>2. /\ wire[s] = <<>> /\ wire[o] = <<>> /\ inbound[o] = <<>> /\ outbound[s] = <<>>
        /\ written[s] = 0 /\ read[o] = 0
    BY <1>1, <2>1, Zenon
  <2>3. /\ reader_state[s] = "open" /\ reader_state[o] = "open"
        /\ writer_state[s] = "open" /\ channel_state[s] = "open"
        /\ gone[s] = FALSE /\ message_tx[s] = TRUE /\ eof[o] = "none"
    BY <2>1, Zenon DEF Init, Each
  <2>4. /\ \A f : ~Has(<<>>, f)
        /\ Ordered(<<>>) /\ InOrder(<<>>, 0, 0) /\ Follow(<<>>, 0) /\ Len(<<>>) = 0
    BY DEF Has, Ordered, InOrder, Follow
  <2>5. FlagsMatch(s)
    BY <2>1, <2>2, <2>3, <2>4, Zenon DEF FlagsMatch
  <2>6. HalvesClosed(s)
    BY <2>3, Zenon DEF HalvesClosed
  <2>7. Arrived(o) = 0 /\ 0 \in Arrived(o) .. written[s] /\ 0 + Len(<<>>) = 0
    BY <2>2, <2>4 DEF Arrived
  <2>8. Sent(s, 0)
    BY <2>1, <2>2, <2>4, <2>7, Zenon DEF Sent
  <2>9. NothingMissing(s)
    BY <2>1, <2>2, <2>3, <2>4, <2>7, <2>8, Zenon DEF NothingMissing
  <2> QED BY <2>5, <2>6, <2>9, Zenon
<1> QED BY <1>2, <1>3, <1>4, Zenon DEF TypeOK, Directions

(* No end takes a stream for complete that is not, nor a FIN_ACK for an    *)
(* error (substream.rs), for any number of messages and any capacity.      *)
THEOREM SubstreamSafety == Spec => []WebRtcSubstreamInv
<1>1. Init => TypeOK /\ Directions
  BY SubstreamInit, Zenon
<1>2. TypeOK /\ Directions /\ [Next]_(vars) => (TypeOK /\ Directions)'
  <2> SUFFICES ASSUME TypeOK, Directions, [Next]_(vars)
               PROVE  TypeOK' /\ Directions'
    OBVIOUS
  <2>1. CASE Next
    <3>1. TypeOK'
      BY <2>1, SubstreamTypes, Zenon
    <3>2. PICK t \in Side :
        \/ Write(t) \/ Shutdown(t) \/ Read(t) \/ DropSubstream(t)
        \/ OnMessage(t)
        \/ PollInitReset(t) \/ PollStopSending(t) \/ ArmDeadline(t) \/ PollFinAck(t)
        \/ PollPayload(t) \/ PollFin(t) \/ PollEnd(t) \/ PollTimeout(t) \/ WriteFailure(t)
      BY <2>1, Zenon DEF Next
    <3>3. Directions'
      BY <3>2, QuietSteps, WriteStep, ReadStep, DropStep, PayloadStep, FinStep, FinAckStep,
         StopSendingStep, PollStopSendingStep, PollFinAckStep, PollPayloadStep, PollFinStep, Zenon
      DEF OnMessage
    <3> QED BY <3>1, <3>3, Zenon
  <2>2. CASE UNCHANGED vars
    <3>1. TypeOK'
      BY <2>2, Zenon DEF TypeOK, StatesTyped, DataTyped, vars, states, local, timers
    <3>2. UNCHANGED <<channel_state, reader_state, writer_state, dropped, tx, read, eof, gone,
                      message_tx, message_rx, inbound, outbound, wire, written>>
      BY <2>2, Zenon DEF vars, states, local, timers
    <3>3. ASSUME NEW s \in Side
          PROVE  FlagsMatch(s)' /\ HalvesClosed(s)' /\ NothingMissing(s)'
      <4>1. FlagsMatch(s)'
        BY <3>2, Zenon DEF Directions, FlagsMatch
      <4>2. HalvesClosed(s)'
        BY <3>2, Zenon DEF Directions, HalvesClosed, WriterGone
      <4>3. NothingMissing(s)'
        BY <3>2, Zenon DEF Directions, NothingMissing, Takes, Arrived, Sent
      <4> QED BY <4>1, <4>2, <4>3, Zenon
    <3> QED BY <3>1, <3>3, Zenon DEF Directions
  <2> QED BY <2>1, <2>2, Zenon
<1>3. TypeOK /\ Directions => WebRtcSubstreamInv
  <2> SUFFICES ASSUME TypeOK, Directions PROVE WebRtcSubstreamInv
    OBVIOUS
  <2>1. ASSUME NEW s \in Side, eof[s] = "ok" PROVE read[s] = written[Other(s)]
    <3>1. NothingMissing(Other(s)) /\ Other(Other(s)) = s
      BY Sides, Zenon DEF Directions
    <3> QED BY <2>1, <3>1, Zenon DEF NothingMissing
  <2>2. ASSUME NEW s \in Side, writer_state[s] = "fin_ack", ~dropped[Other(s)],
               channel_state[Other(s)] # "reset"
        PROVE  read[Other(s)] + Len(inbound[Other(s)]) = written[s]
    <3>1. FlagsMatch(s) /\ NothingMissing(s)
      BY Zenon DEF Directions
    <3>2. reader_state[Other(s)] = "fin_ack"
      BY <2>2, <3>1, Zenon DEF FlagsMatch
    <3>3. reader_state[Other(s)] # "open"
      BY <3>2, Zenon
    <3> QED BY <2>2, <3>1, <3>3, Zenon DEF NothingMissing, Arrived
  <2>3. ASSUME NEW s \in Side, Handles(s, "fin_ack") PROVE writer_state[s] = "fin"
    <3>1. wire[s] # <<>> /\ wire[s] \in Seq(Message) /\ Head(wire[s]).flag = "fin_ack"
      BY <2>3, Zenon DEF Handles, TypeOK, DataTyped
    <3>2. Has(wire[s], "fin_ack")
      BY <3>1, FlagsOfTail, Zenon
    <3> QED BY <3>2, Zenon DEF Directions, FlagsMatch
  <2> QED BY <2>1, <2>2, <2>3, Zenon
    DEF WebRtcSubstreamInv, CleanEnd, AckedIsReceived, FinAckExpected, Directions
<1> QED BY <1>1, <1>2, <1>3, PTL DEF Spec
==============================================================================
