--------------------------- MODULE LiveFeedProofs ---------------------------
(***************************************************************************)
(* Proofs about LiveFeed.                                                  *)
(*                                                                         *)
(* WireInv: each kind of message has one publisher, which does not go back *)
(* in its numbers and waits for a broadcast before it begins the next, so  *)
(* whatever waits in a channel was published before what its publisher is  *)
(* still sending there.  ChartInv: the chart and the answer that may       *)
(* replace it ascend, and what waits in the tick buffer is a number.       *)
(***************************************************************************)
EXTENDS LiveFeed, SequenceTheorems, TLAPS

-----------------------------------------------------------------------------
(* What is on the wire.                                                    *)

\* The kinds of message a publisher sends, and the highest number published.
KindsOf(p) == IF p = "aggregator" THEN {"candle", "late"}
              ELSE IF p = "loop" THEN {"decision"} ELSE {"ticker"}
Newest(k) == IF k = "decision" THEN decided ELSE closed + forming + 1

WireTypes ==
    /\ closed \in Nat /\ decided \in Nat /\ forming \in {closed, closed + 1}
    /\ clock \in Nat
    /\ connections \subseteq Socket
    /\ channel \in [Socket -> Seq(Message)]
    /\ sending \in [Publisher -> Broadcast \cup {Idle}]

Published(m) == m.kind \in {"candle", "decision"} => m.n <= Newest(m.kind)

WireInv ==
    /\ WireTypes
    /\ \A c \in Socket : \A i \in DOMAIN channel[c] : Published(channel[c][i])
    /\ \A p \in Publisher : sending[p] # Idle =>
          sending[p].msg.kind \in KindsOf(p) /\ Published(sending[p].msg)
    /\ PublishedInOrder

\* PublishedInOrder for one client, and for one client and one publisher.
Ascends(q) == \A i, j \in DOMAIN q : i < j => Ordered(q[i], q[j])
Precedes(q, b, c) == c \in b.todo => \A i \in DOMAIN q : Ordered(q[i], b.msg)

LEMMA OrderByClient ==
    PublishedInOrder <=>
        \A c \in Socket : /\ Ascends(channel[c])
                          /\ \A p \in Publisher : sending[p] # Idle => Precedes(channel[c], sending[p], c)
  BY DEF PublishedInOrder, Ascends, Precedes

LEMMA NewestIsNumber ==
    ASSUME NEW k \in {"candle", "decision"}
    PROVE  /\ WireTypes => Newest(k) \in Nat
           /\ WireTypes' => Newest(k)' \in Nat
  <1>1. ASSUME NEW d \in Nat, NEW c \in Nat, NEW f \in {c, c + 1}
        PROVE  (IF k = "decision" THEN d ELSE c + f + 1) \in Nat
    OBVIOUS
  <1>2. WireTypes => Newest(k) \in Nat
    BY <1>1 DEF WireTypes, Newest
  <1>3. WireTypes' => Newest(k)' \in Nat
    BY <1>1, Zenon DEF WireTypes, Newest
  <1> QED  BY <1>2, <1>3

LEMMA InitWire == Init => WireInv
  <1> SUFFICES ASSUME Init PROVE WireInv
    OBVIOUS
  <1>1. WireTypes
    BY EmptySeq DEF Init, HubInit, WireTypes
  <1>2. \A c \in Socket : channel[c] = << >> /\ DOMAIN channel[c] = {}
    BY EmptySeq, LenProperties DEF Init, HubInit
  <1>3. \A p \in Publisher : sending[p] = Idle
    BY DEF Init, HubInit
  <1>4. PublishedInOrder
    BY <1>2, <1>3 DEF PublishedInOrder
  <1> QED  BY <1>1, <1>2, <1>3, <1>4 DEF WireInv

-----------------------------------------------------------------------------
(* The moves on the wire.                                                  *)

\* Channels and broadcasts stay, and what was published stays published.
LEMMA QuietKeeps ==
    ASSUME WireInv, UNCHANGED <<channel, sending, tables>>, WireTypes'
    PROVE  WireInv'
  <1>1. \A m \in Message : Published(m)' <=> Published(m)
    BY DEF Published, Newest, tables
  <1>2. PublishedInOrder'
    BY DEF WireInv, PublishedInOrder
  <1> QED  BY <1>1, <1>2 DEF WireInv, WireTypes, Published, Newest, tables

\* A publisher begins a broadcast of a message that no other of its kind is
\* ahead of.
LEMMA PublishKeeps ==
    ASSUME WireInv, NEW p \in {"aggregator", "loop"}, NEW k \in KindsOf(p), NEW n \in Nat,
           \/ k = "late"
           \/ n > Newest(k)
           \/ n = Newest(k) /\ k = "candle" /\ n = 2 * Time(n),
           k = "late" \/ n <= Newest(k)',
           \A x \in {"candle", "decision"} : Newest(x) <= Newest(x)',
           Begin(p, [kind |-> k, n |-> n]),
           UNCHANGED channel, WireTypes'
    PROVE  WireInv'
  <1> DEFINE m == [kind |-> k, n |-> n]
             b == [msg |-> m, todo |-> connections, dead |-> {}]
  <1>1. /\ WireTypes /\ m \in Message /\ b \in Broadcast /\ m.kind = k /\ m.n = n
        /\ k # "ticker" /\ b.msg = m /\ p \in Publisher
        /\ k # "late" => k \in {"candle", "decision"}
    BY DEF WireInv, WireTypes, Message, Broadcast, KindsOf, Publisher
  <1>2. \A x \in {"candle", "decision"} : Newest(x) \in Nat /\ Newest(x)' \in Nat
    BY <1>1, NewestIsNumber
  <1>3. \A x \in Message : Published(x) => Published(x)'
    BY <1>2 DEF Published, Message
  <1>4. sending' = sending \/ sending' = [sending EXCEPT ![p] = b]
    BY DEF Begin
  <1>5. \A q \in Publisher : sending'[q] # Idle => sending'[q] = sending[q] \/ (q = p /\ sending'[q] = b)
    BY <1>1, <1>4 DEF WireTypes
  <1>6. ASSUME NEW c \in Socket, NEW i \in DOMAIN channel[c]
        PROVE  channel[c][i] \in Message /\ Published(channel[c][i]) /\ Published(channel[c][i])'
    <2>1. channel[c] \in Seq(Message)
      BY <1>1 DEF WireTypes
    <2>2. channel[c][i] \in Message
      BY <2>1, ElementOfSeq, LenProperties
    <2>3. Published(channel[c][i])
      BY DEF WireInv
    <2> QED  BY <1>3, <2>2, <2>3
  <1> HIDE DEF m, b
  <1>7. ASSUME NEW q \in Publisher, sending'[q] # Idle
        PROVE  sending'[q].msg.kind \in KindsOf(q) /\ Published(sending[q].msg)'
    <2>1. CASE sending'[q] = sending[q]
      <3>1. sending[q] \in Broadcast /\ sending[q].msg \in Message
        BY <1>1, <1>7, <2>1 DEF WireTypes, Broadcast
      <3> QED  BY <1>3, <1>7, <2>1, <3>1 DEF WireInv
    <2>2. CASE q = p /\ sending'[q] = b
      BY <1>1, <2>2 DEF Published
    <2> QED  BY <1>5, <1>7, <2>1, <2>2
  <1>8. ASSUME NEW c \in Socket, NEW q \in Publisher, sending'[q] # Idle
        PROVE  Precedes(channel'[c], sending'[q], c)
    <2>1. CASE sending'[q] = sending[q]
      BY <1>8, <2>1, OrderByClient DEF WireInv
    <2>2. CASE q = p /\ sending'[q] = b
      <3> SUFFICES ASSUME NEW i \in DOMAIN channel[c], channel[c][i].kind = k,
                          k \in {"candle", "decision"}
                   PROVE  \/ channel[c][i].n < n
                          \/ channel[c][i].n = n /\ k = "candle" /\ n = 2 * Time(n)
        BY <1>1, <2>2 DEF Precedes, Ordered
      <3>1. channel[c][i].n <= Newest(k) /\ channel[c][i].n \in Nat /\ Newest(k) \in Nat
        BY <1>2, <1>6 DEF Published, Message
      <3>2. \/ n > Newest(k)
            \/ n = Newest(k) /\ k = "candle" /\ n = 2 * Time(n)
        OBVIOUS
      <3> QED  BY <3>1, <3>2
    <2> QED  BY <1>5, <1>8, <2>1, <2>2
  <1>9. \A c \in Socket : Ascends(channel'[c])
    BY OrderByClient DEF WireInv
  <1>10. PublishedInOrder'
    BY <1>8, <1>9 DEF PublishedInOrder, Ascends, Precedes
  <1> QED  BY <1>6, <1>7, <1>10 DEF WireInv

\* One send of a broadcast returns or raises.
LEMMA SendKeeps ==
    ASSUME WireInv, NEW p \in Publisher, NEW c \in Socket, SendTo(p, c), UNCHANGED tables
    PROVE  WireInv'
  <1> DEFINE b == sending[p]
             m == b.msg
  <1>1. /\ WireTypes /\ b # Idle /\ b \in Broadcast /\ m \in Message /\ c \in b.todo
        /\ m.kind \in KindsOf(p) /\ Published(m)
    BY DEF WireInv, WireTypes, SendTo, Broadcast
  <1>2. UNCHANGED <<clock, tables>>
    BY DEF SendTo, tickers
  <1>3. UNCHANGED channel \/ channel' = [channel EXCEPT ![c] = Append(channel[c], m)]
    BY DEF SendTo, Sent
  <1>4. /\ connections' \subseteq Socket
        /\ sending' \in [Publisher -> Broadcast \cup {Idle}]
        /\ \A q \in Publisher \ {p} : sending'[q] = sending[q]
        /\ sending'[p] # Idle => sending'[p].msg = m /\ sending'[p].todo = b.todo \ {c}
    <2>1. PICK raised \in BOOLEAN : SendNext(p, c, raised)
      BY DEF SendTo
    <2> DEFINE d == IF raised THEN b.dead \cup {c} ELSE b.dead
               r == [b EXCEPT !.todo = b.todo \ {c}, !.dead = d]
    <2>2. r \in Broadcast /\ r.msg = m /\ r.todo = b.todo \ {c}
      BY <1>1 DEF Broadcast
    <2>3. CASE /\ sending' = [sending EXCEPT ![p] = Idle]
               /\ connections' = connections \ d
      BY <1>1, <2>3 DEF WireTypes
    <2>4. CASE /\ sending' = [sending EXCEPT ![p] = r]
               /\ UNCHANGED connections
      BY <1>1, <2>2, <2>4 DEF WireTypes
    <2> QED  BY <2>1, <2>3, <2>4 DEF SendNext
  <1>5. channel[c] \in Seq(Message) /\ channel \in [Socket -> Seq(Message)]
    BY <1>1 DEF WireTypes
  <1>6. channel' \in [Socket -> Seq(Message)]
    <2>1. Append(channel[c], m) \in Seq(Message)
      BY <1>1, <1>5, AppendProperties
    <2> QED  BY <1>3, <1>5, <2>1
  <1>7. WireTypes'
    BY <1>1, <1>2, <1>4, <1>6 DEF WireTypes, tables
  <1>8. \A x : Published(x)' <=> Published(x)
    BY <1>2 DEF Published, Newest, tables
  \* What a queue holds is what it held, or the message, which is newer.
  <1>9. ASSUME NEW e \in Socket
        PROVE  /\ \A i \in DOMAIN channel'[e] : Published(channel'[e][i])
               /\ Ascends(channel'[e])
               /\ \A q \in Publisher : sending'[q] # Idle => Precedes(channel'[e], sending'[q], e)
    <2>0. /\ \A i \in DOMAIN channel[e] : Published(channel[e][i])
          /\ Ascends(channel[e])
          /\ \A q \in Publisher : sending[q] # Idle => Precedes(channel[e], sending[q], e)
      BY OrderByClient DEF WireInv
    <2>1. \A q \in Publisher : sending'[q] # Idle =>
              sending[q] # Idle /\ sending'[q].msg = sending[q].msg /\ sending'[q].todo \subseteq sending[q].todo
      BY <1>1, <1>4
    <2>2. CASE channel'[e] = channel[e]
      BY <2>0, <2>1, <2>2 DEF Precedes
    <2>3. CASE e = c /\ channel'[e] = Append(channel[c], m)
      <3> DEFINE l == Len(channel[c])
                 s == channel'[c]
      <3>1. /\ l \in Nat /\ DOMAIN channel[c] = 1 .. l /\ DOMAIN s = 1 .. l + 1
            /\ \A i \in 1 .. l : s[i] = channel[c][i]
            /\ s[l + 1] = m
        BY <1>5, <2>3, AppendProperties, LenProperties
      <3>2. \A i \in DOMAIN s : Published(s[i])
        BY <1>1, <2>0, <2>3, <3>1
      <3>3. Ascends(s)
        <4> SUFFICES ASSUME NEW i \in DOMAIN s, NEW j \in DOMAIN s, i < j
                     PROVE  Ordered(s[i], s[j])
          BY DEF Ascends
        <4>1. CASE j = l + 1
          <5>1. i \in DOMAIN channel[c] /\ s[i] = channel[c][i]
            BY <3>1, <4>1
          <5>2. Precedes(channel[c], b, c)
            BY <1>1, <2>0, <2>3
          <5> QED  BY <1>1, <3>1, <4>1, <5>1, <5>2 DEF Precedes
        <4>2. CASE j # l + 1
          <5>1. i \in DOMAIN channel[c] /\ j \in DOMAIN channel[c] /\ s[i] = channel[c][i] /\ s[j] = channel[c][j]
            BY <3>1, <4>2
          <5> QED  BY <2>0, <2>3, <5>1 DEF Ascends
        <4> QED  BY <4>1, <4>2
      <3>4. ASSUME NEW q \in Publisher, sending'[q] # Idle
            PROVE  Precedes(s, sending'[q], c)
        <4>1. CASE q = p
          BY <1>4, <3>4, <4>1 DEF Precedes
        <4>2. CASE q # p
          <5>1. sending'[q] = sending[q] /\ sending[q].msg.kind \in KindsOf(q)
            BY <1>4, <3>4, <4>2 DEF WireInv
          <5>2. Ordered(m, sending[q].msg)
            <6>1. m.kind = sending[q].msg.kind => m.kind = "ticker"
              BY <1>1, <4>2, <5>1 DEF KindsOf
            <6> QED  BY <6>1 DEF Ordered
          <5>3. Precedes(channel[c], sending[q], c)
            BY <2>0, <2>3, <3>4, <5>1
          <5> QED  BY <3>1, <5>1, <5>2, <5>3 DEF Precedes
        <4> QED  BY <4>1, <4>2
      <3> QED  BY <2>3, <3>2, <3>3, <3>4
    <2> QED  BY <1>3, <1>5, <2>2, <2>3
  <1>10. \A q \in Publisher : sending'[q] # Idle => sending'[q].msg = sending[q].msg /\ sending[q] # Idle
    BY <1>1, <1>4
  <1>11. PublishedInOrder'
    BY <1>9 DEF PublishedInOrder, Ascends, Precedes
  <1> QED  BY <1>7, <1>8, <1>9, <1>10, <1>11 DEF WireInv

\* A ticker is published by a task of its own.
LEMMA TickerKeeps ==
    ASSUME WireInv, NEW p \in TickTask, PublishTicker(p), UNCHANGED tables
    PROVE  WireInv'
  <1> DEFINE m == [kind |-> "ticker", n |-> clock]
             b == [msg |-> m, todo |-> connections, dead |-> {}]
  <1>1. /\ WireTypes /\ m \in Message /\ b \in Broadcast /\ m.kind = "ticker" /\ b.msg = m
        /\ p \in Publisher /\ KindsOf(p) = {"ticker"}
    BY HubAssumption DEF WireInv, WireTypes, Message, Broadcast, KindsOf, Publisher
  <1>2. UNCHANGED <<clock, connections, channel, tables>>
    BY DEF PublishTicker
  <1>3. sending' = sending \/ sending' = [sending EXCEPT ![p] = b]
    BY DEF PublishTicker, Begin
  <1>4. WireTypes'
    BY <1>1, <1>2, <1>3 DEF WireTypes, tables
  <1>5. \A q \in Publisher : sending'[q] # Idle => sending'[q] = sending[q] \/ (q = p /\ sending'[q] = b)
    BY <1>1, <1>3 DEF WireTypes
  <1>6. \A x : Published(x)' <=> Published(x)
    BY <1>2 DEF Published, Newest, tables
  <1>7. \A q \in Publisher : sending'[q] # Idle =>
            sending'[q].msg.kind \in KindsOf(q) /\ Published(sending'[q].msg)
    BY <1>1, <1>5 DEF WireInv, Published
  <1>8. \A c \in Socket, q \in Publisher : sending'[q] # Idle => Precedes(channel'[c], sending'[q], c)
    BY <1>1, <1>2, <1>5, OrderByClient DEF WireInv, Precedes, Ordered
  <1>9. PublishedInOrder'
    BY <1>2, <1>8, OrderByClient DEF WireInv, PublishedInOrder, Ascends, Precedes
  <1> QED  BY <1>2, <1>4, <1>6, <1>7, <1>9 DEF WireInv

\* A client reads its first message, or loses all of them.
LEMMA DrainKeeps ==
    ASSUME WireInv, NEW c \in Socket,
           \/ channel[c] # << >> /\ channel' = [channel EXCEPT ![c] = Tail(channel[c])]
           \/ channel' = [channel EXCEPT ![c] = << >>],
           UNCHANGED <<connections, sending, clock, tables>>
    PROVE  WireInv'
  <1>1. WireTypes /\ channel \in [Socket -> Seq(Message)]
    BY DEF WireInv, WireTypes
  <1>2. ASSUME NEW e \in Socket
        PROVE  /\ channel'[e] \in Seq(Message)
               /\ \A i \in DOMAIN channel'[e] : \E k \in DOMAIN channel[e] : channel'[e][i] = channel[e][k]
               /\ Ascends(channel[e]) => Ascends(channel'[e])
    <2>1. CASE channel'[e] = channel[e]
      BY <1>1, <2>1
    <2>2. CASE channel'[e] = << >>
      BY <2>2, EmptySeq, LenProperties DEF Ascends
    <2>3. CASE channel[e] # << >> /\ channel'[e] = Tail(channel[e])
      <3> DEFINE q == channel[e]
                 t == channel'[e]
      <3>1. q \in Seq(Message)
        BY <1>1
      <3>2. /\ t \in Seq(Message) /\ Len(q) \in Nat /\ Len(q) > 0
            /\ DOMAIN q = 1 .. Len(q) /\ DOMAIN t = 1 .. Len(q) - 1
            /\ \A i \in 1 .. Len(q) - 1 : t[i] = q[i + 1]
        BY <2>3, <3>1, HeadTailProperties, LenProperties, EmptySeq
      <3>3. \A i \in DOMAIN t : i + 1 \in DOMAIN q /\ t[i] = q[i + 1]
        BY <3>2
      <3>4. ASSUME Ascends(q), NEW i \in DOMAIN t, NEW j \in DOMAIN t, i < j
            PROVE  Ordered(t[i], t[j])
        <4>1. i + 1 < j + 1
          BY <3>2, <3>4
        <4> QED  BY <3>3, <3>4, <4>1 DEF Ascends
      <3> QED  BY <3>2, <3>3, <3>4 DEF Ascends
    <2> QED  BY <1>1, <2>1, <2>2, <2>3
  <1>3. channel' \in [Socket -> Seq(Message)]
    <2>1. DOMAIN channel' = Socket /\ channel' = [e \in Socket |-> channel'[e]]
      BY <1>1
    <2> QED  BY <1>2, <2>1
  <1>4. WireTypes'
    BY <1>1, <1>3 DEF WireTypes, tables
  <1>5. \A x : Published(x)' <=> Published(x)
    BY DEF Published, Newest, tables
  <1>6. \A e \in Socket : \A i \in DOMAIN channel'[e] : Published(channel'[e][i])
    BY <1>2 DEF WireInv
  <1>7. \A e \in Socket, p \in Publisher : sending[p] # Idle => Precedes(channel'[e], sending[p], e)
    <2> SUFFICES ASSUME NEW e \in Socket, NEW p \in Publisher, sending[p] # Idle
                 PROVE  Precedes(channel'[e], sending[p], e)
      OBVIOUS
    <2>1. Precedes(channel[e], sending[p], e)
      BY OrderByClient DEF WireInv
    <2>2. \A i \in DOMAIN channel'[e] : \E k \in DOMAIN channel[e] : channel'[e][i] = channel[e][k]
      BY <1>2
    <2> QED  BY <2>1, <2>2 DEF Precedes
  <1>8. \A e \in Socket : Ascends(channel'[e])
    BY <1>2, OrderByClient DEF WireInv
  <1>9. PublishedInOrder'
    BY <1>7, <1>8 DEF PublishedInOrder, Ascends, Precedes
  <1> QED  BY <1>4, <1>5, <1>6, <1>9 DEF WireInv

LEMMA NextKeepsWire == WireInv /\ [Next]_vars => WireInv'
  <1> SUFFICES ASSUME WireInv, [Next]_vars PROVE WireInv'
    OBVIOUS
  <1>0. WireTypes
    BY DEF WireInv
  <1>1. CASE OpenCandle
    <2>1. /\ Begin("aggregator", [kind |-> "candle", n |-> 2 * (closed + 1)])
          /\ UNCHANGED <<channel, connections, clock>>
      BY <1>1 DEF OpenCandle, Publish, tickers
    <2>2. /\ forming' = closed + 1 /\ closed' = closed /\ decided' = decided
          /\ closed \in Nat /\ forming \in {closed, closed + 1}
      BY <1>0, <1>1 DEF OpenCandle, WireTypes
    <2>3. /\ "candle" \in KindsOf("aggregator") /\ 2 * (closed + 1) \in Nat
          /\ \/ 2 * (closed + 1) > Newest("candle")
             \/ 2 * (closed + 1) = Newest("candle") /\ 2 * (closed + 1) = 2 * Time(2 * (closed + 1))
          /\ 2 * (closed + 1) <= Newest("candle")'
          /\ \A k \in {"candle", "decision"} : Newest(k) <= Newest(k)'
      BY <1>0, <2>2 DEF KindsOf, Newest, WireTypes, Time
    <2>4. WireTypes'
      <3> DEFINE m == [kind |-> "candle", n |-> 2 * (closed + 1)]
                 b == [msg |-> m, todo |-> connections, dead |-> {}]
      <3>1. b \in Broadcast
        BY <1>0, <2>3 DEF WireTypes, Message, Broadcast
      <3>2. sending' = sending \/ sending' = [sending EXCEPT !["aggregator"] = b]
        BY <2>1 DEF Begin
      <3>3. sending' \in [Publisher -> Broadcast \cup {Idle}]
        BY <1>0, <3>1, <3>2 DEF WireTypes
      <3> QED  BY <1>0, <2>1, <2>2, <3>3 DEF WireTypes
    <2> QED  BY <2>1, <2>3, <2>4, PublishKeeps
  <1>2. CASE CloseCandle
    <2>1. /\ Begin("aggregator", [kind |-> "candle", n |-> 2 * (closed + 1) + 1])
          /\ UNCHANGED <<channel, connections, clock>>
      BY <1>2 DEF CloseCandle, Publish, tickers
    <2>2. /\ forming' = closed + 1 /\ closed' = closed + 1 /\ decided' = decided
          /\ closed \in Nat /\ forming \in {closed, closed + 1}
      BY <1>0, <1>2 DEF CloseCandle, WireTypes
    <2>3. /\ "candle" \in KindsOf("aggregator") /\ 2 * (closed + 1) + 1 \in Nat
          /\ 2 * (closed + 1) + 1 > Newest("candle") /\ 2 * (closed + 1) + 1 <= Newest("candle")'
          /\ \A k \in {"candle", "decision"} : Newest(k) <= Newest(k)'
      BY <1>0, <2>2 DEF KindsOf, Newest, WireTypes
    <2>4. WireTypes'
      <3> DEFINE m == [kind |-> "candle", n |-> 2 * (closed + 1) + 1]
                 b == [msg |-> m, todo |-> connections, dead |-> {}]
      <3>1. b \in Broadcast
        BY <1>0, <2>3 DEF WireTypes, Message, Broadcast
      <3>2. sending' = sending \/ sending' = [sending EXCEPT !["aggregator"] = b]
        BY <2>1 DEF Begin
      <3>3. sending' \in [Publisher -> Broadcast \cup {Idle}]
        BY <1>0, <3>1, <3>2 DEF WireTypes
      <3> QED  BY <1>0, <2>1, <2>2, <3>3 DEF WireTypes
    <2> QED  BY <2>1, <2>3, <2>4, PublishKeeps
  <1>3. CASE Decide
    <2>1. /\ Begin("loop", [kind |-> "decision", n |-> decided + 1])
          /\ UNCHANGED <<channel, connections, clock>>
      BY <1>3 DEF Decide, Publish, tickers
    <2>2. /\ forming' = forming /\ closed' = closed /\ decided' = decided + 1 /\ decided \in Nat
      BY <1>0, <1>3 DEF Decide, WireTypes
    <2>3. /\ "decision" \in KindsOf("loop") /\ decided + 1 \in Nat
          /\ decided + 1 > Newest("decision") /\ decided + 1 <= Newest("decision")'
          /\ \A k \in {"candle", "decision"} : Newest(k) <= Newest(k)'
      BY <1>0, <2>2 DEF KindsOf, Newest, WireTypes
    <2>4. WireTypes'
      <3> DEFINE m == [kind |-> "decision", n |-> decided + 1]
                 b == [msg |-> m, todo |-> connections, dead |-> {}]
      <3>1. b \in Broadcast
        BY <1>0, <2>3 DEF WireTypes, Message, Broadcast
      <3>2. sending' = sending \/ sending' = [sending EXCEPT !["loop"] = b]
        BY <2>1 DEF Begin
      <3>3. sending' \in [Publisher -> Broadcast \cup {Idle}]
        BY <1>0, <3>1, <3>2 DEF WireTypes
      <3> QED  BY <1>0, <2>1, <2>2, <3>3 DEF WireTypes
    <2> QED  BY <2>1, <2>3, <2>4, PublishKeeps
  <1>late. CASE LateCandle
    <2>1. PICK n \in 2 .. closed + forming + 1 : Publish("aggregator", [kind |-> "late", n |-> n])
      BY <1>late DEF LateCandle
    <2>2. /\ Begin("aggregator", [kind |-> "late", n |-> n]) /\ "late" \in KindsOf("aggregator")
          /\ UNCHANGED <<channel, connections, clock, tables>> /\ n \in Nat
      BY <1>0, <1>late, <2>1 DEF LateCandle, Publish, tickers, KindsOf, WireTypes
    <2>3. WireTypes'
      <3> DEFINE m == [kind |-> "late", n |-> n]
                 b == [msg |-> m, todo |-> connections, dead |-> {}]
      <3>1. b \in Broadcast
        BY <1>0, <2>2 DEF WireTypes, Message, Broadcast
      <3>2. sending' = sending \/ sending' = [sending EXCEPT !["aggregator"] = b]
        BY <2>2 DEF Begin
      <3>3. sending' \in [Publisher -> Broadcast \cup {Idle}]
        BY <1>0, <3>1, <3>2 DEF WireTypes
      <3> QED  BY <1>0, <2>2, <3>3 DEF WireTypes, tables
    <2>4. \A x \in {"candle", "decision"} : Newest(x) <= Newest(x)'
      BY <1>0, <2>2, NewestIsNumber DEF Newest, tables
    <2> QED  BY <2>2, <2>3, <2>4, PublishKeeps
  <1>4. CASE \E c \in Socket : Read(c)
    <2>1. PICK c \in Socket : Read(c)
      BY <1>4
    <2>2. /\ channel[c] # << >> /\ channel' = [channel EXCEPT ![c] = Tail(channel[c])]
          /\ UNCHANGED <<connections, sending, clock, tables>>
      BY <2>1 DEF Read, tickers
    <2> QED  BY <2>2, DrainKeeps
  <1>5. CASE \E c \in Socket : SocketVanishes(c)
    <2>1. PICK c \in Socket : SocketVanishes(c)
      BY <1>5
    <2>2. /\ channel' = [channel EXCEPT ![c] = << >>]
          /\ UNCHANGED <<connections, sending, clock, tables>>
      BY <2>1 DEF SocketVanishes, Vanish, tickers
    <2> QED  BY <2>2, DrainKeeps
  <1>6. CASE \E p \in Publisher, c \in Socket : Hub(SendTo(p, c))
    BY <1>6, SendKeeps DEF Hub
  <1>7. CASE \E p \in TickTask : Hub(PublishTicker(p))
    BY <1>7, TickerKeeps DEF Hub
  <1>8. CASE \/ PageOpens \/ \E c \in Socket : OtherOpens(c)
             \/ ServerAnswers \/ \E l \in List : AnswerArrives(l)
             \/ PageStep \/ UNCHANGED vars
    <2>1. UNCHANGED <<channel, sending, tables, connections, clock>>
      BY <1>8 DEF PageOpens, OtherOpens, Open, ServerAnswers, AnswerArrives, PageStep, vars, hubVars,
                  tickers
    <2>2. WireTypes'
      BY <1>0, <2>1 DEF WireTypes, tables
    <2> QED  BY <2>1, <2>2, QuietKeeps
  <1>9. CASE \E c \in Socket : Hub(Register(c)) \/ Hub(Leave(c))
    <2>1. UNCHANGED <<channel, sending, tables, clock>> /\ connections' \subseteq Socket
      BY <1>0, <1>9 DEF Hub, Register, Leave, tickers, WireTypes
    <2>2. WireTypes'
      BY <1>0, <2>1 DEF WireTypes, tables
    <2> QED  BY <2>1, <2>2, QuietKeeps
  <1>10. CASE Hub(clock < bound.seconds /\ ClockTicks)
    <2>1. UNCHANGED <<channel, sending, tables, connections>> /\ clock' = clock + 1
      BY <1>10 DEF Hub, ClockTicks
    <2>2. WireTypes'
      BY <1>0, <2>1 DEF WireTypes, tables
    <2> QED  BY <2>1, <2>2, QuietKeeps
  <1>11. Hub(HubStep) => \/ \E c \in Socket : Hub(Register(c)) \/ Hub(Leave(c))
                         \/ \E p \in Publisher, c \in Socket : Hub(SendTo(p, c))
                         \/ \E p \in TickTask : Hub(PublishTicker(p))
    BY DEF Hub, HubStep
  <1> QED
    BY <1>1, <1>2, <1>3, <1>late, <1>4, <1>5, <1>6, <1>7, <1>8, <1>9, <1>10, <1>11 DEF Next

\* Through channels of any capacity, with any number of clients that come, go
\* and stall, each client hears of decisions, and of the candles of one
\* connection, in the order of their publication, of each decision and each
\* close once.
THEOREM ClientsHearInOrder == Spec => []PublishedInOrder
  <1>1. WireInv => PublishedInOrder
    BY DEF WireInv
  <1> QED  BY InitWire, NextKeepsWire, <1>1, PTL DEF Spec

-----------------------------------------------------------------------------
(* What is on the screen.                                                  *)

Rising(s) == \A i, j \in DOMAIN s : i < j => Time(s[i]) < Time(s[j])

ChartInv ==
    /\ series \in Seq(Nat) /\ Rising(series)
    /\ pending \in Nat \cup {Nothing}
    /\ answer \in [List -> Seq(Nat) \cup {Nothing, Asked}]
    /\ answer["candles"] \in {Nothing, Asked} \/ Rising(answer["candles"])

LEMMA TimeIsNumber == ASSUME NEW n \in Nat PROVE Time(n) \in Nat
  BY DEF Time

LEMMA TimeOfClosed == ASSUME NEW t \in Nat PROVE 2 * t + 1 \in Nat /\ Time(2 * t + 1) = t
  BY DEF Time

LEMMA EmptyRises == << >> \in Seq(Nat) /\ Rising(<< >>)
  BY EmptySeq, LenProperties DEF Rising

\* appendOrUpdateCandle keeps a rising series rising, whatever candle comes.
LEMMA UpdateRises ==
    ASSUME NEW s \in Seq(Nat), Rising(s), NEW n \in Nat
    PROVE  AppendOrUpdate(s, n) \in Seq(Nat) /\ Rising(AppendOrUpdate(s, n))
  <1> DEFINE l == Len(s)
             r == AppendOrUpdate(s, n)
  <1>1. l \in Nat /\ DOMAIN s = 1 .. l /\ \A i \in 1 .. l : s[i] \in Nat
    BY LenProperties, ElementOfSeq
  <1>2. Time(n) \in Nat /\ \A i \in 1 .. l : Time(s[i]) \in Nat
    BY <1>1, TimeIsNumber
  <1>3. CASE s = << >>
    <2>1. r = Append(s, n) /\ l = 0
      BY <1>3, EmptySeq DEF AppendOrUpdate
    <2>2. r \in Seq(Nat) /\ DOMAIN r = 1 .. 1
      BY <2>1, AppendProperties, LenProperties
    <2> QED  BY <2>2 DEF Rising
  <1>4. CASE s # << >> /\ Time(Last(s)) = Time(n)
    <2> DEFINE f == Front(s)
    <2>1. l > 0 /\ Last(s) = s[l]
      BY <1>1, <1>4, EmptySeq DEF Last
    <2>2. f \in Seq(Nat) /\ Len(f) = l - 1 /\ \A i \in 1 .. l - 1 : f[i] = s[i]
      BY <1>1, <2>1 DEF Front
    <2>3. r = Append(f, n)
      BY <1>4 DEF AppendOrUpdate
    <2>4. /\ r \in Seq(Nat) /\ DOMAIN r = 1 .. l /\ r[l] = n
          /\ \A i \in 1 .. l - 1 : r[i] = s[i]
      <3>1. r \in Seq(Nat) /\ Len(r) = Len(f) + 1 /\ r[Len(f) + 1] = n
            /\ \A i \in 1 .. Len(f) : r[i] = f[i]
        BY <2>2, <2>3, AppendProperties
      <3>2. DOMAIN r = 1 .. Len(r)
        BY <3>1, LenProperties
      <3>3. Len(f) + 1 = l
        BY <1>1, <2>2
      <3> QED  BY <2>2, <3>1, <3>2, <3>3
    <2>5. ASSUME NEW i \in 1 .. l PROVE Time(r[i]) = Time(s[i])
      <3>1. CASE i = l
        BY <1>4, <2>1, <2>4, <3>1
      <3>2. CASE i # l
        <4>1. i \in 1 .. l - 1
          <5> HIDE DEF l
          <5> QED  BY <1>1, <3>2
        <4> QED  BY <2>4, <4>1
      <3> QED  BY <3>1, <3>2
    <2> QED  BY <1>1, <2>4, <2>5 DEF Rising
  <1>5. CASE s # << >> /\ Time(n) < Time(Last(s))
    <2>1. r = s
      BY <1>2, <1>5, EmptySeq DEF AppendOrUpdate, Last
    <2> QED  BY <2>1
  <1>6. CASE s # << >> /\ Time(Last(s)) # Time(n) /\ ~(Time(n) < Time(Last(s)))
    <2>1. l > 0 /\ Last(s) = s[l]
      BY <1>1, <1>6, EmptySeq DEF Last
    <2>2. r = Append(s, n)
      BY <1>6 DEF AppendOrUpdate
    <2>3. /\ r \in Seq(Nat) /\ DOMAIN r = 1 .. l + 1 /\ r[l + 1] = n
          /\ \A i \in 1 .. l : r[i] = s[i]
      BY <1>1, <2>2, AppendProperties, LenProperties
    <2>4. Time(s[l]) < Time(n)
      BY <1>1, <1>2, <1>6, <2>1
    <2>5. ASSUME NEW i \in 1 .. l PROVE Time(s[i]) < Time(n)
      <3>1. CASE i = l
        BY <2>4, <3>1
      <3>2. CASE i # l
        <4>0. i \in DOMAIN s /\ l \in DOMAIN s /\ i < l
          <5> HIDE DEF l
          <5>1. i \in Nat /\ i <= l /\ i < l /\ l \in 1 .. l
            BY <1>1, <2>1, <3>2
          <5> QED  BY <1>1, <5>1
        <4>1. Time(s[i]) < Time(s[l])
          BY <4>0 DEF Rising
        <4> QED  BY <1>1, <1>2, <2>1, <2>4, <4>1
      <3> QED  BY <3>1, <3>2
    <2>6. ASSUME NEW i \in DOMAIN r, NEW j \in DOMAIN r, i < j
          PROVE  Time(r[i]) < Time(r[j])
      <3>1. CASE j = l + 1
        BY <1>1, <2>3, <2>5, <2>6, <3>1
      <3>2. CASE j # l + 1
        <4>1. i \in 1 .. l /\ j \in 1 .. l
          BY <1>1, <2>3, <2>6, <3>2
        <4> QED  BY <1>1, <2>3, <2>6, <4>1 DEF Rising
      <3> QED  BY <3>1, <3>2
    <2> QED  BY <2>3, <2>6 DEF Rising
  <1> QED  BY <1>3, <1>4, <1>5, <1>6

LEMMA InitChart == Init => ChartInv
  <1> SUFFICES ASSUME Init PROVE ChartInv
    OBVIOUS
  <1>1. series = << >> /\ pending = Nothing /\ answer = [l \in List |-> Nothing]
    BY DEF Init, StoreInit
  <1>2. answer["candles"] = Nothing
    BY <1>1 DEF List
  <1> QED  BY <1>1, <1>2, EmptyRises DEF ChartInv

\* A page: the newest rows of a table of n, of candles in order of time.
LEMMA PageOfTable ==
    ASSUME NEW l \in List, NEW n \in Nat
    PROVE  LET size == IF n < PageSize[l] THEN n ELSE PageSize[l]
               rows == Rows(l, n)
           IN  /\ size \in Nat /\ size <= n /\ size <= PageSize[l] /\ PageSize[l] \in Nat \ {0}
               /\ rows \in Seq(Nat) /\ DOMAIN rows = 1 .. size /\ Len(rows) = size
               /\ l = "candles" => \A i \in 1 .. size : rows[i] \in Nat /\ Time(rows[i]) = n - size + i
               /\ l = "decisions" => \A i \in 1 .. size : rows[i] = n + 1 - i
  <1> DEFINE size == IF n < PageSize[l] THEN n ELSE PageSize[l]
             rows == Rows(l, n)
  <1>1. PageSize[l] \in Nat \ {0}
    BY StoreAssumption
  <1>2. size \in Nat /\ size <= n /\ size <= PageSize[l]
    BY <1>1
  <1>3. rows = [i \in 1 .. size |-> IF l = "candles" THEN 2 * (n - size + i) + 1 ELSE n + 1 - i]
    BY DEF Rows
  <1> HIDE DEF size
  <1>4. ASSUME NEW i \in 1 .. size
        PROVE  /\ rows[i] \in Nat
               /\ l = "candles" => Time(rows[i]) = n - size + i
               /\ l = "decisions" => rows[i] = n + 1 - i
    <2>1. n - size + i \in Nat /\ n + 1 - i \in Nat
      BY <1>2
    <2>2. CASE l = "candles"
      <3>1. rows[i] = 2 * (n - size + i) + 1
        BY <1>3, <2>2
      <3> QED  BY <2>1, <2>2, <3>1, TimeOfClosed
    <2>3. CASE l = "decisions"
      BY <1>3, <2>1, <2>3
    <2> QED  BY <2>2, <2>3 DEF List
  <1>5. rows \in Seq(Nat) /\ DOMAIN rows = 1 .. size /\ Len(rows) = size
    <2>1. rows = [i \in 1 .. size |-> rows[i]]
      BY <1>3
    <2>2. rows \in [1 .. size -> Nat]
      BY <1>4, <2>1
    <2> QED  BY <1>2, <2>2, SeqDef, LenProperties
  <1> QED  BY <1>1, <1>2, <1>4, <1>5 DEF size

\* What the server reads is in order, and a list of numbers.
LEMMA RowsRise ==
    ASSUME WireInv, NEW l \in List
    PROVE  LET rows == Rows(l, Table(l))
           IN  rows \in Seq(Nat) /\ (l = "candles" => Rising(rows))
  <1>1. Table(l) \in Nat
    BY DEF WireInv, WireTypes, Table
  <1> DEFINE n == Table(l)
             size == IF n < PageSize[l] THEN n ELSE PageSize[l]
             rows == Rows(l, n)
  <1>2. /\ size \in Nat /\ size <= n /\ rows \in Seq(Nat) /\ DOMAIN rows = 1 .. size
        /\ l = "candles" => \A i \in 1 .. size : Time(rows[i]) = n - size + i
    BY <1>1, PageOfTable
  <1> HIDE DEF size, rows, n
  <1>3. ASSUME l = "candles", NEW i \in DOMAIN rows, NEW j \in DOMAIN rows, i < j
        PROVE  Time(rows[i]) < Time(rows[j])
    BY <1>1, <1>2, <1>3 DEF n
  <1> QED  BY <1>2, <1>3 DEF Rising, rows, n

LEMMA NextKeepsChart == WireInv /\ ChartInv /\ [Next]_vars => ChartInv'
  <1> SUFFICES ASSUME WireInv, ChartInv, [Next]_vars PROVE ChartInv'
    OBVIOUS
  <1>0. "candles" \in List
    BY DEF List
  <1>1. CASE UNCHANGED storeVars
    BY <1>1 DEF ChartInv, storeVars
  <1>2. CASE \E c \in Socket : Read(c)
    <2>1. PICK c \in Socket : Read(c)
      BY <1>2
    <2> DEFINE m == Head(channel[c])
    <2>2. m.n \in Nat
      <3>1. channel[c] \in Seq(Message) /\ channel[c] # << >>
        BY <2>1 DEF WireInv, WireTypes, Read
      <3>2. m \in Message
        BY <3>1, HeadTailProperties
      <3> QED  BY <3>2 DEF Message
    <2>3. UNCHANGED storeVars \/ PushCandle(m.n) \/ PrependDecision(m.n)
      BY <2>1 DEF Read
    <2>4. CASE PushCandle(m.n)
      BY <2>2, <2>4 DEF PushCandle, ChartInv
    <2>5. CASE PrependDecision(m.n)
      BY <2>5 DEF PrependDecision, ChartInv
    <2> QED  BY <1>1, <2>3, <2>4, <2>5
  <1>3. CASE ServerAnswers
    <2>1. PICK l \in List : Answers(l, Rows(l, Table(l)))
      BY <1>3 DEF ServerAnswers
    <2> QED  BY <1>0, <2>1, RowsRise DEF Answers, ChartInv
  <1>4. CASE \E l \in List : AnswerArrives(l)
    <2>1. PICK l \in List : AnswerArrives(l)
      BY <1>4
    <2>2. Arrives(l)
      BY <2>1 DEF AnswerArrives
    <2>3. CASE l = "candles"
      <3>1. answer[l] \in Seq(Nat) /\ Rising(answer[l])
        BY <2>2, <2>3 DEF Arrives, ChartInv
      <3>2. series' = answer[l] /\ pending' = pending /\ answer' = [answer EXCEPT ![l] = Nothing]
        BY <2>2, <2>3 DEF Arrives
      <3> QED  BY <2>3, <3>1, <3>2 DEF ChartInv
    <2>4. CASE l # "candles"
      BY <2>2, <2>4 DEF Arrives, ChartInv
    <2> QED  BY <2>3, <2>4
  <1>5. CASE PageStep
    <2>1. CASE Frame
      <3>1. pending \in Nat /\ series' = AppendOrUpdate(series, pending)
            /\ pending' = Nothing /\ answer' = answer
        BY <2>1 DEF Frame, ChartInv
      <3> QED  BY <3>1, UpdateRises DEF ChartInv
    <2>2. CASE \E l \in List : Fetch(l)
      <3>1. PICK l \in List : Fetch(l)
        BY <2>2
      <3>2. PICK a \in {Asked, answer[l]} : answer' = [answer EXCEPT ![l] = a]
        BY <3>1 DEF Fetch
      <3>3. /\ pending' = pending
            /\ series' = series \/ series' = << >>
        BY <3>1 DEF Fetch
      <3>4. /\ answer' \in [List -> Seq(Nat) \cup {Nothing, Asked}]
            /\ answer'["candles"] \in {Asked, answer["candles"]}
        BY <1>0, <3>2 DEF ChartInv
      <3>5. answer'["candles"] \in {Nothing, Asked} \/ Rising(answer'["candles"])
        BY <3>4 DEF ChartInv
      <3>6. series' \in Seq(Nat) /\ Rising(series')
        BY <3>3, EmptyRises DEF ChartInv
      <3> QED  BY <3>3, <3>4, <3>5, <3>6 DEF ChartInv
    <2>3. CASE \E l \in List : FetchFails(l)
      BY <1>0, <2>3 DEF FetchFails, ChartInv
    <2> QED  BY <1>5, <2>1, <2>2, <2>3 DEF PageStep
  <1>6. \/ UNCHANGED storeVars
        \/ \E c \in Socket : Read(c)
        \/ ServerAnswers \/ \E l \in List : AnswerArrives(l)
        \/ PageStep
    BY DEF Next, Publish, OpenCandle, CloseCandle, LateCandle, Decide, PageOpens, OtherOpens, SocketVanishes, Hub,
           vars
  <1> QED  BY <1>1, <1>2, <1>3, <1>4, <1>5, <1>6

\* The chart's candles are in order of time and each is there once, whatever the
\* socket delivers late and whichever of several answers of the server arrives.
THEOREM ChartIsInOrder == Spec => []SeriesAscending
  <1>1. ChartInv => SeriesAscending
    BY DEF ChartInv, Rising, SeriesAscending
  <1> QED  BY InitWire, NextKeepsWire, InitChart, NextKeepsChart, <1>1, PTL DEF Spec

-----------------------------------------------------------------------------
(* What the page was told.                                                 *)

\* The page's socket is there, and a message of row d waits for it.
Bears(m, l, d) == m.kind # "ticker" /\ ListOf(m) = l /\ RowOf(m) = d
Live == page # NoSocket /\ peer[page] = "up"
Queued(c, l, d) == \E i \in DOMAIN channel[c] : Bears(channel[c][i], l, d)
BeingSent(c, l, d) ==
    \E p \in Publisher : sending[p] # Idle /\ c \in sending[p].todo /\ Bears(sending[p].msg, l, d)
OnWay(l, d) == Live /\ (Queued(page, l, d) \/ BeingSent(page, l, d))

FeedTypes ==
    /\ peer \in [Socket -> {"new", "up", "gone"}]
    /\ page \in Socket \cup {NoSocket}
    /\ asOf \in [List -> Nat]
    /\ missed \in [List -> SUBSET Nat]
    /\ dropped \in [List -> SUBSET Nat]
    /\ shown \in Seq(Nat) /\ Len(shown) <= ListCap

LEMMA OnWayComes == ASSUME NEW l \in List, NEW d, OnWay(l, d) PROVE d \in Coming(l)
  <1> DEFINE queue == ToSet(IF page = NoSocket THEN << >> ELSE channel[page])
             sent  == {sending[p].msg : p \in {q \in Publisher : sending[q] # Idle /\ page \in sending[q].todo}}
  <1>1. PICK m \in queue \cup sent : Bears(m, l, d)
    <2>1. queue = {channel[page][i] : i \in DOMAIN channel[page]}
      BY DEF OnWay, Live, ToSet
    <2> QED  BY <2>1 DEF OnWay, Queued, BeingSent
  <1> QED  BY <1>1 DEF Coming, Bears

LEMMA MissAdds ==
    ASSUME FeedTypes, NEW S \in SUBSET Message, Miss(S)
    PROVE  /\ missed' \in [List -> SUBSET Nat]
           /\ \A l \in List : missed[l] \subseteq missed'[l]
           /\ \A l \in List : \A m \in S : \A d : Bears(m, l, d) => d \in missed'[l]
  <1> DEFINE New(l) == {RowOf(m) : m \in {x \in S : x.kind # "ticker" /\ ListOf(x) = l}}
  <1>1. missed' = [l \in List |-> missed[l] \cup New(l)]
    BY DEF Miss
  <1>2. \A m \in Message : RowOf(m) \in Nat
    BY TimeIsNumber DEF Message, RowOf
  <1>3. \A l \in List : New(l) \subseteq Nat
    BY <1>2
  <1>4. missed' \in [List -> SUBSET Nat]
    BY <1>1, <1>3 DEF FeedTypes
  <1>5. ASSUME NEW l \in List, NEW m \in S, NEW d, Bears(m, l, d) PROVE d \in New(l)
    BY <1>5 DEF Bears
  <1> QED  BY <1>1, <1>4, <1>5

\* A step that leaves the channels, the broadcasts under way and a live page
\* alone loses nothing.
LEMMA StillOnWay ==
    ASSUME NEW l \in List, NEW d, OnWay(l, d),
           channel' = channel, page' = page, Live => Live',
           \A p \in Publisher : sending[p] # Idle => sending'[p] = sending[p]
    PROVE  OnWay(l, d)'
  <1>1. Live /\ Live'
    BY DEF OnWay
  <1>2. Queued(page, l, d) => Queued(page, l, d)'
    BY DEF Queued
  <1>3. BeingSent(page, l, d) => BeingSent(page, l, d)'
    BY DEF BeingSent
  <1> QED  BY <1>1, <1>2, <1>3 DEF OnWay

\* What is broadcast is on its way to the page, or it is missed.
LEMMA PublishTells ==
    ASSUME WireInv, FeedTypes, NEW p \in {"aggregator", "loop"}, NEW m \in Message, Publish(p, m)
    PROVE  /\ FeedTypes'
           /\ \A l \in List : missed[l] \subseteq missed'[l]
           /\ \A l \in List, d \in Nat : OnWay(l, d) => OnWay(l, d)'
           /\ \A l \in List, d \in Nat : Bears(m, l, d) => OnWay(l, d)' \/ d \in missed'[l]
  <1> DEFINE b == [msg |-> m, todo |-> connections, dead |-> {}]
             S == IF Listening THEN {} ELSE {m}
  <1>1. /\ p \in Publisher /\ sending[p] = Idle /\ Miss(S) /\ S \in SUBSET Message
        /\ sending' = IF connections = {} THEN sending ELSE [sending EXCEPT ![p] = b]
        /\ UNCHANGED <<peer, page, channel, connections, dropped, shown, asOf>>
    BY DEF Publish, Begin, Publisher, ends, storeVars
  <1>2. sending \in [Publisher -> Broadcast \cup {Idle}] /\ b \in Broadcast /\ connections \subseteq Socket
    BY DEF WireInv, WireTypes, Broadcast
  <1>3. /\ missed' \in [List -> SUBSET Nat]
        /\ \A l \in List : missed[l] \subseteq missed'[l]
        /\ \A l \in List : \A x \in S : \A d : Bears(x, l, d) => d \in missed'[l]
    BY <1>1, MissAdds
  <1>4. FeedTypes'
    BY <1>1, <1>3 DEF FeedTypes
  <1>5. ASSUME NEW l \in List, NEW d \in Nat, OnWay(l, d) PROVE OnWay(l, d)'
    <2>1. \A q \in Publisher : sending[q] # Idle => sending'[q] = sending[q]
      BY <1>1, <1>2
    <2>2. Live => Live'
      BY <1>1 DEF Live
    <2> QED  BY <1>1, <1>5, <2>1, <2>2, StillOnWay
  <1>6. ASSUME NEW l \in List, NEW d \in Nat, Bears(m, l, d)
        PROVE  OnWay(l, d)' \/ d \in missed'[l]
    <2>1. CASE Listening
      <3>1. page \in connections /\ peer[page] = "up" /\ page # NoSocket
        BY <1>2, <2>1, FeedAssumption DEF Listening
      <3>2. sending'[p] = b /\ b # Idle /\ page \in b.todo /\ b.msg = m
        BY <1>1, <1>2, <3>1, HubAssumption
      <3>3. BeingSent(page, l, d)'
        BY <1>1, <1>6, <3>2 DEF BeingSent
      <3> QED  BY <1>1, <3>1, <3>3 DEF OnWay, Live
    <2>2. CASE ~Listening
      BY <1>3, <1>6, <2>2
    <2> QED  BY <2>1, <2>2
  <1> QED  BY <1>3, <1>4, <1>5, <1>6

\* A send moves a message from the broadcast to the channel of a live client.
LEMMA SendTells ==
    ASSUME WireInv, FeedTypes, NEW p \in Publisher, NEW c \in Socket, SendTo(p, c), page' = page,
           NEW l \in List, NEW d, OnWay(l, d)
    PROVE  OnWay(l, d)'
  <1> DEFINE b == sending[p]
             m == b.msg
  <1>1. /\ sending \in [Publisher -> Broadcast \cup {Idle}] /\ b # Idle /\ b \in Broadcast /\ c \in b.todo
        /\ channel \in [Socket -> Seq(Message)] /\ m \in Message
        /\ Live /\ page \in Socket /\ peer[page] = "up" /\ peer' = peer
    BY DEF WireInv, WireTypes, FeedTypes, SendTo, OnWay, Live, Broadcast, ends
  <1>2. Live'
    BY <1>1 DEF Live
  <1>3. PICK raised \in BOOLEAN :
            /\ SendNext(p, c, raised)
            /\ IF raised THEN peer[c] = "gone" /\ UNCHANGED channel ELSE Sent(c, m)
    BY DEF SendTo
  <1>4. UNCHANGED channel \/ channel' = [channel EXCEPT ![c] = Append(channel[c], m)]
    BY <1>3 DEF Sent
  <1>5. /\ Len(channel[page]) \in Nat /\ DOMAIN channel[page] = 1 .. Len(channel[page])
        /\ LET s == Append(channel[page], m)
           IN  /\ DOMAIN s = 1 .. Len(channel[page]) + 1 /\ s[Len(channel[page]) + 1] = m
               /\ \A i \in 1 .. Len(channel[page]) : s[i] = channel[page][i]
    BY <1>1, AppendProperties, LenProperties
  <1>6. channel'[page] = channel[page] \/ (c = page /\ channel'[page] = Append(channel[page], m))
    BY <1>1, <1>4
  <1>7. Queued(page, l, d) => Queued(page, l, d)'
    <2> SUFFICES ASSUME NEW i \in DOMAIN channel[page], Bears(channel[page][i], l, d)
                 PROVE  Queued(page, l, d)'
      BY DEF Queued
    <2>1. i \in DOMAIN channel'[page] /\ channel'[page][i] = channel[page][i]
      BY <1>5, <1>6
    <2> QED  BY <2>1 DEF Queued, Bears, ListOf, RowOf, Time
  <1>8. BeingSent(page, l, d) => BeingSent(page, l, d)' \/ Queued(page, l, d)'
    <2> SUFFICES ASSUME NEW q \in Publisher, sending[q] # Idle, page \in sending[q].todo,
                        Bears(sending[q].msg, l, d)
                 PROVE  BeingSent(page, l, d)' \/ Queued(page, l, d)'
      BY DEF BeingSent
    <2>1. CASE q # p
      <3>1. sending'[q] = sending[q]
        BY <1>1, <1>3, <2>1 DEF SendNext
      <3> QED  BY <3>1 DEF BeingSent
    <2>2. CASE q = p /\ c # page
      <3> DEFINE rest == b.todo \ {c}
                 r == [b EXCEPT !.todo = rest,
                                !.dead = IF raised THEN b.dead \cup {c} ELSE b.dead]
      <3>1. page \in rest /\ rest # {}
        BY <2>2
      <3>2. sending' = [sending EXCEPT ![p] = r]
        BY <1>3, <3>1 DEF SendNext
      <3>3. r \in Broadcast /\ r # Idle /\ r.msg = m /\ r.todo = rest
        <4>1. (IF raised THEN b.dead \cup {c} ELSE b.dead) \in SUBSET Socket /\ rest \in SUBSET Socket
          BY <1>1 DEF Broadcast
        <4>2. r \in Broadcast /\ r.msg = m /\ r.todo = rest
          BY <1>1, <4>1 DEF Broadcast
        <4> QED  BY <4>2, HubAssumption
      <3>4. sending'[p] = r
        BY <1>1, <3>2
      <3> QED  BY <2>2, <3>1, <3>3, <3>4 DEF BeingSent
    <2>3. CASE q = p /\ c = page
      <3>1. channel' = [channel EXCEPT ![page] = Append(channel[page], m)]
        BY <1>1, <1>3, <2>3 DEF Sent
      <3>2. channel'[page] = Append(channel[page], m)
        BY <1>1, <3>1
      <3> DEFINE i == Len(channel[page]) + 1
      <3>3. i \in DOMAIN channel'[page] /\ channel'[page][i] = m
        BY <1>5, <3>2
      <3> QED  BY <2>3, <3>3 DEF Queued
    <2> QED  BY <2>1, <2>2, <2>3
  <1> QED  BY <1>2, <1>7, <1>8 DEF OnWay

\* When the page's socket goes, what was on its way is missed.
LEMMA VanishTells ==
    ASSUME WireInv, FeedTypes, NEW c \in Socket, SocketVanishes(c)
    PROVE  /\ FeedTypes'
           /\ \A l \in List : missed[l] \subseteq missed'[l]
           /\ \A l \in List, d \in Nat : OnWay(l, d) => OnWay(l, d)' \/ d \in missed'[l]
  <1>1. /\ peer[c] = "up" /\ peer' = [peer EXCEPT ![c] = "gone"] /\ page' = page
        /\ channel' = [channel EXCEPT ![c] = << >>]
        /\ UNCHANGED <<sending, dropped, shown, asOf>>
    BY DEF SocketVanishes, Vanish, storeVars
  <1>2. channel \in [Socket -> Seq(Message)] /\ sending \in [Publisher -> Broadcast \cup {Idle}]
    BY DEF WireInv, WireTypes
  <1>3. CASE c = page
    <2> DEFINE sent == {sending[p].msg : p \in {q \in Publisher : sending[q] # Idle /\ c \in sending[q].todo}}
               S == ToSet(channel[c]) \cup sent
    <2>1. Miss(S)
      BY <1>3 DEF SocketVanishes
    <2>2. channel[c] \in Seq(Message) /\ ToSet(channel[c]) = {channel[c][i] : i \in DOMAIN channel[c]}
      BY <1>2 DEF ToSet
    <2>3. \A i \in DOMAIN channel[c] : channel[c][i] \in Message
      BY <2>2, ElementOfSeq, LenProperties
    <2>4. S \in SUBSET Message
      BY <1>2, <2>2, <2>3 DEF Broadcast
    <2>5. /\ missed' \in [List -> SUBSET Nat]
          /\ \A l \in List : missed[l] \subseteq missed'[l]
          /\ \A l \in List : \A x \in S : \A d : Bears(x, l, d) => d \in missed'[l]
      BY <2>1, <2>4, MissAdds
    <2>6. ASSUME NEW l \in List, NEW d \in Nat, OnWay(l, d) PROVE d \in missed'[l]
      <3>1. \E x \in S : Bears(x, l, d)
        BY <1>3, <2>2, <2>6 DEF OnWay, Queued, BeingSent
      <3> QED  BY <2>5, <3>1
    <2> QED  BY <1>1, <2>5, <2>6 DEF FeedTypes
  <1>4. CASE c # page
    <2>1. missed' = missed
      BY <1>4 DEF SocketVanishes
    <2>2. ASSUME NEW l \in List, NEW d \in Nat, OnWay(l, d) PROVE OnWay(l, d)'
      <3>1. Live /\ page \in Socket /\ peer'[page] = peer[page] /\ channel'[page] = channel[page]
        BY <1>1, <1>2, <1>4, <2>2 DEF OnWay, Live, FeedTypes
      <3>2. Live'
        BY <1>1, <3>1 DEF Live
      <3>3. Queued(page, l, d)' <=> Queued(page, l, d)
        BY <1>1, <3>1 DEF Queued
      <3>4. BeingSent(page, l, d)' <=> BeingSent(page, l, d)
        BY <1>1 DEF BeingSent
      <3> QED  BY <2>2, <3>2, <3>3, <3>4 DEF OnWay
    <2> QED  BY <1>1, <2>1, <2>2 DEF FeedTypes
  <1> QED  BY <1>3, <1>4

\* What a read takes from the page's channel is the message that it hands on.
LEMMA ReadTells ==
    ASSUME WireInv, FeedTypes, NEW c \in Socket, Read(c), NEW l \in List, NEW d, OnWay(l, d)
    PROVE  OnWay(l, d)' \/ (c = page /\ Bears(Head(channel[c]), l, d))
  <1>1. /\ channel[c] # << >> /\ channel' = [channel EXCEPT ![c] = Tail(channel[c])]
        /\ UNCHANGED <<peer, page, sending>> /\ Live /\ page \in Socket
        /\ channel \in [Socket -> Seq(Message)]
    BY DEF Read, WireInv, WireTypes, FeedTypes, OnWay, Live, ends
  <1>2. Live' /\ (BeingSent(page, l, d)' <=> BeingSent(page, l, d))
    BY <1>1 DEF Live, BeingSent
  <1>3. CASE c # page
    <2>1. channel'[page] = channel[page]
      BY <1>1, <1>3
    <2>2. Queued(page, l, d)' <=> Queued(page, l, d)
      BY <1>1, <2>1 DEF Queued
    <2> QED  BY <1>2, <2>2 DEF OnWay
  <1>4. CASE c = page
    <2> DEFINE q == channel[c]
               t == channel'[c]
    <2>1. /\ q \in Seq(Message) /\ q # << >> /\ t = Tail(q)
      BY <1>1
    <2>2. /\ Len(q) \in Nat /\ Len(q) > 0 /\ DOMAIN q = 1 .. Len(q) /\ DOMAIN t = 1 .. Len(q) - 1
          /\ \A i \in 1 .. Len(q) - 1 : t[i] = q[i + 1]
          /\ Head(q) = q[1]
      BY <2>1, HeadTailProperties, LenProperties, EmptySeq
    <2>3. ASSUME Queued(page, l, d), ~Bears(Head(q), l, d) PROVE Queued(page, l, d)'
      <3>1. PICK i \in DOMAIN q : Bears(q[i], l, d)
        BY <1>4, <2>3 DEF Queued
      <3>2. i # 1
        BY <2>2, <2>3, <3>1
      <3>3. i - 1 \in DOMAIN t /\ t[i - 1] = q[i]
        BY <2>2, <3>2
      <3> QED  BY <1>1, <1>4, <3>1, <3>3 DEF Queued
    <2> QED  BY <1>2, <1>4, <2>3 DEF OnWay
  <1> QED  BY <1>3, <1>4

-----------------------------------------------------------------------------
(* What the page holds of what it was told.                                *)

Waits == IF pending = Nothing THEN {} ELSE {Time(pending)}
Here(l) == dropped[l] \cup (IF l = "candles" THEN Candles(series) \cup Waits ELSE ToSet(shown))
OnList(d) == d \in ToSet(shown) \/ (d \in dropped["decisions"] /\ Len(shown) = ListCap)

LEMMA LosesOnly ==
    ASSUME FeedTypes, NEW l \in List, NEW before \in SUBSET Nat, NEW after, Lose(l, before, after)
    PROVE  /\ dropped' \in [List -> SUBSET Nat]
           /\ \A k \in List \ {l} : dropped'[k] = dropped[k]
           /\ dropped[l] \cup before \subseteq dropped'[l] \cup after
  BY DEF FeedTypes, Lose

LEMMA CandleTimes == ASSUME NEW s \in Seq(Nat) PROVE Candles(s) \in SUBSET Nat
  BY TimeIsNumber, ElementOfSeq, LenProperties DEF Candles

LEMMA ShownNumbers == ASSUME NEW s \in Seq(Nat) PROVE ToSet(s) \in SUBSET Nat
  BY ElementOfSeq, LenProperties DEF ToSet

\* prependDecision shows the decision, and forgets others only when it is full.
LEMMA PrependHolds ==
    ASSUME FeedTypes, NEW n \in Nat, PrependDecision(n)
    PROVE  /\ shown' \in Seq(Nat) /\ Len(shown') <= ListCap /\ dropped' \in [List -> SUBSET Nat]
           /\ \A l \in List : Here(l) \subseteq Here(l)'
           /\ n \in Here("decisions")'
           /\ \A d : OnList(d) => OnList(d)'
  <1> DEFINE list == <<n>> \o shown
             k == IF Len(list) < ListCap THEN Len(list) ELSE ListCap
  <1>1. /\ shown' = SubSeq(list, 1, k) /\ Lose("decisions", ToSet(shown), ToSet(shown'))
        /\ UNCHANGED <<series, pending>>
    BY DEF PrependDecision
  <1>2. shown \in Seq(Nat) /\ Len(shown) \in Nat /\ Len(shown) <= ListCap /\ ListCap \in Nat \ {0}
        /\ DOMAIN shown = 1 .. Len(shown)
    BY StoreAssumption, LenProperties DEF FeedTypes
  <1>3. /\ list \in Seq(Nat) /\ Len(list) = Len(shown) + 1 /\ list[1] = n
        /\ \A i \in 1 .. Len(shown) : list[i + 1] = shown[i]
    <2>1. <<n>> \in Seq(Nat) /\ Len(<<n>>) = 1 /\ <<n>>[1] = n
      OBVIOUS
    <2> HIDE DEF list
    <2>2. /\ list \in Seq(Nat) /\ Len(list) = 1 + Len(shown)
          /\ \A i \in 1 .. 1 + Len(shown) : list[i] = IF i <= 1 THEN <<n>>[i] ELSE shown[i - 1]
      BY <1>2, <2>1, ConcatProperties, Zenon DEF list
    <2>3. list[1] = n
      BY <1>2, <2>1, <2>2
    <2>4. ASSUME NEW i \in 1 .. Len(shown) PROVE list[i + 1] = shown[i]
      <3>1. i + 1 \in 1 .. 1 + Len(shown) /\ ~(i + 1 <= 1) /\ i + 1 - 1 = i
        BY <1>2
      <3> QED  BY <2>2, <3>1
    <2> QED  BY <1>2, <2>2, <2>3, <2>4
  <1> HIDE DEF list
  <1>4. k \in Nat /\ 1 <= k /\ k <= Len(list) /\ k <= ListCap
    BY <1>2, <1>3
  <1>5. k = Len(list) \/ k = ListCap
    OBVIOUS
  <1> HIDE DEF k
  <1>6. /\ shown' \in Seq(Nat) /\ Len(shown') = k /\ DOMAIN shown' = 1 .. k
        /\ \A i \in 1 .. k : shown'[i] = list[i]
    <2>1. /\ SubSeq(list, 1, k) \in Seq(Nat) /\ Len(SubSeq(list, 1, k)) = k
          /\ \A i \in 1 .. k : SubSeq(list, 1, k)[i] = list[i]
      BY <1>3, <1>4, SubSeqProperties
    <2> QED  BY <1>1, <1>4, <2>1, LenProperties
  <1>7. n \in ToSet(shown')
    BY <1>3, <1>4, <1>6 DEF ToSet
  <1>8. ASSUME k = Len(list) PROVE ToSet(shown) \subseteq ToSet(shown')
    <2> SUFFICES ASSUME NEW i \in 1 .. Len(shown) PROVE shown[i] \in ToSet(shown')
      BY <1>2 DEF ToSet
    <2>1. i + 1 \in DOMAIN shown' /\ shown'[i + 1] = shown[i]
      BY <1>2, <1>3, <1>6, <1>8
    <2> QED  BY <2>1 DEF ToSet
  <1>9. /\ dropped' \in [List -> SUBSET Nat]
        /\ \A l \in List \ {"decisions"} : dropped'[l] = dropped[l]
        /\ dropped["decisions"] \cup ToSet(shown) \subseteq dropped'["decisions"] \cup ToSet(shown')
    BY <1>1, <1>2, LosesOnly, ShownNumbers DEF List
  <1>10. \A l \in List : Here(l) \subseteq Here(l)'
    BY <1>1, <1>9 DEF Here, Waits, List
  <1>11. ASSUME NEW d, OnList(d) PROVE OnList(d)'
    <2>1. CASE k = ListCap
      BY <1>6, <1>9, <1>11, <2>1 DEF OnList
    <2>2. CASE k = Len(list) /\ k # ListCap
      <3>1. Len(shown) # ListCap
        <4>1. k = Len(shown) + 1
          BY <1>3, <2>2
        <4>2. k \in Nat /\ k <= ListCap
          BY <1>4
        <4>3. Len(shown) \in Nat /\ ListCap \in Nat
          BY <1>2
        <4> QED  BY <4>1, <4>2, <4>3
      <3> QED  BY <1>8, <1>11, <2>2, <3>1 DEF OnList
    <2> QED  BY <1>5, <2>1, <2>2
  <1> QED  BY <1>4, <1>6, <1>7, <1>9, <1>10, <1>11 DEF Here

\* The tick buffer holds the candle; the one it held is in the chart, or lost.
LEMMA PushHolds ==
    ASSUME FeedTypes, ChartInv, NEW n \in Nat, PushCandle(n)
    PROVE  /\ dropped' \in [List -> SUBSET Nat] /\ UNCHANGED shown
           /\ \A l \in List : Here(l) \subseteq Here(l)'
           /\ Time(n) \in Here("candles")'
           /\ \A d : OnList(d) => OnList(d)'
  <1>1. /\ pending' = n /\ UNCHANGED <<series, shown>>
        /\ Lose("candles", Waits, {Time(n)} \cup Candles(series))
    BY DEF PushCandle, Waits
  <1>2. Waits \in SUBSET Nat
    BY TimeIsNumber DEF Waits, ChartInv
  <1>3. /\ dropped' \in [List -> SUBSET Nat] /\ dropped'["decisions"] = dropped["decisions"]
        /\ dropped["candles"] \cup Waits \subseteq dropped'["candles"] \cup {Time(n)} \cup Candles(series)
    <2> DEFINE after == {Time(n)} \cup Candles(series)
    <2>1. "candles" \in List /\ "decisions" \in List \ {"candles"} /\ Lose("candles", Waits, after)
      BY <1>1 DEF List
    <2> HIDE DEF after
    <2>2. /\ dropped' \in [List -> SUBSET Nat] /\ dropped'["decisions"] = dropped["decisions"]
          /\ dropped["candles"] \cup Waits \subseteq dropped'["candles"] \cup after
      BY <1>2, <2>1, LosesOnly
    <2> QED  BY <2>2 DEF after
  <1>4. n # Nothing
    BY StoreAssumption
  <1>5. Waits' = {Time(n)} /\ Candles(series)' = Candles(series)
    BY <1>1, <1>4 DEF Waits
  <1> QED  BY <1>1, <1>3, <1>5 DEF Here, OnList, List

\* appendOrUpdateCandle takes no candle from the chart.
LEMMA UpdateHolds ==
    ASSUME NEW s \in Seq(Nat), NEW n \in Nat
    PROVE  Candles(s) \subseteq Candles(AppendOrUpdate(s, n))
  <1> DEFINE l == Len(s)
             r == AppendOrUpdate(s, n)
  <1>1. l \in Nat /\ DOMAIN s = 1 .. l
    BY LenProperties
  <1>2. CASE r = Append(s, n)
    <2>1. DOMAIN r = 1 .. l + 1 /\ \A i \in 1 .. l : r[i] = s[i]
      BY <1>1, <1>2, AppendProperties, LenProperties
    <2>2. \A i \in DOMAIN s : i \in DOMAIN r /\ r[i] = s[i]
      BY <1>1, <2>1
    <2> QED  BY <2>2 DEF Candles
  <1>3. CASE s # << >> /\ Time(Last(s)) = Time(n) /\ r = Append(Front(s), n)
    <2> DEFINE f == Front(s)
    <2>1. l > 0 /\ Last(s) = s[l]
      BY <1>1, <1>3, EmptySeq DEF Last
    <2>2. f \in Seq(Nat) /\ Len(f) = l - 1 /\ \A i \in 1 .. l - 1 : f[i] = s[i]
      BY <1>1, <2>1 DEF Front
    <2>3. /\ r \in Seq(Nat) /\ Len(r) = Len(f) + 1 /\ r[Len(f) + 1] = n
          /\ \A i \in 1 .. Len(f) : r[i] = f[i]
      BY <1>3, <2>2, AppendProperties
    <2>4. DOMAIN r = 1 .. Len(r)
      BY <2>3, LenProperties
    <2> HIDE DEF r, f
    <2>5. DOMAIN r = 1 .. l /\ r[l] = n /\ \A i \in 1 .. l - 1 : r[i] = s[i]
      BY <1>1, <2>1, <2>2, <2>3, <2>4
    <2>6. ASSUME NEW i \in DOMAIN s PROVE i \in DOMAIN r /\ Time(r[i]) = Time(s[i])
      <3>1. CASE i = l
        BY <1>1, <1>3, <2>1, <2>5, <3>1
      <3>2. CASE i # l
        BY <1>1, <2>1, <2>5, <3>2
      <3> QED  BY <3>1, <3>2
    <2> QED  BY <2>6 DEF Candles, r
  <1>4. CASE r = s
    BY <1>4
  <1> QED  BY <1>2, <1>3, <1>4 DEF AppendOrUpdate

LEMMA FrameHolds ==
    ASSUME FeedTypes, ChartInv, Frame
    PROVE  /\ dropped' \in [List -> SUBSET Nat] /\ UNCHANGED shown
           /\ \A l \in List : Here(l) \subseteq Here(l)'
           /\ \A d : OnList(d) => OnList(d)'
  <1>1. /\ pending \in Nat /\ pending' = Nothing /\ series' = AppendOrUpdate(series, pending)
        /\ Lose("candles", {Time(pending)}, Candles(series')) /\ UNCHANGED shown
    BY DEF Frame, ChartInv
  <1>2. Candles(series) \subseteq Candles(series')
    BY <1>1, UpdateHolds DEF ChartInv
  <1>3. /\ dropped' \in [List -> SUBSET Nat] /\ dropped'["decisions"] = dropped["decisions"]
        /\ dropped["candles"] \cup {Time(pending)} \subseteq dropped'["candles"] \cup Candles(series')
    <2>1. "candles" \in List /\ "decisions" \in List \ {"candles"} /\ {Time(pending)} \in SUBSET Nat
      BY <1>1, TimeIsNumber DEF List
    <2> QED  BY <1>1, <2>1, LosesOnly
  <1>4. Waits \subseteq {Time(pending)}
    BY DEF Waits
  <1> QED  BY <1>1, <1>2, <1>3, <1>4 DEF Here, OnList, List

LEMMA FetchHolds ==
    ASSUME FeedTypes, ChartInv, NEW k \in List, Fetch(k)
    PROVE  /\ dropped' \in [List -> SUBSET Nat] /\ UNCHANGED shown
           /\ \A l \in List : Here(l) \subseteq Here(l)'
           /\ \A d : OnList(d) => OnList(d)'
  <1>1. UNCHANGED <<pending, shown>>
    BY DEF Fetch
  <1>2. CASE k = "candles"
    <2>1. series' = << >> /\ Lose("candles", Candles(series), {})
      BY <1>2 DEF Fetch
    <2>2. /\ dropped' \in [List -> SUBSET Nat] /\ dropped'["decisions"] = dropped["decisions"]
          /\ dropped["candles"] \cup Candles(series) \subseteq dropped'["candles"]
      <3>1. "candles" \in List /\ "decisions" \in List \ {"candles"} /\ Candles(series) \in SUBSET Nat
        BY CandleTimes DEF ChartInv, List
      <3>2. dropped["candles"] \cup Candles(series) \subseteq dropped'["candles"] \cup {}
        BY <2>1, <3>1, LosesOnly
      <3>3. dropped' \in [List -> SUBSET Nat] /\ dropped'["decisions"] = dropped["decisions"]
        BY <2>1, <3>1, LosesOnly
      <3> QED  BY <3>2, <3>3
    <2> QED  BY <1>1, <2>2 DEF Here, Waits, OnList, List
  <1>3. CASE k # "candles"
    <2>1. UNCHANGED <<series, dropped>>
      BY <1>3 DEF Fetch
    <2> QED  BY <1>1, <2>1 DEF Here, Waits, OnList, FeedTypes
  <1> QED  BY <1>2, <1>3

-----------------------------------------------------------------------------
(* What the page holds and what it was told together account for the rows. *)

AnswerInv ==
    \A l \in List :
        /\ asOf[l] <= Table(l)
        /\ answer[l] \in {Nothing, Asked} \/ \E n \in asOf[l] .. Table(l) : answer[l] = Rows(l, n)

\* Unlike Coming, OnWay counts nothing as coming to a socket that has gone: the
\* page may open another.
LaterRows == \A l \in List : \A d \in asOf[l] + 1 .. Table(l) : d \in Here(l) \cup missed[l] \/ OnWay(l, d)
DecisionRows == \A d \in 1 .. asOf["decisions"] : OnList(d) \/ TooOld("decisions", d, asOf["decisions"])
CandleRows == \A t \in 1 .. asOf["candles"] : t \in Here("candles") \/ TooOld("candles", t, asOf["candles"])

RowsInv == FeedTypes /\ AnswerInv /\ LaterRows /\ DecisionRows /\ CandleRows

LEMMA ListMembers == List = {"candles", "decisions"} /\ "candles" \in List /\ "decisions" \in List
  BY DEF List

LEMMA InitRows == Init => RowsInv
  <1> SUFFICES ASSUME Init PROVE RowsInv
    OBVIOUS
  <1>1. /\ peer = [c \in Socket |-> "new"] /\ page = NoSocket /\ shown = << >>
        /\ asOf = [l \in List |-> 0] /\ missed = [l \in List |-> {}] /\ dropped = [l \in List |-> {}]
        /\ answer = [l \in List |-> Nothing] /\ closed = 0 /\ decided = 0
    BY DEF Init, HubInit, StoreInit
  <1>2. FeedTypes
    BY <1>1, EmptySeq, StoreAssumption DEF FeedTypes
  <1>3. \A l \in List : asOf[l] = 0 /\ Table(l) = 0 /\ answer[l] = Nothing
    BY <1>1 DEF Table
  <1>4. AnswerInv /\ LaterRows
    BY <1>3 DEF AnswerInv, LaterRows
  <1>5. DecisionRows /\ CandleRows
    BY <1>3, ListMembers DEF DecisionRows, CandleRows
  <1> QED  BY <1>2, <1>4, <1>5 DEF RowsInv

\* A step that brings no answer, and loses nothing that it does not record.
LEMMA RowsKept ==
    ASSUME WireInv, WireInv', RowsInv, FeedTypes', asOf' = asOf,
           \A l \in List : Here(l) \subseteq Here(l)' /\ missed[l] \subseteq missed'[l] /\ Table(l) <= Table(l)',
           \A d : OnList(d) => OnList(d)',
           \A l \in List, d \in Nat : OnWay(l, d) => OnWay(l, d)' \/ d \in Here(l)' \cup missed'[l],
           \A l \in List : \A d \in Table(l) + 1 .. Table(l)' : OnWay(l, d)' \/ d \in missed'[l],
           \A l \in List : answer'[l] \in {Nothing, Asked, answer[l], Rows(l, Table(l))}
    PROVE  RowsInv'
  <1>1. \A l \in List : asOf[l] \in Nat /\ Table(l) \in Nat /\ Table(l)' \in Nat
    BY DEF WireInv, WireTypes, RowsInv, FeedTypes, Table
  <1>2. \A l \in List, n \in Nat : Rows(l, n)' = Rows(l, n)
    BY DEF Rows
  <1>3. AnswerInv'
    <2> SUFFICES ASSUME NEW l \in List
                 PROVE  /\ asOf'[l] <= Table(l)'
                        /\ \/ answer'[l] \in {Nothing, Asked}
                           \/ \E n \in asOf'[l] .. Table(l)' : answer'[l] = Rows(l, n)
      BY DEF AnswerInv, Rows
    <2>1. asOf[l] <= Table(l) /\ Table(l) <= Table(l)' /\ asOf'[l] = asOf[l]
      BY DEF RowsInv, AnswerInv
    <2>2. CASE answer'[l] = Rows(l, Table(l))
      BY <1>1, <2>1, <2>2
    <2>3. CASE answer'[l] = answer[l]
      <3>1. answer[l] \in {Nothing, Asked} \/ \E n \in asOf[l] .. Table(l) : answer[l] = Rows(l, n)
        BY DEF RowsInv, AnswerInv
      <3> QED  BY <1>1, <2>1, <2>3, <3>1
    <2> QED  BY <1>1, <2>1, <2>2, <2>3
  <1>4. LaterRows'
    <2> SUFFICES ASSUME NEW l \in List, NEW d \in asOf[l] + 1 .. Table(l)'
                 PROVE  d \in Here(l)' \cup missed'[l] \/ OnWay(l, d)'
      BY DEF LaterRows
    <2>1. d \in Nat /\ (d \in asOf[l] + 1 .. Table(l) \/ d \in Table(l) + 1 .. Table(l)')
      BY <1>1
    <2>2. CASE d \in Table(l) + 1 .. Table(l)'
      BY <2>2
    <2>3. CASE d \in asOf[l] + 1 .. Table(l)
      <3>1. d \in Here(l) \cup missed[l] \/ OnWay(l, d)
        BY <2>3 DEF RowsInv, LaterRows
      <3> QED  BY <2>1, <3>1
    <2> QED  BY <2>1, <2>2, <2>3
  <1>5. DecisionRows' /\ CandleRows'
    <2>1. \A d : TooOld("decisions", d, asOf["decisions"])' = TooOld("decisions", d, asOf["decisions"])
      BY DEF TooOld
    <2>2. \A t : TooOld("candles", t, asOf["candles"])' = TooOld("candles", t, asOf["candles"])
      BY DEF TooOld
    <2> QED  BY <2>1, <2>2, ListMembers DEF RowsInv, DecisionRows, CandleRows
  <1> QED  BY <1>3, <1>4, <1>5 DEF RowsInv

\* A page holds every row up to its newest but those too old for it.
LEMMA PageHolds ==
    ASSUME NEW l \in List, NEW n \in Nat, NEW d \in 1 .. n, ~TooOld(l, d, n)
    PROVE  /\ l = "candles" => d \in Candles(Rows(l, n))
           /\ l = "decisions" => d \in ToSet(Rows(l, n))
  <1> DEFINE size == IF n < PageSize[l] THEN n ELSE PageSize[l]
             rows == Rows(l, n)
  <1>1. /\ size \in Nat /\ size <= n /\ PageSize[l] \in Nat \ {0} /\ DOMAIN rows = 1 .. size
        /\ l = "candles" => \A i \in 1 .. size : Time(rows[i]) = n - size + i
        /\ l = "decisions" => \A i \in 1 .. size : rows[i] = n + 1 - i
    BY PageOfTable
  <1>2. n < d + size
    BY <1>1 DEF TooOld
  <1> HIDE DEF size, rows
  <1>3. CASE l = "candles"
    <2> DEFINE i == d - (n - size)
    <2>1. i \in 1 .. size /\ n - size + i = d
      BY <1>1, <1>2
    <2>2. Time(rows[i]) = d
      BY <1>1, <1>3, <2>1
    <2> HIDE DEF i
    <2> QED  BY <1>1, <1>3, <2>1, <2>2 DEF Candles, rows
  <1>4. CASE l = "decisions"
    <2> DEFINE i == n + 1 - d
    <2>1. i \in 1 .. size /\ n + 1 - i = d
      BY <1>1, <1>2
    <2>2. rows[i] = d
      BY <1>1, <1>4, <2>1
    <2> HIDE DEF i
    <2> QED  BY <1>1, <1>4, <2>1, <2>2 DEF ToSet, rows
  <1> QED  BY <1>3, <1>4, ListMembers

LEMMA PageEnds == ASSUME NEW l \in List, NEW n \in Nat PROVE NewestRow(l, Rows(l, n)) = n
  <1> DEFINE size == IF n < PageSize[l] THEN n ELSE PageSize[l]
             rows == Rows(l, n)
  <1>1. /\ size \in Nat /\ size <= n /\ PageSize[l] \in Nat \ {0}
        /\ rows \in Seq(Nat) /\ DOMAIN rows = 1 .. size /\ Len(rows) = size
        /\ l = "candles" => \A i \in 1 .. size : Time(rows[i]) = n - size + i
        /\ l = "decisions" => \A i \in 1 .. size : rows[i] = n + 1 - i
    BY PageOfTable
  <1>2. size = 0 => n = 0
    BY <1>1
  <1> HIDE DEF size, rows
  <1>3. CASE size = 0
    <2>1. rows = << >>
      BY <1>1, <1>3, EmptySeq
    <2> QED  BY <1>2, <1>3, <2>1 DEF NewestRow, rows
  <1>4. CASE size # 0
    <2>1. rows # << >> /\ 1 \in 1 .. size /\ size \in 1 .. size
      BY <1>1, <1>4, EmptySeq
    <2>2. Last(rows) = rows[size] /\ Head(rows) = rows[1]
      BY <1>1, <2>1 DEF Last
    <2>3. CASE l = "candles"
      <3>1. Time(rows[size]) = n
        BY <1>1, <2>1, <2>3
      <3> QED  BY <2>1, <2>2, <2>3, <3>1 DEF NewestRow, rows
    <2>4. CASE l = "decisions"
      <3>1. rows[1] = n
        BY <1>1, <2>1, <2>4
      <3> QED  BY <2>1, <2>2, <2>4, <3>1 DEF NewestRow, rows
    <2> QED  BY <2>3, <2>4, ListMembers
  <1> QED  BY <1>3, <1>4

\* An answer replaces a list: what it does not hold is too old for it, or newer
\* than it and lost.
LEMMA ArrivalKeepsRows ==
    ASSUME WireInv, ChartInv, RowsInv, NEW l \in List, AnswerArrives(l)
    PROVE  RowsInv'
  <1>1. /\ answer[l] \notin {Nothing, Asked} /\ answer' = [answer EXCEPT ![l] = Nothing]
        /\ UNCHANGED <<pending, page, peer, channel, sending, missed, tables>>
        /\ asOf' = [asOf EXCEPT ![l] = NewestRow(l, answer[l])]
    BY DEF AnswerArrives, Arrives, hubVars, ends
  <1>2. PICK n \in asOf[l] .. Table(l) : answer[l] = Rows(l, n)
    BY <1>1 DEF RowsInv, AnswerInv
  <1>3. \A k \in List : asOf[k] \in Nat /\ Table(k) \in Nat /\ Table(k)' = Table(k) /\ asOf[k] <= Table(k)
    BY <1>1 DEF WireInv, WireTypes, RowsInv, FeedTypes, AnswerInv, Table, tables
  <1>4. n \in Nat /\ asOf[l] <= n /\ n <= Table(l) /\ NewestRow(l, answer[l]) = n
    BY <1>2, <1>3, PageEnds
  <1>5. /\ asOf' \in [List -> Nat] /\ asOf'[l] = n
        /\ \A k \in List : asOf[k] <= asOf'[k] /\ asOf'[k] <= Table(k)
        /\ \A k \in List \ {l} : asOf'[k] = asOf[k]
    BY <1>1, <1>3, <1>4 DEF RowsInv, FeedTypes
  <1>6. Rows(l, n) \in Seq(Nat) /\ Len(Rows(l, n)) <= PageSize[l]
    BY <1>4, PageOfTable
  <1>7. /\ shown' \in Seq(Nat) /\ Len(shown') <= ListCap /\ dropped' \in [List -> SUBSET Nat]
        /\ \A k \in List : Here(k) \subseteq Here(k)'
        /\ l = "candles" => series' = Rows(l, n) /\ \A d : OnList(d) => OnList(d)'
        /\ l = "decisions" => shown' = Rows(l, n)
    <2>1. CASE l = "candles"
      <3>1. series' = Rows(l, n) /\ shown' = shown /\ Lose(l, Candles(series), Candles(series'))
        BY <1>1, <1>2, <2>1 DEF AnswerArrives, Arrives
      <3>2. Candles(series) \in SUBSET Nat
        BY CandleTimes DEF ChartInv
      <3>3. /\ dropped' \in [List -> SUBSET Nat]
            /\ \A k \in List \ {l} : dropped'[k] = dropped[k]
            /\ dropped[l] \cup Candles(series) \subseteq dropped'[l] \cup Candles(series')
        BY <3>1, <3>2, LosesOnly DEF RowsInv
      <3>4. dropped'["decisions"] = dropped["decisions"]
        BY <2>1, <3>3, ListMembers
      <3>5. \A k \in List : Here(k) \subseteq Here(k)'
        BY <1>1, <2>1, <3>1, <3>3, <3>4, ListMembers DEF Here, Waits
      <3>6. \A d : OnList(d) => OnList(d)'
        BY <3>1, <3>4 DEF OnList
      <3> QED  BY <2>1, <3>1, <3>3, <3>5, <3>6 DEF RowsInv, FeedTypes
    <2>2. CASE l = "decisions"
      <3>1. shown' = Rows(l, n) /\ series' = series /\ Lose(l, ToSet(shown), ToSet(shown'))
        BY <1>1, <1>2, <2>2 DEF AnswerArrives, Arrives
      <3>2. ToSet(shown) \in SUBSET Nat
        BY ShownNumbers DEF RowsInv, FeedTypes
      <3>3. /\ dropped' \in [List -> SUBSET Nat]
            /\ \A k \in List \ {l} : dropped'[k] = dropped[k]
            /\ dropped[l] \cup ToSet(shown) \subseteq dropped'[l] \cup ToSet(shown')
        BY <3>1, <3>2, LosesOnly DEF RowsInv
      <3>4. dropped'["candles"] = dropped["candles"]
        BY <2>2, <3>3, ListMembers
      <3>5. \A k \in List : Here(k) \subseteq Here(k)'
        BY <1>1, <2>2, <3>1, <3>3, <3>4, ListMembers DEF Here, Waits
      <3>6. Len(shown') <= ListCap
        <4>1. Len(Rows(l, n)) \in Nat /\ PageSize["decisions"] \in Nat /\ ListCap \in Nat
          BY <1>6, LenProperties, ListMembers, StoreAssumption
        <4> QED  BY <1>6, <2>2, <3>1, <4>1, StoreAssumption
      <3> QED  BY <1>6, <2>2, <3>1, <3>3, <3>5, <3>6
    <2> QED  BY <2>1, <2>2, ListMembers
  <1>8. FeedTypes'
    BY <1>1, <1>5, <1>7 DEF RowsInv, FeedTypes
  <1>9. AnswerInv'
    <2> SUFFICES ASSUME NEW k \in List
                 PROVE  /\ asOf'[k] <= Table(k)'
                        /\ \/ answer'[k] \in {Nothing, Asked}
                           \/ \E j \in asOf'[k] .. Table(k)' : answer'[k] = Rows(k, j)
      BY DEF AnswerInv, Rows
    <2>1. CASE k = l
      <3>1. answer'[k] = Nothing
        BY <1>1, <2>1 DEF ChartInv
      <3> QED  BY <1>3, <1>5, <3>1
    <2>2. CASE k # l
      <3>1. answer'[k] = answer[k] /\ asOf'[k] = asOf[k] /\ Table(k)' = Table(k)
        BY <1>1, <1>3, <1>5, <2>2 DEF ChartInv
      <3> QED  BY <3>1 DEF RowsInv, AnswerInv
    <2> QED  BY <2>1, <2>2
  <1>10. LaterRows'
    <2> SUFFICES ASSUME NEW k \in List, NEW d \in asOf'[k] + 1 .. Table(k)
                 PROVE  d \in Here(k)' \cup missed'[k] \/ OnWay(k, d)'
      BY <1>3 DEF LaterRows
    <2>1. d \in asOf[k] + 1 .. Table(k)
      BY <1>3, <1>5
    <2>2. d \in Here(k) \cup missed[k] \/ OnWay(k, d)
      BY <2>1 DEF RowsInv, LaterRows
    <2>3. OnWay(k, d) => OnWay(k, d)'
      BY <1>1, StillOnWay DEF Live
    <2> QED  BY <1>1, <1>7, <2>2, <2>3
  <1>11. DecisionRows'
    <2> SUFFICES ASSUME NEW d \in 1 .. asOf'["decisions"], ~TooOld("decisions", d, asOf'["decisions"])
                 PROVE  OnList(d)'
      BY DEF DecisionRows, TooOld
    <2>1. CASE l = "decisions"
      <3>1. d \in ToSet(Rows(l, n))
        BY <1>4, <1>5, <2>1, PageHolds
      <3> QED  BY <1>7, <2>1, <3>1 DEF OnList
    <2>2. CASE l = "candles"
      <3>1. asOf'["decisions"] = asOf["decisions"]
        BY <1>5, <2>2, ListMembers
      <3>2. OnList(d)
        BY <3>1 DEF RowsInv, DecisionRows
      <3> QED  BY <1>7, <2>2, <3>2
    <2> QED  BY <2>1, <2>2, ListMembers
  <1>12. CandleRows'
    <2> SUFFICES ASSUME NEW t \in 1 .. asOf'["candles"], ~TooOld("candles", t, asOf'["candles"])
                 PROVE  t \in Here("candles")'
      BY DEF CandleRows, TooOld
    <2>1. CASE l = "candles"
      <3>1. t \in Candles(Rows(l, n))
        BY <1>4, <1>5, <2>1, PageHolds
      <3>2. t \in Candles(series')
        BY <1>7, <2>1, <3>1
      <3> QED  BY <3>2 DEF Here, Candles
    <2>2. CASE l = "decisions"
      <3>1. asOf'["candles"] = asOf["candles"]
        BY <1>5, <2>2, ListMembers
      <3>2. t \in Here("candles")
        BY <3>1 DEF RowsInv, CandleRows
      <3> QED  BY <1>7, <3>2, ListMembers
    <2> QED  BY <2>1, <2>2, ListMembers
  <1> QED  BY <1>8, <1>9, <1>10, <1>11, <1>12 DEF RowsInv

\* A publisher stores at most the row that it broadcasts.
LEMMA PublishKeepsRows ==
    ASSUME WireInv, WireInv', RowsInv, NEW p \in {"aggregator", "loop"}, NEW m \in Message, Publish(p, m),
           \A l \in List : Table(l)' = Table(l) \/ (Table(l)' = Table(l) + 1 /\ Bears(m, l, Table(l) + 1))
    PROVE  RowsInv'
  <1>1. /\ FeedTypes'
        /\ \A l \in List : missed[l] \subseteq missed'[l]
        /\ \A l \in List, d \in Nat : OnWay(l, d) => OnWay(l, d)'
        /\ \A l \in List, d \in Nat : Bears(m, l, d) => OnWay(l, d)' \/ d \in missed'[l]
    BY PublishTells DEF RowsInv
  <1>2. UNCHANGED <<series, pending, shown, dropped, answer, asOf>>
    BY DEF Publish, storeVars
  <1>3. /\ \A l \in List : Here(l)' = Here(l)
        /\ \A d : OnList(d)' = OnList(d)
    BY <1>2 DEF Here, Waits, Candles, OnList
  <1>4. \A l \in List : Table(l) \in Nat
    BY DEF WireInv, WireTypes, Table
  <1>5. ASSUME NEW l \in List, NEW d \in Table(l) + 1 .. Table(l)'
        PROVE  OnWay(l, d)' \/ d \in missed'[l]
    <2>1. d \in Nat /\ d = Table(l) + 1 /\ Bears(m, l, d)
      BY <1>4
    <2> QED  BY <1>1, <2>1
  <1>6. \A l \in List : Table(l) <= Table(l)'
    BY <1>4
  <1> QED  BY <1>1, <1>2, <1>3, <1>5, <1>6, RowsKept

\* A step that moves messages and sockets only.
LEMMA WireKeepsRows ==
    ASSUME WireInv, WireInv', RowsInv, FeedTypes', UNCHANGED <<storeVars, tables, asOf>>,
           \A l \in List : missed[l] \subseteq missed'[l],
           \A l \in List, d \in Nat : OnWay(l, d) => OnWay(l, d)' \/ d \in missed'[l]
    PROVE  RowsInv'
  <1>1. UNCHANGED <<series, pending, shown, dropped, answer>>
    BY DEF storeVars
  <1>2. /\ \A l \in List : Here(l)' = Here(l)
        /\ \A d : OnList(d)' = OnList(d)
    BY <1>1 DEF Here, Waits, Candles, OnList
  <1>3. \A l \in List : Table(l) \in Nat /\ Table(l)' = Table(l)
    BY DEF WireInv, WireTypes, Table, tables
  <1>4. \A l \in List : \A d \in Table(l) + 1 .. Table(l)' : FALSE
    BY <1>3
  <1>5. \A l \in List : Table(l) <= Table(l)'
    BY <1>3
  <1> QED  BY <1>1, <1>2, <1>4, <1>5, RowsKept

\* A step of the page alone.
LEMMA StoreKeepsRows ==
    ASSUME WireInv, WireInv', RowsInv, dropped' \in [List -> SUBSET Nat],
           shown' \in Seq(Nat), Len(shown') <= ListCap,
           UNCHANGED <<peer, page, sending, tables, missed, asOf>>,
           \A l \in List : Here(l) \subseteq Here(l)',
           \A d : OnList(d) => OnList(d)',
           \A l \in List, d \in Nat : OnWay(l, d) => OnWay(l, d)' \/ d \in Here(l)',
           \A l \in List : answer'[l] \in {Nothing, Asked, answer[l], Rows(l, Table(l))}
    PROVE  RowsInv'
  <1>1. FeedTypes'
    BY DEF RowsInv, FeedTypes
  <1>2. \A l \in List : Table(l) \in Nat /\ Table(l)' = Table(l)
    BY DEF WireInv, WireTypes, Table, tables
  <1>3. \A l \in List : \A d \in Table(l) + 1 .. Table(l)' : FALSE
    BY <1>2
  <1>4. \A l \in List : Table(l) <= Table(l)'
    BY <1>2
  <1>5. \A l \in List : missed[l] \subseteq missed'[l]
    OBVIOUS
  <1> QED  BY <1>1, <1>3, <1>4, <1>5, RowsKept

LEMMA NextKeepsRows == WireInv /\ WireInv' /\ ChartInv /\ RowsInv /\ [Next]_vars => RowsInv'
  <1> SUFFICES ASSUME WireInv, WireInv', ChartInv, RowsInv, [Next]_vars PROVE RowsInv'
    OBVIOUS
  <1>0. FeedTypes /\ WireTypes /\ closed \in Nat /\ decided \in Nat
    BY DEF RowsInv, WireInv, WireTypes
  <1>1. CASE OpenCandle
    <2> DEFINE m == [kind |-> "candle", n |-> 2 * (closed + 1)]
    <2>1. Publish("aggregator", m) /\ m \in Message /\ UNCHANGED <<closed, decided>>
      BY <1>0, <1>1 DEF OpenCandle, Message
    <2>2. \A l \in List : Table(l)' = Table(l)
      BY <2>1 DEF Table
    <2> HIDE DEF m
    <2> QED  BY <2>1, <2>2, PublishKeepsRows
  <1>2. CASE CloseCandle
    <2> DEFINE m == [kind |-> "candle", n |-> 2 * (closed + 1) + 1]
    <2>1. Publish("aggregator", m) /\ closed' = closed + 1 /\ decided' = decided
      BY <1>2 DEF CloseCandle
    <2>2. m \in Message /\ Bears(m, "candles", closed + 1)
      BY <1>0, TimeOfClosed DEF Message, Bears, ListOf, RowOf
    <2> HIDE DEF m
    <2>3. ASSUME NEW l \in List
          PROVE  Table(l)' = Table(l) \/ (Table(l)' = Table(l) + 1 /\ Bears(m, l, Table(l) + 1))
      BY <2>1, <2>2, ListMembers DEF Table
    <2> QED  BY <2>1, <2>2, <2>3, PublishKeepsRows
  <1>late. CASE LateCandle
    <2>1. PICK n \in 2 .. closed + forming + 1 : Publish("aggregator", [kind |-> "late", n |-> n])
      BY <1>late DEF LateCandle
    <2> DEFINE m == [kind |-> "late", n |-> n]
    <2>2. Publish("aggregator", m) /\ m \in Message /\ UNCHANGED <<closed, decided>>
      BY <1>0, <1>late, <2>1 DEF LateCandle, Message, WireTypes, tables
    <2>3. \A l \in List : Table(l)' = Table(l)
      BY <2>2 DEF Table
    <2> HIDE DEF m
    <2> QED  BY <2>2, <2>3, PublishKeepsRows
  <1>3. CASE Decide
    <2> DEFINE m == [kind |-> "decision", n |-> decided + 1]
    <2>1. Publish("loop", m) /\ decided' = decided + 1 /\ closed' = closed
      BY <1>3 DEF Decide
    <2>2. m \in Message /\ Bears(m, "decisions", decided + 1)
      BY <1>0 DEF Message, Bears, ListOf, RowOf
    <2> HIDE DEF m
    <2>3. ASSUME NEW l \in List
          PROVE  Table(l)' = Table(l) \/ (Table(l)' = Table(l) + 1 /\ Bears(m, l, Table(l) + 1))
      BY <2>1, <2>2, ListMembers DEF Table
    <2> QED  BY <2>1, <2>2, <2>3, PublishKeepsRows
  <1>4. CASE PageOpens
    <2>1. PICK c \in PageSocket : Open(c) /\ page' = c
      BY <1>4 DEF PageOpens
    <2>2. c \in Socket /\ UNCHANGED <<storeVars, tables, asOf, missed>> /\ peer' = [peer EXCEPT ![c] = "up"]
      BY <1>4, <2>1, FeedAssumption DEF PageOpens, Open
    <2>3. FeedTypes'
      BY <1>0, <2>1, <2>2 DEF FeedTypes, storeVars
    <2>4. ~Live
      BY <1>4 DEF PageOpens, Live
    <2> QED  BY <2>2, <2>3, <2>4, WireKeepsRows DEF OnWay
  <1>5. CASE \E c \in Socket : OtherOpens(c)
    <2>1. PICK c \in Socket : OtherOpens(c)
      BY <1>5
    <2>2. /\ UNCHANGED <<storeVars, tables, asOf, missed, page, channel, sending>>
          /\ peer' = [peer EXCEPT ![c] = "up"]
      BY <2>1 DEF OtherOpens, Open
    <2>3. FeedTypes'
      BY <1>0, <2>2 DEF FeedTypes, storeVars
    <2>4. Live => Live'
      BY <1>0, <2>2 DEF Live, FeedTypes
    <2>5. \A l \in List, d \in Nat : OnWay(l, d) => OnWay(l, d)'
      BY <2>2, <2>4, StillOnWay
    <2> QED  BY <2>2, <2>3, <2>5, WireKeepsRows
  <1>6. CASE \E c \in Socket : SocketVanishes(c)
    <2>1. PICK c \in Socket : SocketVanishes(c)
      BY <1>6
    <2>2. UNCHANGED <<storeVars, tables, asOf>>
      BY <2>1 DEF SocketVanishes
    <2> QED  BY <1>0, <2>1, <2>2, VanishTells, WireKeepsRows
  <1>7. CASE \E c \in Socket : Read(c)
    <2>1. PICK c \in Socket : Read(c)
      BY <1>7
    <2> DEFINE m == Head(channel[c])
    <2>2. /\ UNCHANGED <<peer, page, sending, tables, missed, asOf>>
          /\ IF c # page \/ m.kind = "ticker" THEN UNCHANGED storeVars
             ELSE IF m.kind = "decision" THEN PrependDecision(m.n) ELSE PushCandle(m.n)
      BY <2>1 DEF Read, ends
    <2>3. m \in Message /\ m.n \in Nat
      <3>1. channel[c] \in Seq(Message) /\ channel[c] # << >>
        BY <1>0, <2>1 DEF WireTypes, Read
      <3>2. m \in Message
        BY <3>1, HeadTailProperties
      <3> QED  BY <3>2 DEF Message
    <2>4. \A l \in List, d \in Nat : OnWay(l, d) => OnWay(l, d)' \/ (c = page /\ Bears(m, l, d))
      BY <1>0, <2>1, ReadTells
    <2> HIDE DEF m
    <2>5. CASE UNCHANGED storeVars /\ (c # page \/ m.kind = "ticker")
      <3>1. FeedTypes'
        BY <1>0, <2>2, <2>5 DEF FeedTypes, storeVars
      <3>2. \A l \in List, d \in Nat : OnWay(l, d) => OnWay(l, d)'
        BY <2>4, <2>5 DEF Bears
      <3> QED  BY <2>2, <2>5, <3>1, <3>2, WireKeepsRows
    <2>6. CASE PushCandle(m.n) /\ m.kind \in {"candle", "late"}
      <3>1. /\ dropped' \in [List -> SUBSET Nat] /\ UNCHANGED shown
            /\ \A l \in List : Here(l) \subseteq Here(l)'
            /\ Time(m.n) \in Here("candles")'
            /\ \A d : OnList(d) => OnList(d)'
        BY <1>0, <2>3, <2>6, PushHolds
      <3>2. \A l \in List, d \in Nat : Bears(m, l, d) => d \in Here(l)'
        BY <2>6, <3>1 DEF Bears, ListOf, RowOf
      <3>3. answer' = answer
        BY <2>6 DEF PushCandle
      <3>4. shown' \in Seq(Nat) /\ Len(shown') <= ListCap
        BY <1>0, <3>1 DEF FeedTypes
      <3> QED  BY <2>2, <2>4, <3>1, <3>2, <3>3, <3>4, StoreKeepsRows
    <2>7. CASE PrependDecision(m.n) /\ m.kind = "decision"
      <3>1. /\ shown' \in Seq(Nat) /\ Len(shown') <= ListCap /\ dropped' \in [List -> SUBSET Nat]
            /\ \A l \in List : Here(l) \subseteq Here(l)'
            /\ m.n \in Here("decisions")'
            /\ \A d : OnList(d) => OnList(d)'
        BY <1>0, <2>3, <2>7, PrependHolds
      <3>2. \A l \in List, d \in Nat : Bears(m, l, d) => d \in Here(l)'
        BY <2>7, <3>1 DEF Bears, ListOf, RowOf
      <3>3. answer' = answer
        BY <2>7 DEF PrependDecision
      <3> QED  BY <2>2, <2>4, <3>1, <3>2, <3>3, StoreKeepsRows
    <2>8. m.kind \in {"candle", "late", "decision", "ticker"}
      BY <2>3 DEF Message
    <2> QED  BY <2>2, <2>5, <2>6, <2>7, <2>8
  <1>8. CASE ServerAnswers
    <2>1. PICK k \in List : Answers(k, Rows(k, Table(k)))
      BY <1>8 DEF ServerAnswers
    <2>2. /\ answer' = [answer EXCEPT ![k] = Rows(k, Table(k))]
          /\ UNCHANGED <<series, pending, shown, dropped, peer, page, channel, sending, tables, missed, asOf>>
      BY <1>8, <2>1 DEF ServerAnswers, Answers, hubVars, ends
    <2>3. /\ \A l \in List : Here(l)' = Here(l)
          /\ \A d : OnList(d)' = OnList(d)
      BY <2>2 DEF Here, Waits, Candles, OnList
    <2>4. \A l \in List, d \in Nat : OnWay(l, d)' = OnWay(l, d)
      BY <2>2 DEF OnWay, Live, Queued, BeingSent
    <2>5. \A l \in List : answer'[l] \in {Nothing, Asked, answer[l], Rows(l, Table(l))}
      BY <2>2 DEF ChartInv
    <2>6. dropped' \in [List -> SUBSET Nat] /\ shown' \in Seq(Nat) /\ Len(shown') <= ListCap
      BY <1>0, <2>2 DEF FeedTypes
    <2> QED  BY <2>2, <2>3, <2>4, <2>5, <2>6, StoreKeepsRows
  <1>9. CASE \E l \in List : AnswerArrives(l)
    BY <1>9, ArrivalKeepsRows
  <1>10. CASE PageStep
    <2>1. UNCHANGED <<peer, page, channel, sending, tables, missed, asOf>>
      BY <1>10 DEF PageStep, hubVars, ends
    <2>2. \A l \in List, d \in Nat : OnWay(l, d)' = OnWay(l, d)
      BY <2>1 DEF OnWay, Live, Queued, BeingSent
    <2>3. /\ dropped' \in [List -> SUBSET Nat] /\ UNCHANGED shown
          /\ \A l \in List : Here(l) \subseteq Here(l)'
          /\ \A d : OnList(d) => OnList(d)'
          /\ \A l \in List : answer'[l] \in {Nothing, Asked, answer[l]}
      <3>1. CASE Frame
        <4>1. answer' = answer
          BY <3>1 DEF Frame
        <4> QED  BY <1>0, <3>1, <4>1, FrameHolds
      <3>2. CASE \E k \in List : Fetch(k)
        <4>1. PICK k \in List : Fetch(k)
          BY <3>2
        <4>2. PICK a \in {Asked, answer[k]} : answer' = [answer EXCEPT ![k] = a]
          BY <4>1 DEF Fetch
        <4>3. \A l \in List : answer'[l] \in {Nothing, Asked, answer[l]}
          BY <4>2 DEF ChartInv
        <4> QED  BY <1>0, <4>1, <4>3, FetchHolds
      <3>3. CASE \E k \in List : FetchFails(k)
        <4>1. PICK k \in List : FetchFails(k)
          BY <3>3
        <4>2. UNCHANGED <<series, pending, shown, dropped>> /\ answer' = [answer EXCEPT ![k] = Nothing]
          BY <4>1 DEF FetchFails
        <4>3. \A l \in List : answer'[l] \in {Nothing, Asked, answer[l]}
          BY <4>2 DEF ChartInv
        <4>4. /\ \A l \in List : Here(l)' = Here(l)
              /\ \A d : OnList(d)' = OnList(d)
          BY <4>2 DEF Here, Waits, Candles, OnList
        <4> QED  BY <1>0, <4>2, <4>3, <4>4 DEF FeedTypes
      <3> QED  BY <1>10, <3>1, <3>2, <3>3 DEF PageStep
    <2>4. shown' \in Seq(Nat) /\ Len(shown') <= ListCap
      BY <1>0, <2>3 DEF FeedTypes
    <2> QED  BY <2>1, <2>2, <2>3, <2>4, StoreKeepsRows
  <1>11. CASE \E p \in Publisher, c \in Socket : Hub(SendTo(p, c))
    <2>1. PICK p \in Publisher, c \in Socket : Hub(SendTo(p, c))
      BY <1>11
    <2>2. SendTo(p, c) /\ UNCHANGED <<storeVars, tables, asOf, missed, page, peer>>
      BY <2>1 DEF Hub, SendTo, ends
    <2>3. \A l \in List, d \in Nat : OnWay(l, d) => OnWay(l, d)'
      BY <1>0, <2>2, SendTells
    <2>4. FeedTypes'
      BY <1>0, <2>2 DEF FeedTypes, storeVars
    <2> QED  BY <2>2, <2>3, <2>4, WireKeepsRows
  <1>12. CASE \/ \E p \in TickTask : Hub(PublishTicker(p))
              \/ \E c \in Socket : Hub(Register(c)) \/ Hub(Leave(c))
              \/ Hub(clock < bound.seconds /\ ClockTicks)
    <2>1. /\ UNCHANGED <<storeVars, tables, asOf, missed, page, peer, channel>>
          /\ \A q \in Publisher : sending[q] # Idle => sending'[q] = sending[q]
      <3>1. CASE \E p \in TickTask : Hub(PublishTicker(p))
        <4>1. PICK p \in TickTask : Hub(PublishTicker(p))
          BY <3>1
        <4>2. PublishTicker(p) /\ UNCHANGED <<storeVars, tables, asOf, missed, page, peer, channel>>
          BY <4>1 DEF Hub, PublishTicker, ends
        <4>3. sending[p] = Idle /\ (sending' = sending \/ \E b : sending' = [sending EXCEPT ![p] = b])
          BY <4>2 DEF PublishTicker, Begin
        <4> QED  BY <1>0, <4>2, <4>3 DEF WireTypes
      <3>2. CASE \E c \in Socket : Hub(Register(c)) \/ Hub(Leave(c))
        BY <3>2 DEF Hub, Register, Leave
      <3>3. CASE Hub(clock < bound.seconds /\ ClockTicks)
        BY <3>3 DEF Hub, ClockTicks, ends
      <3> QED  BY <1>12, <3>1, <3>2, <3>3
    <2>2. \A l \in List, d \in Nat : OnWay(l, d) => OnWay(l, d)'
      BY <2>1, StillOnWay DEF Live
    <2>3. FeedTypes'
      BY <1>0, <2>1 DEF FeedTypes, storeVars
    <2> QED  BY <2>1, <2>2, <2>3, WireKeepsRows
  <1>13. CASE UNCHANGED vars
    <2>1. UNCHANGED <<storeVars, tables, asOf, missed, page, peer, channel, sending>>
      BY <1>13 DEF vars, hubVars, ends
    <2>2. \A l \in List, d \in Nat : OnWay(l, d) => OnWay(l, d)'
      BY <2>1, StillOnWay DEF Live
    <2>3. FeedTypes'
      BY <1>0, <2>1 DEF FeedTypes, storeVars
    <2> QED  BY <2>1, <2>2, <2>3, WireKeepsRows
  <1>14. Hub(HubStep) => \/ \E c \in Socket : Hub(Register(c)) \/ Hub(Leave(c))
                         \/ \E p \in Publisher, c \in Socket : Hub(SendTo(p, c))
                         \/ \E p \in TickTask : Hub(PublishTicker(p))
    BY DEF Hub, HubStep
  <1> QED
    BY <1>1, <1>2, <1>late, <1>3, <1>4, <1>5, <1>6, <1>7, <1>8, <1>9, <1>10, <1>11, <1>12, <1>13, <1>14
    DEF Next

\* Of all that is stored, the page lacks only what is on its way, what was
\* broadcast to no registered socket of its own or lost with one, what an
\* answer or a fetch replaced, and what is too old for a page or a full list:
\* for tables, lists, pages, channels and sockets of any number.
THEOREM PageAccountsForRows == Spec => []RowsAccounted
  <1>1. WireInv /\ RowsInv => RowsAccounted
    <2> SUFFICES ASSUME WireInv, RowsInv PROVE RowsAccounted
      OBVIOUS
    <2>1. \A l \in List : \A d \in asOf[l] + 1 .. Table(l) : d \in Here(l) \cup Coming(l) \cup missed[l]
      BY OnWayComes DEF RowsInv, LaterRows
    <2>2. DecisionsAccounted
      <3>1. \A d \in asOf["decisions"] + 1 .. decided :
                d \in Here("decisions") \cup Coming("decisions") \cup missed["decisions"]
        BY <2>1, ListMembers DEF Table
      <3> QED  BY <3>1 DEF RowsInv, DecisionRows, OnList, Here, DecisionsAccounted
    <2>3. CandlesAccounted
      <3>1. \A t \in asOf["candles"] + 1 .. closed :
                t \in Here("candles") \cup Coming("candles") \cup missed["candles"]
        BY <2>1, ListMembers DEF Table
      <3>2. Here("candles") = Candles(series) \cup Waits \cup dropped["candles"]
        BY DEF Here
      <3> QED  BY <3>1, <3>2 DEF RowsInv, CandleRows, CandlesAccounted, Waits
    <2> QED  BY <2>2, <2>3 DEF RowsAccounted
  <1> QED
    BY InitWire, NextKeepsWire, InitChart, NextKeepsChart, InitRows, NextKeepsRows, <1>1, PTL DEF Spec
=============================================================================
