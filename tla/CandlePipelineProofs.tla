------------------------ MODULE CandlePipelineProofs ------------------------
(***************************************************************************)
(* Proofs about CandlePipeline, for any number of candles and connections, *)
(* any capacities of the two queues and any calls that may fail.  The      *)
(* inductive invariant IInv says that closes stand in the order of their   *)
(* arrival along the whole road, from the stream queue to the decisions,   *)
(* that each connection delivers ever later candles, that each close that  *)
(* arrived is on the road or was lost once, that a close past the          *)
(* aggregator whose candle has no row is one whose upsert failed, and that *)
(* those are paid for by a fault, before and after the loop gives them up. *)
(***************************************************************************)
EXTENDS CandlePipeline, FiniteSetTheorems, WellFoundedInduction, TLAPS

\* What is in hand at each place of the two tasks.
PlaceInv ==
    /\ loop \in {"get", "exit"} <=> hand = None
    /\ agg \in {"get", "exit"} <=> aggMsg = None
    /\ agg = "persist" => aggMsg # OpenKline

\* Every member of S comes before every member of T.
Before(S, T) == \A s \in S, t \in T : s < t

\* The five places of the road one before the other.
Apart(D, I, W, H, S) ==
    /\ Before(D, I) /\ Before(D, W) /\ Before(D, H) /\ Before(D, S)
    /\ Before(I, W) /\ Before(I, H) /\ Before(I, S)
    /\ Before(W, H) /\ Before(W, S) /\ Before(H, S)

\* The order of the five places, by pairs.
RoadInv == Apart(Done, InHand, Waiting, Held, Streamed)

\* Closes stand in order within the queues and the list of decisions.
QueuesInOrder ==
    /\ \A i, j \in DOMAIN decided : i < j => decided[i] < decided[j]
    /\ \A i, j \in DOMAIN closedQueue : i < j => closedQueue[i] < closedQueue[j]
    /\ \A i, j \in DOMAIN candleQueue :
          i < j /\ candleQueue[i] # OpenKline /\ candleQueue[j] # OpenKline =>
              candleQueue[i] < candleQueue[j]

\* The number of the next close to arrive.
Fresh == Len(arrivals) + 1

\* Only closes that arrived are on the road.
ArrivedInv == \A n \in OnRoad : n < Fresh

\* A connection is past what it delivered, and it delivers in order.
DeliveryInv ==
    /\ \A n \in DOMAIN arrivals :
          /\ arrivals[n].by \in DOMAIN passed
          /\ arrivals[n].t <= passed[arrivals[n].by]
    /\ \A m, n \in DOMAIN arrivals :
          m < n /\ arrivals[m].by = arrivals[n].by => arrivals[m].t < arrivals[n].t

\* A close is lost once, and is then off the road; one that arrived is on the
\* road or lost.
LossInv ==
    /\ \A x, y \in lost : x.n = y.n => x = y
    /\ \A x \in lost : x.n < Fresh /\ x.n \notin OnRoad
    /\ \A n \in 1 .. Fresh - 1 : n \in OnRoad \/ \E x \in lost : x.n = n

\* The upsert of a later arrival of the same candle, after the first one's failed.
SavedLate(m) ==
    m \in unsaved /\ \E n \in DOMAIN arrivals : m < n /\ CandleOf(n) = CandleOf(m)

\* Past the aggregator, a candle has a row or its upsert failed.
RowInv == \A n \in InHand \cup Waiting : CandleOf(n) \in candles \/ n \in unsaved

\* The window fetched for the close in hand reaches its candle, if that has a row.
WindowInv ==
    loop = "indicator" =>
        /\ window \in Candle
        /\ CandleOf(hand) \in candles => CandleOf(hand) <= window \/ SavedLate(hand)

\* Closes given up because of an error, and those that will be: past the
\* aggregator without a row in the table.
Rowless == {n \in InHand \cup Waiting : CandleOf(n) \notin candles}
Unpaid  == {x.n : x \in {y \in lost : y.where = "error"}} \cup Rowless
CostInv == Cardinality(Unpaid) <= faults

IInv == /\ TypeOK /\ PlaceInv /\ QueuesInOrder /\ RoadInv /\ ArrivedInv /\ LossInv
        /\ DeliveryInv /\ RowInv /\ WindowInv /\ IndicatorCoversCandle /\ CostInv

-----------------------------------------------------------------------------
(* Sets of numbers, and sequences of them.                                 *)

LEMMA ApartIsRoad ==
    ASSUME NEW D, NEW I, NEW W, NEW H, NEW S
    PROVE  Apart(D, I, W, H, S) <=>
             (\A m, n \in DOMAIN <<D, I, W, H, S>> : m < n =>
                 Before(<<D, I, W, H, S>>[m], <<D, I, W, H, S>>[n]))
<1> DEFINE r == <<D, I, W, H, S>>
<1>1. /\ DOMAIN r = 1 .. 5
      /\ r[1] = D /\ r[2] = I /\ r[3] = W /\ r[4] = H /\ r[5] = S
  OBVIOUS
<1>2. ASSUME Apart(D, I, W, H, S), NEW m \in 1 .. 5, NEW n \in 1 .. 5, m < n
      PROVE  Before(r[m], r[n])
  <2>1. m \in {1, 2, 3, 4} /\ n \in {2, 3, 4, 5} /\ m < n
    BY <1>2
  <2> HIDE DEF r
  <2> QED
    BY <1>1, <1>2, <2>1 DEF Apart
<1>3. ASSUME \A m, n \in 1 .. 5 : m < n => Before(r[m], r[n])
      PROVE  Apart(D, I, W, H, S)
  <2> HIDE DEF r
  <2> QED
    BY <1>1, <1>3 DEF Apart
<1> HIDE DEF r
<1>4. Apart(D, I, W, H, S) <=> \A m, n \in DOMAIN r : m < n => Before(r[m], r[n])
  BY <1>1, <1>2, <1>3
<1> QED
  BY <1>4 DEF r

\* The members of a sequence, its head and its tail.
LEMMA SeqParts ==
    ASSUME NEW T, NEW s \in Seq(T), s # << >>
    PROVE  /\ Head(s) = s[1] /\ Head(s) \in T /\ 1 \in DOMAIN s
           /\ Tail(s) \in Seq(T) /\ Len(Tail(s)) = Len(s) - 1
           /\ \A i \in DOMAIN Tail(s) : i + 1 \in DOMAIN s /\ Tail(s)[i] = s[i + 1]
           /\ \A i \in DOMAIN s \ {1} : i - 1 \in DOMAIN Tail(s) /\ s[i] = Tail(s)[i - 1]
OBVIOUS

LEMMA SeqElement ==
    ASSUME NEW T, NEW s \in Seq(T), NEW i \in DOMAIN s
    PROVE  s[i] \in T
OBVIOUS

LEMMA SeqAppend ==
    ASSUME NEW T, NEW s \in Seq(T), NEW x \in T
    PROVE  /\ Append(s, x) \in Seq(T) /\ Len(Append(s, x)) = Len(s) + 1
           /\ DOMAIN Append(s, x) = DOMAIN s \cup {Len(s) + 1}
           /\ Append(s, x)[Len(s) + 1] = x
           /\ \A i \in DOMAIN s : Append(s, x)[i] = s[i] /\ i # Len(s) + 1 /\ i < Len(s) + 1
OBVIOUS

\* A non-empty set of candles has a maximum.
LEMMA MaxOfCandles ==
    ASSUME NEW S \in SUBSET (0 .. LastCandle), S # {}
    PROVE  Max(S) \in S /\ \A y \in S : Max(S) >= y
<1> DEFINE T == {LastCandle - x : x \in S}
           R == {ss \in Nat \X Nat : ss[1] < ss[2]}
<1>1. LastCandle \in Nat /\ S \subseteq Int
  BY PipelineAssumption DEF Candle
<1>2. T \subseteq Nat /\ T # {}
  <2>1. ASSUME NEW x \in S
        PROVE  LastCandle - x \in Nat
    <3>1. x \in Int /\ x <= LastCandle
      OBVIOUS
    <3> QED
      BY <1>1, <3>1
  <2> QED
    BY <2>1
<1>3. IsWellFoundedOn(R, Nat)
  BY NatLessThanWellFounded DEF OpToRel
<1>4. PICK m \in T : \A y \in T : ~ (<<y, m>> \in R)
  BY <1>2, <1>3, WFMin
<1>5. \A y \in T : ~ (y < m)
  BY <1>2, <1>4
<1>6. PICK x \in S : m = LastCandle - x
  BY <1>4
<1>7. \A y \in S : x >= y
  <2>1. ASSUME NEW y \in S
        PROVE  x >= y
    <3>1. x \in Int /\ y \in Int /\ LastCandle - y \in T
      BY <1>1
    <3>2. ~(LastCandle - y < LastCandle - x)
      BY <1>5, <1>6, <3>1
    <3> QED
      BY <1>1, <3>1, <3>2
  <2> QED
    BY <2>1
<1> QED
  BY <1>6, <1>7 DEF Max

\* compute_indicators fetches the newest of at least MinCandles rows.
LEMMA FetchedIsMax ==
    ASSUME candles \subseteq Candle, Cardinality(candles) >= MinCandles
    PROVE  Max(candles) \in candles /\ \A y \in candles : Max(candles) >= y
<1>1. candles # {}
  BY PipelineAssumption, FS_EmptySet
<1>2. candles \in SUBSET (0 .. LastCandle)
  BY PipelineAssumption DEF Candle
<1> QED
  BY <1>1, <1>2, MaxOfCandles

-----------------------------------------------------------------------------
(* What the moves of one close do to the losses and to the order.          *)

\* RoadInOrder says the same, place by place.
LEMMA RoadOrder == RoadInOrder <=> QueuesInOrder /\ RoadInv
<1>1. RoadInv <=> \A m, n \in DOMAIN Road : m < n => Before(Road[m], Road[n])
  BY ApartIsRoad DEF RoadInv, Road
<1> QED
  BY <1>1 DEF RoadInOrder, QueuesInOrder, Before

\* Everything on the road is a close.
LEMMA RoadType ==
    ASSUME TypeOK, PlaceInv
    PROVE  /\ Done \subseteq Arrival /\ InHand \subseteq Arrival /\ Waiting \subseteq Arrival
           /\ Held \subseteq Arrival /\ Streamed \subseteq Arrival
           /\ Candle \subseteq Int /\ Arrival \subseteq Int /\ Fresh \in Arrival
<1>1. Candle \subseteq Int /\ Arrival \subseteq Int /\ Fresh \in Arrival
  BY PipelineAssumption DEF TypeOK, Candle, Arrival, Fresh
<1>2. Done \subseteq Arrival
  <2>1. ASSUME NEW i \in DOMAIN decided
        PROVE  decided[i] \in Arrival
    BY SeqElement DEF TypeOK
  <2> QED
    BY <2>1 DEF Done
<1>3. InHand \subseteq Arrival
  BY DEF TypeOK, InHand
<1>4. Waiting \subseteq Arrival
  BY DEF TypeOK, Waiting
<1>5. Held \subseteq Arrival
  BY DEF TypeOK, PlaceInv, Held, Update
<1>6. Streamed \subseteq Arrival
  <2>1. ASSUME NEW i \in DOMAIN candleQueue
        PROVE  candleQueue[i] \in Update
    BY SeqElement DEF TypeOK
  <2> QED
    BY <2>1 DEF Streamed, Update
<1> QED
  BY <1>1, <1>2, <1>3, <1>4, <1>5, <1>6

\* A close on the road has arrived, and it is that of a candle.
LEMMA ArrivedType ==
    ASSUME TypeOK, PlaceInv, ArrivedInv, NEW n \in OnRoad
    PROVE  n \in DOMAIN arrivals /\ n \in 1 .. Len(arrivals) /\ CandleOf(n) \in Candle
<1>1. n \in Arrival /\ n < Fresh /\ Len(arrivals) \in Nat /\ DOMAIN arrivals = 1 .. Len(arrivals)
  BY RoadType DEF ArrivedInv, OnRoad, TypeOK
<1>2. n \in 1 .. Len(arrivals)
  BY <1>1 DEF Arrival, Fresh
<1>3. arrivals[n] \in [t : Candle, by : 1 .. MaxConnections]
  BY <1>1, <1>2, SeqElement DEF TypeOK
<1> QED
  BY <1>1, <1>2, <1>3 DEF CandleOf

\* No loss, and no close leaves the road.
LEMMA NoLoss ==
    ASSUME LossInv, UNCHANGED <<lost, arrivals>>, OnRoad' = OnRoad
    PROVE  LossInv'
BY DEF LossInv, Fresh

\* A close of the road is lost.
LEMMA OneLoss ==
    ASSUME LossInv, ArrivedInv, NEW t \in OnRoad, NEW where, Lose(t, where),
           UNCHANGED arrivals, OnRoad' = OnRoad \ {t}
    PROVE  LossInv'
<1> DEFINE new == [n |-> t, where |-> where]
<1>1. lost' = lost \cup {new} /\ new.n = t
  BY DEF Lose
<1> HIDE DEF new
<1>0. Fresh' = Fresh
  BY DEF Fresh
<1>2. \A x \in lost : x.n # t
  BY DEF LossInv
<1>3. \A x, y \in lost' : x.n = y.n => x = y
  BY <1>1, <1>2 DEF LossInv
<1>4. \A x \in lost' : x.n < Fresh' /\ x.n \notin OnRoad'
  BY <1>0, <1>1 DEF LossInv, ArrivedInv
<1>5. \A n \in 1 .. Fresh' - 1 : n \in OnRoad' \/ \E x \in lost' : x.n = n
  BY <1>0, <1>1 DEF LossInv
<1> QED
  BY <1>3, <1>4, <1>5 DEF LossInv

\* A close arrives: it is taken by the stream queue or lost there.
LEMMA CloseLoss ==
    ASSUME LossInv, ArrivedInv, Fresh \in Nat \ {0}, Fresh' = Fresh + 1, NEW where,
           \A x \in lost : x.n \in Int,
           \/ UNCHANGED lost /\ OnRoad' = OnRoad \cup {Fresh}
           \/ Lose(Fresh, where) /\ OnRoad' = OnRoad
    PROVE  LossInv'
<1>1. \A n \in 1 .. Fresh' - 1 : n \in 1 .. Fresh - 1 \/ n = Fresh
  OBVIOUS
<1>2. Fresh \notin OnRoad
  BY DEF ArrivedInv
<1>3. \A x \in lost : x.n # Fresh /\ x.n < Fresh'
  BY DEF LossInv
<1>4. CASE UNCHANGED lost /\ OnRoad' = OnRoad \cup {Fresh}
  BY <1>1, <1>3, <1>4 DEF LossInv
<1>5. CASE Lose(Fresh, where) /\ OnRoad' = OnRoad
  <2> DEFINE new == [n |-> Fresh, where |-> where]
  <2>1. lost' = lost \cup {new} /\ new.n = Fresh
    BY <1>5 DEF Lose
  <2> HIDE DEF new
  <2>2. \A x, y \in lost' : x.n = y.n => x = y
    BY <1>3, <2>1 DEF LossInv
  <2>3. \A x \in lost' : x.n < Fresh' /\ x.n \notin OnRoad'
    BY <1>2, <1>3, <1>5, <2>1 DEF LossInv
  <2>4. \A n \in 1 .. Fresh' - 1 : n \in OnRoad' \/ \E x \in lost' : x.n = n
    BY <1>1, <1>5, <2>1 DEF LossInv
  <2> QED
    BY <2>2, <2>3, <2>4 DEF LossInv
<1> QED
  BY <1>4, <1>5

-----------------------------------------------------------------------------
(* Types, and what is in hand.                                             *)

LEMMA InitIInv == Init => IInv
<1> SUFFICES ASSUME Init
             PROVE  IInv
  OBVIOUS
<1>1. TypeOK
  <2>1. /\ candleQueue \in Seq(Update) /\ Len(candleQueue) <= StreamCap
        /\ closedQueue \in Seq(Arrival) /\ Len(closedQueue) <= ClosedCap
        /\ decided \in Seq(Arrival)
    BY PipelineAssumption DEF Init
  <2>2. /\ faults \in 0 .. MaxFaults
        /\ passed \in Seq(0 .. LastCandle) /\ Len(passed) <= MaxConnections
        /\ arrivals \in Seq([t : Candle, by : 1 .. MaxConnections])
    BY PipelineAssumption DEF Init
  <2> QED
    BY <2>1, <2>2 DEF Init, TypeOK
<1>2. PlaceInv
  BY DEF Init, PlaceInv
<1>3. Done = {} /\ InHand = {} /\ Waiting = {} /\ Held = {} /\ Streamed = {}
  BY DEF Init, Done, InHand, Waiting, Held, Streamed
<1>4. QueuesInOrder /\ RoadInv
  BY <1>3 DEF Init, QueuesInOrder, RoadInv, Apart, Before
<1>5. ArrivedInv /\ LossInv
  BY <1>3 DEF Init, ArrivedInv, LossInv, OnRoad, Fresh
<1>6. DeliveryInv /\ RowInv /\ WindowInv /\ IndicatorCoversCandle
  BY <1>3 DEF Init, DeliveryInv, RowInv, WindowInv, IndicatorCoversCandle
<1>7. CostInv
  <2>1. Unpaid = {}
    BY <1>3 DEF Init, Unpaid, Rowless
  <2> QED
    BY <2>1, FS_EmptySet DEF Init, CostInv
<1> QED
  BY <1>1, <1>2, <1>4, <1>5, <1>6, <1>7 DEF IInv

\* What the kline callback does with an update.
LEMMA DeliverCases ==
    ASSUME NEW m, Deliver(m)
    PROVE  \/ /\ Len(candleQueue) < StreamCap
              /\ candleQueue' = Append(candleQueue, m)
              /\ UNCHANGED lost
           \/ UNCHANGED candleQueue /\ m = OpenKline /\ UNCHANGED lost
           \/ UNCHANGED candleQueue /\ m # OpenKline
              /\ \E where \in {"parse", "stream"} : Lose(m, where)
<1>1. ASSUME UNCHANGED candleQueue, m # OpenKline,
             Lose(m, IF Len(candleQueue) < StreamCap THEN "parse" ELSE "stream")
      PROVE  \E where \in {"parse", "stream"} : Lose(m, where)
  <2>1. (IF Len(candleQueue) < StreamCap THEN "parse" ELSE "stream") \in {"parse", "stream"}
    OBVIOUS
  <2> QED
    BY <1>1, <2>1
<1> QED
  BY <1>1, Zenon DEF Deliver

\* The kline callback keeps the types.
LEMMA DeliverType ==
    ASSUME TypeOK, NEW m \in Update, Deliver(m)
    PROVE  /\ candleQueue' \in Seq(Update) /\ Len(candleQueue') <= StreamCap
           /\ lost' \subseteq [n : Arrival, where : {"parse", "stream", "closed", "error"}]
<1>1. candleQueue \in Seq(Update) /\ Len(candleQueue) \in Nat /\ Len(candleQueue) <= StreamCap
      /\ StreamCap \in Nat
  BY PipelineAssumption DEF TypeOK
<1>2. CASE /\ Len(candleQueue) < StreamCap
           /\ candleQueue' = Append(candleQueue, m)
           /\ UNCHANGED lost
  <2>1. Append(candleQueue, m) \in Seq(Update) /\ Len(Append(candleQueue, m)) = Len(candleQueue) + 1
    BY <1>1, SeqAppend
  <2>2. Len(Append(candleQueue, m)) <= StreamCap
    BY <1>1, <1>2, <2>1
  <2> QED
    BY <1>2, <2>1, <2>2 DEF TypeOK
<1>3. CASE UNCHANGED candleQueue /\ m = OpenKline /\ UNCHANGED lost
  BY <1>1, <1>3 DEF TypeOK
<1>4. ASSUME NEW where \in {"parse", "stream"}, UNCHANGED candleQueue, m # OpenKline, Lose(m, where)
      PROVE  /\ candleQueue' \in Seq(Update) /\ Len(candleQueue') <= StreamCap
             /\ lost' \subseteq [n : Arrival, where : {"parse", "stream", "closed", "error"}]
  BY <1>1, <1>4 DEF Lose, TypeOK, Update
<1> QED
  BY <1>2, <1>3, <1>4, DeliverCases

LEMMA StreamKeepsType ==
    ASSUME TypeOK, PlaceInv, Stream
    PROVE  TypeOK' /\ PlaceInv'
<1>0. /\ LastCandle \in Nat /\ MaxConnections \in Nat /\ Len(passed) \in Nat
      /\ DOMAIN passed = 1 .. Len(passed) /\ Len(arrivals) \in Nat
  BY PipelineAssumption DEF TypeOK
<1>1. CASE Subscribe
  <2> DEFINE newest == Max({0} \cup ToSet(passed))
  <2>1. newest \in 0 .. LastCandle
    <3>1. ToSet(passed) \subseteq 0 .. LastCandle
      <4>1. \A i \in DOMAIN passed : passed[i] \in 0 .. LastCandle
        BY SeqElement DEF TypeOK
      <4> QED
        BY <4>1 DEF ToSet
    <3>2. {0} \cup ToSet(passed) \in SUBSET (0 .. LastCandle)
      BY <1>0, <3>1
    <3> QED
      BY <3>2, MaxOfCandles
  <2> HIDE DEF newest
  <2>2. passed' = Append(passed, newest) /\ Len(passed) < MaxConnections
    BY <1>1 DEF Subscribe, newest
  <2>3. passed' \in Seq(0 .. LastCandle) /\ Len(passed') <= MaxConnections
    <3>1. passed' \in Seq(0 .. LastCandle) /\ Len(passed') = Len(passed) + 1
      BY <2>1, <2>2, SeqAppend DEF TypeOK
    <3> QED
      BY <1>0, <2>2, <3>1
  <2> QED
    BY <1>1, <2>3 DEF Subscribe, TypeOK, PlaceInv, aggVars, rows, loopVars
<1>2. CASE OpenUpdate
  <2>1. Deliver(OpenKline) /\ OpenKline \in Update
    BY <1>2 DEF OpenUpdate, Update
  <2> QED
    BY <1>2, <2>1, DeliverType DEF OpenUpdate, TypeOK, PlaceInv, stream, aggVars, rows, loopVars
<1>3. ASSUME NEW c \in DOMAIN passed, CloseUpdate(c)
      PROVE  TypeOK' /\ PlaceInv'
  <2>1. PICK t \in passed[c] + 1 .. LastCandle :
          /\ passed' = [passed EXCEPT ![c] = t]
          /\ arrivals' = Append(arrivals, [t |-> t, by |-> c])
    BY <1>3 DEF CloseUpdate
  <2>2. passed[c] \in 0 .. LastCandle /\ c \in 1 .. MaxConnections
    BY <1>0, SeqElement DEF TypeOK
  <2>3. t \in Candle /\ t \in 0 .. LastCandle
    BY <1>0, <2>2 DEF Candle
  <2>4. passed' \in Seq(0 .. LastCandle) /\ Len(passed') = Len(passed)
    BY <2>1, <2>3 DEF TypeOK
  <2>5. arrivals' \in Seq([t : Candle, by : 1 .. MaxConnections])
    <3>1. [t |-> t, by |-> c] \in [t : Candle, by : 1 .. MaxConnections]
      BY <2>2, <2>3
    <3> QED
      BY <2>1, <3>1, SeqAppend DEF TypeOK
  <2>6. Deliver(Len(arrivals) + 1) /\ Len(arrivals) + 1 \in Update
    BY <1>0, <1>3 DEF CloseUpdate, Update, Arrival
  <2> QED
    BY <1>3, <2>4, <2>5, <2>6, DeliverType DEF CloseUpdate, TypeOK, PlaceInv, aggVars, rows, loopVars
<1> QED
  BY <1>1, <1>2, <1>3 DEF Stream

LEMMA AggregatorKeepsType ==
    ASSUME TypeOK, PlaceInv, ArrivedInv, Aggregator
    PROVE  TypeOK' /\ PlaceInv'
<1>1. CASE AggGet
  <2>1. candleQueue \in Seq(Update) /\ candleQueue # << >> /\ Len(candleQueue) <= StreamCap
    BY <1>1 DEF AggGet, TypeOK
  <2>2. /\ Head(candleQueue) \in Update /\ Tail(candleQueue) \in Seq(Update)
        /\ Len(Tail(candleQueue)) = Len(candleQueue) - 1
        /\ Len(Tail(candleQueue)) <= StreamCap
    <3>1. /\ Head(candleQueue) \in Update /\ Tail(candleQueue) \in Seq(Update)
          /\ Len(Tail(candleQueue)) = Len(candleQueue) - 1
      BY <2>1, SeqParts
    <3> QED
      BY <2>1, <3>1, PipelineAssumption
  <2>3. Head(candleQueue) # None
    BY <2>2, PipelineAssumption
  <2> QED
    BY <1>1, <2>2, <2>3 DEF AggGet, TypeOK, PlaceInv, stream, rows, loopVars
<1>2. CASE AggCache
  BY <1>2 DEF AggCache, TypeOK, PlaceInv, stream, rows, loopVars
<1>3. CASE AggPersist
  <2>1. aggMsg \in Arrival /\ agg = "persist" /\ aggMsg # None
    BY <1>3 DEF AggPersist, TypeOK, PlaceInv, Update
  <2>2. closedQueue' \in Seq(Arrival) /\ Len(closedQueue') <= ClosedCap
    <3>1. \/ closedQueue' = closedQueue
          \/ Len(closedQueue) < ClosedCap /\ closedQueue' = Append(closedQueue, aggMsg)
      <4>1. FanOut
        BY <1>3 DEF AggPersist
      <4>2. CASE Len(closedQueue) < ClosedCap
        BY <4>1, <4>2, Zenon DEF FanOut
      <4>3. CASE ~(Len(closedQueue) < ClosedCap)
        BY <4>1, <4>3, Zenon DEF FanOut
      <4> QED
        BY <4>2, <4>3
    <3>2. closedQueue \in Seq(Arrival) /\ Len(closedQueue) \in Nat /\ Len(closedQueue) <= ClosedCap
      BY DEF TypeOK
    <3>3. /\ Append(closedQueue, aggMsg) \in Seq(Arrival)
          /\ Len(Append(closedQueue, aggMsg)) = Len(closedQueue) + 1
      BY <2>1, <3>2, SeqAppend
    <3> QED
      BY <3>1, <3>2, <3>3, PipelineAssumption
  <2>3. lost' \subseteq [n : Arrival, where : {"parse", "stream", "closed", "error"}]
    BY <1>3, <2>1 DEF AggPersist, FanOut, Lose, TypeOK
  <2>4. CandleOf(aggMsg) \in Candle
    <3>1. aggMsg \in OnRoad
      BY <2>1 DEF Held, OnRoad, Arrival, OpenKline
    <3> QED
      BY <3>1, ArrivedType
  <2>5. faults' \in 0 .. MaxFaults /\ candles' \subseteq Candle /\ unsaved' \subseteq Arrival
    BY <1>3, <2>1, <2>4, PipelineAssumption DEF AggPersist, Fails, TypeOK
  <2> QED
    BY <1>3, <2>1, <2>2, <2>3, <2>5 DEF AggPersist, TypeOK, PlaceInv, stream, loopVars
<1>4. CASE AggBroadcast \/ AggExit
  BY <1>4 DEF AggBroadcast, AggExit, TypeOK, PlaceInv, stream, rows, loopVars
<1> QED
  BY <1>1, <1>2, <1>3, <1>4 DEF Aggregator

LEMMA DeciderKeepsType ==
    ASSUME TypeOK, PlaceInv, Decider
    PROVE  TypeOK' /\ PlaceInv'
<1>0. /\ UNCHANGED <<passed, arrivals, candleQueue, agg, aggMsg, aggRunning, candles, unsaved, shutdown>>
      /\ loop \notin {"get", "exit"} => hand \in Arrival
  BY DEF Decider, LoopGet, LoopFetch, LoopSaveIndicator, LoopContext, LoopEvaluate,
     LoopExit, upstream, stream, aggVars, rows, TypeOK, PlaceInv
<1>1. CASE LoopGet
  <2>1. closedQueue \in Seq(Arrival) /\ closedQueue # << >> /\ Len(closedQueue) <= ClosedCap
    BY <1>1 DEF LoopGet, TypeOK
  <2>2. /\ Head(closedQueue) \in Arrival /\ Tail(closedQueue) \in Seq(Arrival)
        /\ Len(Tail(closedQueue)) <= ClosedCap
    <3>1. /\ Head(closedQueue) \in Arrival /\ Tail(closedQueue) \in Seq(Arrival)
          /\ Len(Tail(closedQueue)) = Len(closedQueue) - 1
      BY <2>1, SeqParts
    <3> QED
      BY <2>1, <3>1, PipelineAssumption
  <2>3. Head(closedQueue) # None
    BY <2>2, PipelineAssumption DEF Update
  <2> QED
    BY <1>0, <1>1, <2>2, <2>3 DEF LoopGet, TypeOK, PlaceInv
<1>2. ASSUME loop \notin {"get", "exit"}, LoopError, UNCHANGED <<closedQueue, indicators, decided>>,
             faults' \in 0 .. MaxFaults
      PROVE  TypeOK' /\ PlaceInv'
  <2>1. lost' \subseteq [n : Arrival, where : {"parse", "stream", "closed", "error"}]
    BY <1>0, <1>2 DEF LoopError, Lose, TypeOK
  <2> QED
    BY <1>0, <1>2, <2>1 DEF LoopError, TypeOK, PlaceInv
<1>3. ASSUME NEW call, Fails(call)
      PROVE  faults' \in 0 .. MaxFaults
  BY <1>3, PipelineAssumption DEF Fails, TypeOK
<1>4. CASE LoopFetch
  <2>1. CASE Fails("fetch_candles") /\ LoopError
    BY <1>2, <1>3, <1>4, <2>1 DEF LoopFetch
  <2>2. CASE SkipIndicators /\ UNCHANGED faults
    BY <1>0, <1>4, <2>2 DEF LoopFetch, SkipIndicators, TypeOK, PlaceInv
  <2>3. CASE /\ Cardinality(candles) >= MinCandles
             /\ window' = Max(candles)
             /\ loop' = "indicator"
             /\ UNCHANGED <<hand, lost, faults>>
    <3>1. Max(candles) \in Candle
      BY <2>3, FetchedIsMax DEF TypeOK
    <3> QED
      BY <1>0, <1>4, <2>3, <3>1 DEF LoopFetch, TypeOK, PlaceInv
  <2> QED
    BY <1>4, <2>1, <2>2, <2>3 DEF LoopFetch
<1>5. CASE LoopSaveIndicator
  <2>1. CASE LoopError /\ UNCHANGED <<indicators, faults>>
    BY <1>2, <1>5, <2>1 DEF LoopSaveIndicator, TypeOK
  <2>2. CASE Fails("save_indicator") /\ LoopError /\ UNCHANGED indicators
    BY <1>2, <1>3, <1>5, <2>2 DEF LoopSaveIndicator
  <2>3. CASE /\ Fails("compute") /\ loop' = "context" /\ window' = None
             /\ UNCHANGED <<hand, indicators, lost>>
    BY <1>0, <1>3, <1>5, <2>3 DEF LoopSaveIndicator, TypeOK, PlaceInv
  <2>4. CASE /\ indicators' = [indicators EXCEPT ![CandleOf(hand)] = window]
             /\ loop' = "context" /\ window' = None
             /\ UNCHANGED <<hand, lost, faults>>
    BY <1>0, <1>5, <2>4 DEF LoopSaveIndicator, TypeOK, PlaceInv
  <2> QED
    BY <1>5, <2>1, <2>2, <2>3, <2>4 DEF LoopSaveIndicator
<1>6. CASE LoopContext
  <2>1. CASE Fails("build_context") /\ LoopError
    BY <1>2, <1>3, <1>6, <2>1 DEF LoopContext
  <2>2. CASE loop' = "llm" /\ UNCHANGED <<hand, window, lost, faults>>
    BY <1>0, <1>6, <2>2 DEF LoopContext, TypeOK, PlaceInv
  <2> QED
    BY <1>6, <2>1, <2>2 DEF LoopContext
<1>7. CASE LoopEvaluate
  <2>1. faults' \in 0 .. MaxFaults
    BY <1>3, <1>7 DEF LoopEvaluate, TypeOK
  <2>2. decided' \in Seq(Arrival)
    BY <1>0, <1>7, SeqAppend DEF LoopEvaluate, TypeOK
  <2> QED
    BY <1>0, <1>7, <2>1, <2>2 DEF LoopEvaluate, TypeOK, PlaceInv
<1>8. CASE LoopExit
  BY <1>0, <1>8 DEF LoopExit, TypeOK, PlaceInv
<1> QED
  BY <1>1, <1>4, <1>5, <1>6, <1>7, <1>8 DEF Decider

LEMMA NextKeepsType ==
    ASSUME TypeOK, PlaceInv, ArrivedInv, [Next]_vars
    PROVE  TypeOK' /\ PlaceInv'
<1>1. CASE Signal \/ StopAggregator \/ UNCHANGED vars
  BY <1>1 DEF Signal, StopAggregator, vars, stream, aggVars, rows, loopVars, TypeOK, PlaceInv
<1> QED
  BY <1>1, StreamKeepsType, AggregatorKeepsType, DeciderKeepsType DEF Next

-----------------------------------------------------------------------------
(* Every step moves at most one close along the road.                      *)

RoadIs(D, I, W, H, S) ==
    Done' = D /\ InHand' = I /\ Waiting' = W /\ Held' = H /\ Streamed' = S

\* A close arrives.
CloseMove ==
    /\ Fresh' = Fresh + 1
    /\ \/ RoadIs(Done, InHand, Waiting, Held, Streamed \cup {Fresh}) /\ UNCHANGED lost
       \/ /\ RoadIs(Done, InHand, Waiting, Held, Streamed)
          /\ \E where \in {"parse", "stream"} : Lose(Fresh, where)

\* The aggregator takes the oldest of the stream queue.
TakeMove ==
    /\ Held = {} /\ UNCHANGED <<lost, arrivals>>
    /\ \E t \in Streamed :
          /\ RoadIs(Done, InHand, Waiting, {t}, Streamed \ {t})
          /\ Before({t}, Streamed \ {t})

\* The aggregator fans its close out.
FanMove ==
    /\ UNCHANGED arrivals
    /\ \E t \in Held :
          /\ Held = {t}
          /\ \/ RoadIs(Done, InHand, Waiting \cup {t}, {}, Streamed) /\ UNCHANGED lost
             \/ /\ RoadIs(Done, InHand, Waiting, {}, Streamed) /\ Lose(t, "closed")
                /\ Cardinality(Waiting) >= ClosedCap

\* The loop takes the oldest of its queue.
GetMove ==
    /\ InHand = {} /\ UNCHANGED <<lost, arrivals>>
    /\ \E t \in Waiting :
          /\ RoadIs(Done, {t}, Waiting \ {t}, Held, Streamed)
          /\ Before({t}, Waiting \ {t})

\* The loop is done with its close.
SettleMove ==
    /\ InHand = {hand} /\ UNCHANGED arrivals
    /\ \/ RoadIs(Done \cup {hand}, {}, Waiting, Held, Streamed) /\ UNCHANGED lost
       \/ RoadIs(Done, {}, Waiting, Held, Streamed) /\ Lose(hand, "error")

NoMove == RoadIs(Done, InHand, Waiting, Held, Streamed) /\ UNCHANGED <<lost, arrivals>>

RoadStep == CloseMove \/ TakeMove \/ FanMove \/ GetMove \/ SettleMove \/ NoMove

\* Such a step keeps the order of the places and accounts for every close.
LEMMA RoadStepKeeps ==
    ASSUME TypeOK, PlaceInv, RoadInv, ArrivedInv, LossInv, RoadStep
    PROVE  RoadInv' /\ ArrivedInv' /\ LossInv'
<1>0. /\ Done \subseteq Int /\ InHand \subseteq Int /\ Waiting \subseteq Int
      /\ Held \subseteq Int /\ Streamed \subseteq Int
      /\ Fresh \in Nat \ {0} /\ \A x \in lost : x.n \in Int
  <2>1. \A x \in lost : x.n \in Arrival
    BY DEF TypeOK
  <2> QED
    BY <2>1, RoadType DEF Arrival
<1>1. OnRoad' = Done' \cup InHand' \cup Waiting' \cup Held' \cup Streamed'
  BY DEF OnRoad
<1>2. CASE CloseMove
  <2>1. RoadInv'
    BY <1>0, <1>2 DEF CloseMove, RoadIs, RoadInv, Apart, Before, ArrivedInv, OnRoad
  <2>2. /\ Fresh' = Fresh + 1
        /\ \/ UNCHANGED lost /\ OnRoad' = OnRoad \cup {Fresh}
           \/ (\E where : Lose(Fresh, where)) /\ OnRoad' = OnRoad
    BY <1>1, <1>2 DEF CloseMove, RoadIs, OnRoad
  <2>3. ArrivedInv'
    <3>1. OnRoad \subseteq Int
      BY <1>0 DEF OnRoad
    <3>2. OnRoad' \subseteq OnRoad \cup {Fresh}
      BY <2>2
    <3>3. \A t \in OnRoad \cup {Fresh} : t < Fresh + 1
      BY <1>0, <3>1 DEF ArrivedInv
    <3> QED
      BY <2>2, <3>2, <3>3 DEF ArrivedInv
  <2> QED
    BY <1>0, <2>1, <2>2, <2>3, CloseLoss
<1>3. CASE TakeMove
  <2>1. RoadInv'
    BY <1>0, <1>3 DEF TakeMove, RoadIs, RoadInv, Apart, Before
  <2>2. OnRoad' = OnRoad /\ UNCHANGED <<lost, arrivals>>
    BY <1>1, <1>3 DEF TakeMove, RoadIs, OnRoad
  <2> QED
    BY <2>1, <2>2, NoLoss DEF ArrivedInv, Fresh
<1>4. CASE FanMove
  <2>1. PICK t \in Held :
          /\ Held = {t} /\ UNCHANGED arrivals
          /\ \/ RoadIs(Done, InHand, Waiting \cup {t}, {}, Streamed) /\ UNCHANGED lost
             \/ RoadIs(Done, InHand, Waiting, {}, Streamed) /\ Lose(t, "closed")
    BY <1>4 DEF FanMove
  <2>2. RoadInv'
    BY <1>0, <2>1 DEF RoadIs, RoadInv, Apart, Before
  <2>3. CASE RoadIs(Done, InHand, Waiting \cup {t}, {}, Streamed) /\ UNCHANGED lost
    <3>1. OnRoad' = OnRoad
      BY <1>1, <2>1, <2>3 DEF RoadIs, OnRoad
    <3> QED
      BY <2>1, <2>2, <2>3, <3>1, NoLoss DEF ArrivedInv, Fresh
  <2>4. CASE RoadIs(Done, InHand, Waiting, {}, Streamed) /\ Lose(t, "closed")
    <3>1. OnRoad' = OnRoad \ {t} /\ t \in OnRoad
      BY <1>0, <1>1, <2>1, <2>4 DEF RoadIs, OnRoad, RoadInv, Apart, Before
    <3> QED
      BY <2>1, <2>2, <2>4, <3>1, OneLoss DEF ArrivedInv, Fresh
  <2> QED
    BY <2>1, <2>3, <2>4
<1>5. CASE GetMove
  <2>1. RoadInv'
    BY <1>0, <1>5 DEF GetMove, RoadIs, RoadInv, Apart, Before
  <2>2. OnRoad' = OnRoad /\ UNCHANGED <<lost, arrivals>>
    BY <1>1, <1>5 DEF GetMove, RoadIs, OnRoad
  <2> QED
    BY <2>1, <2>2, NoLoss DEF ArrivedInv, Fresh
<1>6. CASE SettleMove
  <2>1. InHand = {hand} /\ UNCHANGED arrivals
    BY <1>6 DEF SettleMove
  <2>2. RoadInv'
    BY <1>0, <1>6 DEF SettleMove, RoadIs, RoadInv, Apart, Before
  <2>3. CASE RoadIs(Done \cup {hand}, {}, Waiting, Held, Streamed) /\ UNCHANGED lost
    <3>1. OnRoad' = OnRoad
      BY <1>1, <2>1, <2>3 DEF RoadIs, OnRoad
    <3> QED
      BY <2>1, <2>2, <2>3, <3>1, NoLoss DEF ArrivedInv, Fresh
  <2>4. CASE RoadIs(Done, {}, Waiting, Held, Streamed) /\ Lose(hand, "error")
    <3>1. OnRoad' = OnRoad \ {hand} /\ hand \in OnRoad
      BY <1>0, <1>1, <2>1, <2>4 DEF RoadIs, OnRoad, RoadInv, Apart, Before
    <3> QED
      BY <2>1, <2>2, <2>4, <3>1, OneLoss DEF ArrivedInv, Fresh
  <2> QED
    BY <1>6, <2>3, <2>4 DEF SettleMove
<1>7. CASE NoMove
  <2>1. OnRoad' = OnRoad /\ RoadInv' = RoadInv
    BY <1>1, <1>7 DEF NoMove, RoadIs, OnRoad, RoadInv
  <2> QED
    BY <1>7, <2>1, NoLoss DEF NoMove, ArrivedInv, Fresh
<1> QED
  BY <1>2, <1>3, <1>4, <1>5, <1>6, <1>7 DEF RoadStep

\* An update joins the stream queue.
LEMMA StreamedAppend ==
    ASSUME TypeOK, QueuesInOrder, NEW m \in Update, candleQueue' = Append(candleQueue, m),
           m # OpenKline => \A t \in Streamed : t < m
    PROVE  /\ Streamed' = IF m # OpenKline THEN Streamed \cup {m} ELSE Streamed
           /\ (\A i, j \in DOMAIN candleQueue :
                  i < j /\ candleQueue[i] # OpenKline /\ candleQueue[j] # OpenKline =>
                      candleQueue[i] < candleQueue[j])'
<1> DEFINE n == Len(candleQueue) + 1
<1>1. /\ candleQueue \in Seq(Update) /\ DOMAIN candleQueue' = DOMAIN candleQueue \cup {n}
      /\ candleQueue'[n] = m
      /\ \A i \in DOMAIN candleQueue : candleQueue'[i] = candleQueue[i] /\ i # n /\ i < n
  BY SeqAppend DEF TypeOK
<1>2. \A i \in DOMAIN candleQueue : i \in Int
  BY <1>1
<1> HIDE DEF n
<1>3. Streamed' = {candleQueue'[i] : i \in {j \in DOMAIN candleQueue' : candleQueue'[j] # OpenKline}}
  BY DEF Streamed
<1>4. Streamed' = IF m # OpenKline THEN Streamed \cup {m} ELSE Streamed
  <2>1. CASE m # OpenKline
    BY <1>1, <1>3, <2>1 DEF Streamed
  <2>2. CASE m = OpenKline
    BY <1>1, <1>3, <2>2 DEF Streamed
  <2> QED
    BY <2>1, <2>2
<1>5. ASSUME NEW i \in DOMAIN candleQueue', NEW j \in DOMAIN candleQueue', i < j,
             candleQueue'[i] # OpenKline, candleQueue'[j] # OpenKline
      PROVE  candleQueue'[i] < candleQueue'[j]
  <2>1. i \in DOMAIN candleQueue
    BY <1>1, <1>2, <1>5, n \in Int DEF n
  <2>2. CASE j \in DOMAIN candleQueue
    BY <1>1, <1>5, <2>1, <2>2 DEF QueuesInOrder
  <2>3. CASE j = n
    BY <1>1, <1>5, <2>1, <2>3 DEF Streamed
  <2> QED
    BY <1>1, <2>2, <2>3
<1> QED
  BY <1>4, <1>5

\* The oldest update leaves the stream queue.
LEMMA StreamedTail ==
    ASSUME TypeOK, QueuesInOrder, candleQueue # << >>, candleQueue' = Tail(candleQueue)
    PROVE  LET m == Head(candleQueue)
           IN  /\ Streamed' = IF m # OpenKline THEN Streamed \ {m} ELSE Streamed
               /\ m # OpenKline => m \in Streamed /\ Before({m}, Streamed \ {m})
               /\ (\A i, j \in DOMAIN candleQueue :
                      i < j /\ candleQueue[i] # OpenKline /\ candleQueue[j] # OpenKline =>
                          candleQueue[i] < candleQueue[j])'
<1> DEFINE m == Head(candleQueue)
<1>1. /\ m = candleQueue[1] /\ 1 \in DOMAIN candleQueue
      /\ \A i \in DOMAIN candleQueue' :
             i + 1 \in DOMAIN candleQueue /\ candleQueue'[i] = candleQueue[i + 1]
      /\ \A i \in DOMAIN candleQueue \ {1} :
             i - 1 \in DOMAIN candleQueue' /\ candleQueue[i] = candleQueue'[i - 1]
  BY SeqParts DEF TypeOK
<1>2. /\ \A i \in DOMAIN candleQueue : i \in Int /\ i >= 1
      /\ \A i \in DOMAIN candleQueue' : i \in Int /\ i >= 1
      /\ \A i \in DOMAIN candleQueue : candleQueue[i] \in Int
  <2>1. \A i \in DOMAIN candleQueue : candleQueue[i] \in Update
    BY SeqElement DEF TypeOK
  <2>2. /\ candleQueue \in Seq(Update) /\ candleQueue' \in Seq(Update)
    BY SeqParts DEF TypeOK
  <2> QED
    BY <2>1, <2>2 DEF Update, Arrival, OpenKline
<1> HIDE DEF m
<1>3. \A i \in DOMAIN candleQueue \ {1} :
          m # OpenKline /\ candleQueue[i] # OpenKline => m < candleQueue[i]
  <2>1. \A i \in DOMAIN candleQueue \ {1} : 1 < i
    BY <1>2
  <2> QED
    BY <1>1, <2>1 DEF QueuesInOrder
<1>4. Streamed' = {candleQueue'[i] : i \in {j \in DOMAIN candleQueue' : candleQueue'[j] # OpenKline}}
  BY DEF Streamed
<1>5. Streamed' = {candleQueue[i] : i \in {j \in DOMAIN candleQueue \ {1} : candleQueue[j] # OpenKline}}
  <2>1. \A i \in DOMAIN candleQueue' : i + 1 # 1
    BY <1>2
  <2>2. ASSUME NEW t \in Streamed'
        PROVE  \E i \in DOMAIN candleQueue \ {1} : candleQueue[i] # OpenKline /\ t = candleQueue[i]
    <3>1. PICK i \in DOMAIN candleQueue' : candleQueue'[i] # OpenKline /\ t = candleQueue'[i]
      BY <1>4
    <3> QED
      BY <1>1, <2>1, <3>1
  <2>3. ASSUME NEW i \in DOMAIN candleQueue \ {1}, candleQueue[i] # OpenKline
        PROVE  candleQueue[i] \in Streamed'
    <3>1. i - 1 \in DOMAIN candleQueue' /\ candleQueue[i] = candleQueue'[i - 1]
      BY <1>1
    <3> QED
      BY <1>4, <2>3, <3>1
  <2> QED
    BY <2>2, <2>3
<1>6. Streamed' = IF m # OpenKline THEN Streamed \ {m} ELSE Streamed
  <2>1. CASE m # OpenKline
    <3>1. \A i \in DOMAIN candleQueue : i = 1 \/ i \in DOMAIN candleQueue \ {1}
      OBVIOUS
    <3>2. \A t \in Streamed' : t \in Streamed /\ t # m
      BY <1>1, <1>2, <1>3, <1>5, <2>1 DEF Streamed
    <3>3. ASSUME NEW t \in Streamed, t # m
          PROVE  t \in Streamed'
      <4>1. PICK i \in DOMAIN candleQueue : candleQueue[i] # OpenKline /\ t = candleQueue[i]
        BY DEF Streamed
      <4> QED
        BY <1>1, <1>5, <3>3, <4>1
    <3>4. m \notin Streamed'
      BY <3>2
    <3> QED
      BY <2>1, <3>2, <3>3, <3>4
  <2>2. CASE m = OpenKline
    <3>1. \A t \in Streamed' : t \in Streamed
      BY <1>1, <1>5 DEF Streamed
    <3>2. ASSUME NEW t \in Streamed
          PROVE  t \in Streamed'
      <4>1. PICK i \in DOMAIN candleQueue : candleQueue[i] # OpenKline /\ t = candleQueue[i]
        BY DEF Streamed
      <4> QED
        BY <1>1, <1>5, <2>2, <4>1
    <3> QED
      BY <2>2, <3>1, <3>2
  <2> QED
    BY <2>1, <2>2
<1>7. ASSUME m # OpenKline
      PROVE  m \in Streamed /\ Before({m}, Streamed \ {m})
  BY <1>1, <1>3, <1>7 DEF Streamed, Before
<1>8. ASSUME NEW i \in DOMAIN candleQueue', NEW j \in DOMAIN candleQueue', i < j,
             candleQueue'[i] # OpenKline, candleQueue'[j] # OpenKline
      PROVE  candleQueue'[i] < candleQueue'[j]
  <2>1. i + 1 < j + 1
    BY <1>2, <1>8
  <2> QED
    BY <1>1, <1>8, <2>1 DEF QueuesInOrder
<1> QED
  BY <1>6, <1>7, <1>8 DEF m

\* A candle joins the closed queue.
LEMMA WaitingAppend ==
    ASSUME TypeOK, QueuesInOrder, NEW c \in Arrival, closedQueue' = Append(closedQueue, c),
           \A t \in Waiting : t < c
    PROVE  /\ Waiting' = Waiting \cup {c}
           /\ (\A i, j \in DOMAIN closedQueue : i < j => closedQueue[i] < closedQueue[j])'
<1> DEFINE n == Len(closedQueue) + 1
<1>1. /\ closedQueue \in Seq(Arrival) /\ DOMAIN closedQueue' = DOMAIN closedQueue \cup {n}
      /\ closedQueue'[n] = c
      /\ \A i \in DOMAIN closedQueue : closedQueue'[i] = closedQueue[i] /\ i # n /\ i < n
  BY SeqAppend DEF TypeOK
<1>2. \A i \in DOMAIN closedQueue : i \in Int
  BY <1>1
<1>3. n \in Int
  BY <1>1
<1> HIDE DEF n
<1>4. Waiting' = {closedQueue'[i] : i \in DOMAIN closedQueue'}
  BY DEF Waiting
<1>5. Waiting' = Waiting \cup {c}
  BY <1>1, <1>4 DEF Waiting
<1>6. ASSUME NEW i \in DOMAIN closedQueue', NEW j \in DOMAIN closedQueue', i < j
      PROVE  closedQueue'[i] < closedQueue'[j]
  <2>1. i \in DOMAIN closedQueue
    BY <1>1, <1>2, <1>3, <1>6
  <2>2. CASE j \in DOMAIN closedQueue
    BY <1>1, <1>6, <2>1, <2>2 DEF QueuesInOrder
  <2>3. CASE j = n
    BY <1>1, <1>6, <2>1, <2>3 DEF Waiting
  <2> QED
    BY <1>1, <2>2, <2>3
<1> QED
  BY <1>5, <1>6

\* The oldest candle leaves the closed queue.
LEMMA WaitingTail ==
    ASSUME TypeOK, QueuesInOrder, closedQueue # << >>, closedQueue' = Tail(closedQueue)
    PROVE  LET c == Head(closedQueue)
           IN  /\ Waiting' = Waiting \ {c} /\ c \in Waiting /\ Before({c}, Waiting \ {c})
               /\ (\A i, j \in DOMAIN closedQueue : i < j => closedQueue[i] < closedQueue[j])'
<1> DEFINE c == Head(closedQueue)
<1>1. /\ c = closedQueue[1] /\ 1 \in DOMAIN closedQueue
      /\ \A i \in DOMAIN closedQueue' :
             i + 1 \in DOMAIN closedQueue /\ closedQueue'[i] = closedQueue[i + 1]
      /\ \A i \in DOMAIN closedQueue \ {1} :
             i - 1 \in DOMAIN closedQueue' /\ closedQueue[i] = closedQueue'[i - 1]
  BY SeqParts DEF TypeOK
<1>2. /\ \A i \in DOMAIN closedQueue : i \in Int /\ i >= 1
      /\ \A i \in DOMAIN closedQueue' : i \in Int /\ i >= 1
      /\ \A i \in DOMAIN closedQueue : closedQueue[i] \in Int
  <2>1. \A i \in DOMAIN closedQueue : closedQueue[i] \in Arrival
    BY SeqElement DEF TypeOK
  <2>2. /\ closedQueue \in Seq(Arrival) /\ closedQueue' \in Seq(Arrival)
    BY SeqParts DEF TypeOK
  <2> QED
    BY <2>1, <2>2 DEF Arrival
<1> HIDE DEF c
<1>3. \A i \in DOMAIN closedQueue \ {1} : c < closedQueue[i]
  <2>1. \A i \in DOMAIN closedQueue \ {1} : 1 < i
    BY <1>2
  <2> QED
    BY <1>1, <2>1 DEF QueuesInOrder
<1>4. Waiting' = {closedQueue'[i] : i \in DOMAIN closedQueue'}
  BY DEF Waiting
<1>5. ASSUME NEW t \in Waiting'
      PROVE  t \in Waiting /\ t # c
  <2>1. PICK i \in DOMAIN closedQueue' : t = closedQueue'[i]
    BY <1>4
  <2>2. i + 1 \in DOMAIN closedQueue \ {1} /\ t = closedQueue[i + 1]
    BY <1>1, <1>2, <2>1
  <2> QED
    BY <1>2, <1>1, <1>3, <2>2 DEF Waiting
<1>6. ASSUME NEW t \in Waiting, t # c
      PROVE  t \in Waiting'
  <2>1. PICK i \in DOMAIN closedQueue : t = closedQueue[i]
    BY DEF Waiting
  <2>2. i - 1 \in DOMAIN closedQueue' /\ t = closedQueue'[i - 1]
    BY <1>1, <1>6, <2>1
  <2> QED
    BY <1>4, <2>2
<1>7. c \in Waiting /\ Before({c}, Waiting \ {c})
  BY <1>1, <1>3 DEF Waiting, Before
<1>8. ASSUME NEW i \in DOMAIN closedQueue', NEW j \in DOMAIN closedQueue', i < j
      PROVE  closedQueue'[i] < closedQueue'[j]
  <2>1. i + 1 < j + 1
    BY <1>2, <1>8
  <2> QED
    BY <1>1, <1>8, <2>1 DEF QueuesInOrder
<1>9. Waiting' = Waiting \ {c}
  <2>1. c \notin Waiting'
    BY <1>5
  <2> QED
    BY <1>5, <1>6, <2>1
<1> QED
  BY <1>7, <1>8, <1>9 DEF c

\* A candle is decided on.
LEMMA DoneAppend ==
    ASSUME TypeOK, QueuesInOrder, NEW c \in Arrival, decided' = Append(decided, c),
           \A t \in Done : t < c
    PROVE  /\ Done' = Done \cup {c}
           /\ (\A i, j \in DOMAIN decided : i < j => decided[i] < decided[j])'
<1> DEFINE n == Len(decided) + 1
<1>1. /\ decided \in Seq(Arrival)
      /\ DOMAIN decided' = DOMAIN decided \cup {n} /\ decided'[n] = c
      /\ \A i \in DOMAIN decided : decided'[i] = decided[i] /\ i # n /\ i < n
  BY SeqAppend DEF TypeOK
<1>2. /\ n \in Int /\ \A i \in DOMAIN decided : i \in Int
  BY <1>1
<1> HIDE DEF n
<1>3. Done' = {decided'[i] : i \in DOMAIN decided'}
  BY DEF Done
<1>4. Done' = Done \cup {c}
  BY <1>1, <1>3 DEF Done
<1>5. ASSUME NEW i \in DOMAIN decided', NEW j \in DOMAIN decided', i < j
      PROVE  decided'[i] < decided'[j]
  <2>1. i \in DOMAIN decided
    BY <1>1, <1>2, <1>5
  <2>2. CASE j \in DOMAIN decided
    BY <1>1, <1>5, <2>1, <2>2 DEF QueuesInOrder
  <2>3. CASE j = n
    BY <1>1, <1>5, <2>1, <2>3 DEF Done
  <2> QED
    BY <1>1, <2>2, <2>3
<1> QED
  BY <1>4, <1>5

\* The closed queue has as many candles as places.
LEMMA WaitingCount ==
    ASSUME TypeOK, QueuesInOrder
    PROVE  Cardinality(Waiting) = Len(closedQueue)
<1> DEFINE n == Len(closedQueue)
           f == [i \in 1 .. n |-> closedQueue[i]]
<1>1. n \in Nat /\ DOMAIN closedQueue = 1 .. n
  BY DEF TypeOK
<1>2. f \in Bijection(1 .. n, Waiting)
  <2>1. f \in [1 .. n -> Waiting] /\ DOMAIN f = 1 .. n
    BY <1>1 DEF Waiting
  <2>2. \A i, j \in 1 .. n : i # j => f[i] # f[j]
    <3>1. \A i \in 1 .. n : f[i] \in Int
      BY <1>1, SeqElement DEF TypeOK, Arrival
    <3>2. \A i, j \in 1 .. n : i < j => f[i] < f[j]
      BY <1>1 DEF QueuesInOrder
    <3> HIDE DEF f, n
    <3>3. \A i, j \in 1 .. n : i # j => i < j \/ j < i
      BY <1>1
    <3> QED
      BY <3>1, <3>2, <3>3
  <2>3. \A w \in Waiting : \E i \in 1 .. n : f[i] = w
    BY <1>1 DEF Waiting
  <2> HIDE DEF f, n
  <2>4. f \in Injection(1 .. n, Waiting)
    BY <2>1, <2>2 DEF Injection, IsInjective
  <2>5. f \in Surjection(1 .. n, Waiting)
    BY <2>1, <2>3 DEF Surjection
  <2> QED
    BY <2>4, <2>5 DEF Bijection
<1> HIDE DEF f
<1>3. IsFiniteSet(1 .. n) /\ Cardinality(1 .. n) = n
  <2> HIDE DEF n
  <2> QED
    BY <1>1, FS_Interval
<1>4. ExistsBijection(1 .. n, Waiting)
  BY <1>2 DEF ExistsBijection
<1> QED
  BY <1>3, <1>4, FS_Bijection

\* What an update does to the stream queue, an arrival being the next one.
LEMMA DeliverMoves ==
    ASSUME TypeOK, QueuesInOrder, NEW m \in Update, Deliver(m),
           m # OpenKline => \A t \in Streamed : t < m
    PROVE  /\ (\A i, j \in DOMAIN candleQueue :
                  i < j /\ candleQueue[i] # OpenKline /\ candleQueue[j] # OpenKline =>
                      candleQueue[i] < candleQueue[j])'
           /\ \/ Streamed' = Streamed /\ m = OpenKline /\ UNCHANGED lost
              \/ Streamed' = Streamed \cup {m} /\ m # OpenKline /\ UNCHANGED lost
              \/ /\ Streamed' = Streamed /\ m # OpenKline
                 /\ \E where \in {"parse", "stream"} : Lose(m, where)
<1>1. CASE candleQueue' = Append(candleQueue, m) /\ UNCHANGED lost
  <2>1. /\ Streamed' = IF m # OpenKline THEN Streamed \cup {m} ELSE Streamed
        /\ (\A i, j \in DOMAIN candleQueue :
               i < j /\ candleQueue[i] # OpenKline /\ candleQueue[j] # OpenKline =>
                   candleQueue[i] < candleQueue[j])'
    BY <1>1, StreamedAppend
  <2>2. CASE m = OpenKline
    BY <1>1, <2>1, <2>2
  <2>3. CASE m # OpenKline
    BY <1>1, <2>1, <2>3
  <2> QED
    BY <2>2, <2>3
<1>2. ASSUME UNCHANGED candleQueue
      PROVE  /\ Streamed' = Streamed
             /\ (\A i, j \in DOMAIN candleQueue :
                    i < j /\ candleQueue[i] # OpenKline /\ candleQueue[j] # OpenKline =>
                        candleQueue[i] < candleQueue[j])'
  BY <1>2 DEF Streamed, QueuesInOrder
<1>3. CASE UNCHANGED candleQueue /\ m = OpenKline /\ UNCHANGED lost
  BY <1>2, <1>3
<1>4. CASE /\ UNCHANGED candleQueue /\ m # OpenKline
           /\ \E where \in {"parse", "stream"} : Lose(m, where)
  BY <1>2, <1>4
<1> QED
  BY <1>1, <1>3, <1>4, DeliverCases

LEMMA StreamMoves ==
    ASSUME TypeOK, QueuesInOrder, ArrivedInv, Stream
    PROVE  RoadStep /\ QueuesInOrder'
<1>1. UNCHANGED <<agg, aggMsg, hand, closedQueue, decided>>
  BY DEF Stream, Subscribe, OpenUpdate, CloseUpdate, aggVars, loopVars
<1>2. Done' = Done /\ InHand' = InHand /\ Waiting' = Waiting /\ Held' = Held
  BY <1>1 DEF Done, InHand, Waiting, Held
<1>3. CASE Subscribe
  <2>1. UNCHANGED <<arrivals, candleQueue, lost>>
    BY <1>3 DEF Subscribe
  <2>2. Streamed' = Streamed /\ QueuesInOrder'
    BY <1>1, <2>1 DEF Streamed, QueuesInOrder
  <2> QED
    BY <1>2, <2>1, <2>2 DEF RoadStep, NoMove, RoadIs
<1>4. CASE OpenUpdate
  <2>1. UNCHANGED arrivals /\ Deliver(OpenKline) /\ OpenKline \in Update
    BY <1>4 DEF OpenUpdate, stream, Update
  <2>2. /\ Streamed' = Streamed /\ UNCHANGED lost
        /\ (\A i, j \in DOMAIN candleQueue :
               i < j /\ candleQueue[i] # OpenKline /\ candleQueue[j] # OpenKline =>
                   candleQueue[i] < candleQueue[j])'
    BY <2>1, DeliverMoves
  <2>3. QueuesInOrder'
    BY <1>1, <2>2 DEF QueuesInOrder
  <2> QED
    BY <1>2, <2>1, <2>2, <2>3 DEF RoadStep, NoMove, RoadIs
<1>5. ASSUME NEW c \in DOMAIN passed, CloseUpdate(c)
      PROVE  RoadStep /\ QueuesInOrder'
  <2>1. Fresh \in Update /\ Fresh # OpenKline /\ Fresh' = Fresh + 1 /\ Deliver(Fresh)
    <3>1. PICK t \in passed[c] + 1 .. LastCandle : arrivals' = Append(arrivals, [t |-> t, by |-> c])
      BY <1>5 DEF CloseUpdate
    <3>2. Len(arrivals) \in Nat /\ Len(arrivals') = Len(arrivals) + 1
      BY <3>1 DEF TypeOK
    <3> QED
      BY <1>5, <3>2 DEF CloseUpdate, Fresh, Update, Arrival, OpenKline
  <2>2. \A t \in Streamed : t < Fresh
    BY DEF ArrivedInv, OnRoad
  <2>3. /\ (\A i, j \in DOMAIN candleQueue :
               i < j /\ candleQueue[i] # OpenKline /\ candleQueue[j] # OpenKline =>
                   candleQueue[i] < candleQueue[j])'
        /\ \/ Streamed' = Streamed \cup {Fresh} /\ UNCHANGED lost
           \/ /\ Streamed' = Streamed
              /\ \E where \in {"parse", "stream"} : Lose(Fresh, where)
    BY <2>1, <2>2, DeliverMoves
  <2>4. QueuesInOrder'
    BY <1>1, <2>3 DEF QueuesInOrder
  <2> QED
    BY <1>2, <2>1, <2>3, <2>4 DEF RoadStep, CloseMove, RoadIs
<1> QED
  BY <1>3, <1>4, <1>5 DEF Stream

LEMMA AggregatorMoves ==
    ASSUME TypeOK, PlaceInv, QueuesInOrder, RoadInv, Aggregator
    PROVE  RoadStep /\ QueuesInOrder'
<1>0. /\ UNCHANGED <<arrivals, hand, decided>>
      /\ Done' = Done /\ InHand' = InHand
  BY DEF Aggregator, AggGet, AggCache, AggPersist, AggBroadcast, AggExit, stream, loopVars,
     Done, InHand
<1>1. CASE AggGet
  <2> DEFINE m == Head(candleQueue)
  <2>1. /\ agg = "get" /\ agg' = "cache" /\ aggMsg' = m /\ candleQueue # << >>
        /\ candleQueue' = Tail(candleQueue) /\ UNCHANGED <<closedQueue, lost>>
    BY <1>1 DEF AggGet
  <2>2. /\ Streamed' = IF m # OpenKline THEN Streamed \ {m} ELSE Streamed
        /\ m # OpenKline => m \in Streamed /\ Before({m}, Streamed \ {m})
        /\ (\A i, j \in DOMAIN candleQueue :
               i < j /\ candleQueue[i] # OpenKline /\ candleQueue[j] # OpenKline =>
                   candleQueue[i] < candleQueue[j])'
    BY <2>1, StreamedTail
  <2> HIDE DEF m
  <2>3. QueuesInOrder'
    BY <1>0, <2>1, <2>2 DEF QueuesInOrder
  <2>4. /\ Held = {} /\ Held' = IF m # OpenKline THEN {m} ELSE {}
        /\ Waiting' = Waiting
    BY <2>1 DEF Held, Waiting
  <2>5. CASE m # OpenKline
    BY <1>0, <2>1, <2>2, <2>3, <2>4, <2>5 DEF RoadStep, TakeMove, RoadIs
  <2>6. CASE m = OpenKline
    BY <1>0, <2>1, <2>2, <2>3, <2>4, <2>6 DEF RoadStep, NoMove, RoadIs
  <2> QED
    BY <2>5, <2>6
<1>2. CASE AggCache \/ AggBroadcast \/ AggExit
  <2>1. UNCHANGED <<candleQueue, closedQueue, lost>> /\ Held' = Held
    BY <1>2 DEF AggCache, AggBroadcast, AggExit, Held
  <2>2. Waiting' = Waiting /\ Streamed' = Streamed /\ QueuesInOrder'
    BY <1>0, <2>1 DEF Waiting, Streamed, QueuesInOrder
  <2> QED
    BY <1>0, <2>1, <2>2 DEF RoadStep, NoMove, RoadIs
<1>3. CASE AggPersist
  <2>1. /\ agg = "persist" /\ agg' = "broadcast" /\ FanOut /\ UNCHANGED <<candleQueue, aggMsg>>
    BY <1>3 DEF AggPersist
  <2>2. /\ aggMsg # OpenKline /\ aggMsg \in Arrival
        /\ Held = {aggMsg} /\ Held' = {} /\ Streamed' = Streamed
    BY <2>1 DEF TypeOK, PlaceInv, Update, Held, Streamed
  <2>3. CASE Len(closedQueue) < ClosedCap
    <3>1. closedQueue' = Append(closedQueue, aggMsg) /\ UNCHANGED lost
      BY <2>1, <2>3, Zenon DEF FanOut
    <3>2. \A t \in Waiting : t < aggMsg
      BY <2>2 DEF RoadInv, Apart, Before
    <3>3. /\ Waiting' = Waiting \cup {aggMsg}
          /\ (\A i, j \in DOMAIN closedQueue : i < j => closedQueue[i] < closedQueue[j])'
      BY <2>2, <3>1, <3>2, WaitingAppend
    <3>4. QueuesInOrder'
      BY <1>0, <2>1, <3>3 DEF QueuesInOrder
    <3> QED
      BY <1>0, <2>2, <3>1, <3>3, <3>4 DEF RoadStep, FanMove, RoadIs
  <2>4. CASE ~(Len(closedQueue) < ClosedCap)
    <3>1. Lose(aggMsg, "closed") /\ UNCHANGED closedQueue
      BY <2>1, <2>4, Zenon DEF FanOut
    <3>2. Waiting' = Waiting /\ QueuesInOrder'
      BY <1>0, <2>1, <3>1 DEF Waiting, QueuesInOrder
    <3>3. Cardinality(Waiting) >= ClosedCap
      BY <2>4, WaitingCount, PipelineAssumption DEF TypeOK
    <3> QED
      BY <1>0, <2>2, <3>1, <3>2, <3>3 DEF RoadStep, FanMove, RoadIs
  <2> QED
    BY <2>3, <2>4
<1> QED
  BY <1>1, <1>2, <1>3 DEF Aggregator

LEMMA DeciderMoves ==
    ASSUME TypeOK, PlaceInv, QueuesInOrder, RoadInv, Decider
    PROVE  RoadStep /\ QueuesInOrder'
<1>0. /\ UNCHANGED <<arrivals, candleQueue, agg, aggMsg>>
      /\ Held' = Held /\ Streamed' = Streamed
  BY DEF Decider, LoopGet, LoopFetch, LoopSaveIndicator, LoopContext, LoopEvaluate,
     LoopExit, upstream, stream, aggVars, Held, Streamed
<1>1. CASE LoopGet
  <2> DEFINE c == Head(closedQueue)
  <2>1. /\ loop = "get" /\ hand' = c /\ closedQueue # << >>
        /\ closedQueue' = Tail(closedQueue) /\ UNCHANGED <<decided, lost>>
    BY <1>1 DEF LoopGet
  <2>2. /\ Waiting' = Waiting \ {c} /\ c \in Waiting /\ Before({c}, Waiting \ {c})
        /\ (\A i, j \in DOMAIN closedQueue : i < j => closedQueue[i] < closedQueue[j])'
    BY <2>1, WaitingTail
  <2> HIDE DEF c
  <2>3. c # None
    BY <2>2, RoadType, PipelineAssumption DEF Update
  <2>4. InHand = {} /\ InHand' = {c} /\ Done' = Done
    BY <2>1, <2>3 DEF PlaceInv, InHand, Done
  <2>5. QueuesInOrder'
    BY <1>0, <2>1, <2>2 DEF QueuesInOrder
  <2> QED
    BY <1>0, <2>1, <2>2, <2>4, <2>5 DEF RoadStep, GetMove, RoadIs
<1>2. ASSUME UNCHANGED <<closedQueue, decided, hand, lost>>
      PROVE  RoadStep /\ QueuesInOrder'
  <2>1. Done' = Done /\ InHand' = InHand /\ Waiting' = Waiting /\ QueuesInOrder'
    BY <1>0, <1>2 DEF Done, InHand, Waiting, QueuesInOrder
  <2> QED
    BY <1>0, <1>2, <2>1 DEF RoadStep, NoMove, RoadIs
<1>3. ASSUME LoopError, loop \notin {"get", "exit"}, UNCHANGED <<closedQueue, decided>>
      PROVE  RoadStep /\ QueuesInOrder'
  <2>1. InHand = {hand} /\ InHand' = {} /\ Lose(hand, "error")
    BY <1>3, Zenon DEF LoopError, PlaceInv, InHand
  <2>2. Done' = Done /\ Waiting' = Waiting /\ QueuesInOrder'
    BY <1>0, <1>3 DEF Done, Waiting, QueuesInOrder
  <2> QED
    BY <1>0, <2>1, <2>2 DEF RoadStep, SettleMove, RoadIs
<1>4. CASE LoopFetch \/ LoopSaveIndicator \/ LoopContext \/ LoopExit
  <2>1. UNCHANGED <<closedQueue, decided>>
    BY <1>4 DEF LoopFetch, LoopSaveIndicator, LoopContext, LoopExit
  <2>2. UNCHANGED <<hand, lost>> \/ (LoopError /\ loop \notin {"get", "exit"})
    BY <1>4 DEF LoopFetch, LoopSaveIndicator, LoopContext, LoopExit, SkipIndicators
  <2> QED
    BY <1>2, <1>3, <2>1, <2>2
<1>5. CASE LoopEvaluate
  <2>1. /\ loop = "llm" /\ hand' = None /\ UNCHANGED <<closedQueue, lost>>
        /\ decided' = Append(decided, hand)
    BY <1>5 DEF LoopEvaluate
  <2>2. hand \in Arrival /\ InHand = {hand} /\ InHand' = {}
    BY <2>1 DEF TypeOK, PlaceInv, InHand
  <2>3. \A t \in Done : t < hand
    BY <2>2 DEF RoadInv, Apart, Before
  <2>4. /\ Done' = Done \cup {hand}
        /\ (\A i, j \in DOMAIN decided : i < j => decided[i] < decided[j])'
    BY <2>1, <2>2, <2>3, DoneAppend
  <2>5. Waiting' = Waiting /\ QueuesInOrder'
    BY <1>0, <2>1, <2>4 DEF Waiting, QueuesInOrder
  <2> QED
    BY <1>0, <2>1, <2>2, <2>4, <2>5 DEF RoadStep, SettleMove, RoadIs
<1> QED
  BY <1>1, <1>4, <1>5 DEF Decider

LEMMA NextMoves ==
    ASSUME TypeOK, PlaceInv, QueuesInOrder, RoadInv, ArrivedInv, [Next]_vars
    PROVE  RoadStep /\ QueuesInOrder'
<1>1. CASE Signal \/ StopAggregator \/ UNCHANGED vars
  <2>1. UNCHANGED <<arrivals, candleQueue, agg, aggMsg, closedQueue, hand, decided, lost>>
    BY <1>1 DEF Signal, StopAggregator, vars, stream, aggVars, loopVars
  <2>2. /\ Done' = Done /\ InHand' = InHand /\ Waiting' = Waiting /\ Held' = Held
        /\ Streamed' = Streamed /\ QueuesInOrder'
    BY <2>1 DEF Done, InHand, Waiting, Held, Streamed, QueuesInOrder
  <2> QED
    BY <2>1, <2>2 DEF RoadStep, NoMove, RoadIs
<1> QED
  BY <1>1, StreamMoves, AggregatorMoves, DeciderMoves DEF Next

-----------------------------------------------------------------------------
(* What a fault costs.                                                     *)

ErrorLost == {x.n : x \in {y \in lost : y.where = "error"}}

\* The candles to be paid for do not become more, or one more by a fault.
CostStep ==
    \/ Unpaid' \subseteq Unpaid /\ faults' = faults
    \/ faults' = faults + 1 /\ \E t : Unpaid' \subseteq Unpaid \cup {t}

LEMMA UnpaidType ==
    ASSUME TypeOK, PlaceInv, ArrivedInv, LossInv
    PROVE  IsFiniteSet(Unpaid) /\ Cardinality(Unpaid) \in Nat
<1>1. Unpaid \subseteq 1 .. Len(arrivals)
  <2>1. \A n \in InHand \cup Waiting : n \in 1 .. Len(arrivals)
    BY ArrivedType DEF OnRoad
  <2>2. \A x \in lost : x.n \in Arrival /\ x.n < Fresh
    BY DEF TypeOK, LossInv
  <2>3. \A n \in Arrival : n < Fresh => n \in 1 .. Len(arrivals)
    BY DEF TypeOK, Arrival, Fresh
  <2> QED
    BY <2>1, <2>2, <2>3 DEF Unpaid, Rowless
<1>2. IsFiniteSet(1 .. Len(arrivals))
  BY FS_Interval DEF TypeOK
<1> QED
  BY <1>1, <1>2, FS_Subset, FS_CardinalityType

LEMMA CostStepKeeps ==
    ASSUME TypeOK, PlaceInv, ArrivedInv, LossInv, CostInv, CostStep
    PROVE  CostInv'
<1>1. /\ IsFiniteSet(Unpaid) /\ Cardinality(Unpaid) \in Nat
      /\ Cardinality(Unpaid) <= faults /\ faults \in Int
  BY UnpaidType, PipelineAssumption DEF CostInv, TypeOK
<1>2. CASE Unpaid' \subseteq Unpaid /\ faults' = faults
  <2>1. Cardinality(Unpaid') <= Cardinality(Unpaid) /\ Cardinality(Unpaid') \in Nat
    BY <1>1, <1>2, FS_Subset, FS_CardinalityType
  <2> QED
    BY <1>1, <1>2, <2>1 DEF CostInv
<1>3. ASSUME faults' = faults + 1, NEW t, Unpaid' \subseteq Unpaid \cup {t}
      PROVE  CostInv'
  <2> DEFINE U == Unpaid \cup {t}
  <2>1. /\ IsFiniteSet(U)
        /\ Cardinality(U) = IF t \in Unpaid THEN Cardinality(Unpaid) ELSE Cardinality(Unpaid) + 1
    BY <1>1, FS_AddElement
  <2>2. Unpaid' \subseteq U
    BY <1>3
  <2> HIDE DEF U
  <2>3. IsFiniteSet(Unpaid') /\ Cardinality(Unpaid') <= Cardinality(U)
    BY <2>1, <2>2, FS_Subset
  <2>4. Cardinality(Unpaid') \in Nat /\ Cardinality(U) \in Nat
    BY <2>1, <2>3, FS_CardinalityType
  <2>5. Cardinality(U) <= Cardinality(Unpaid) + 1
    BY <1>1, <2>1
  <2> QED
    BY <1>1, <1>3, <2>3, <2>4, <2>5 DEF CostInv
<1> QED
  BY <1>2, <1>3 DEF CostStep

\* Losses that are no errors cost nothing.
LEMMA SameErrors ==
    ASSUME UNCHANGED lost \/ (\E t, where : where # "error" /\ Lose(t, where))
    PROVE  ErrorLost' = ErrorLost
<1>1. CASE UNCHANGED lost
  BY <1>1 DEF ErrorLost
<1>2. ASSUME NEW t, NEW where, where # "error", Lose(t, where)
      PROVE  ErrorLost' = ErrorLost
  <2>1. {y \in lost' : y.where = "error"} = {y \in lost : y.where = "error"}
    BY <1>2 DEF Lose
  <2> QED
    BY <2>1 DEF ErrorLost
<1> QED
  BY <1>1, <1>2

\* The history and the table only grow.
LEMMA NextGrows ==
    ASSUME TypeOK, [Next]_vars
    PROVE  /\ \A n \in DOMAIN arrivals : n \in DOMAIN arrivals' /\ arrivals'[n] = arrivals[n]
           /\ candles \subseteq candles' /\ unsaved \subseteq unsaved'
           /\ AggPersist \/ UNCHANGED <<candles, unsaved>>
           /\ (\E c \in DOMAIN passed : CloseUpdate(c)) \/ UNCHANGED arrivals
<1>1. /\ candles \subseteq candles' /\ unsaved \subseteq unsaved'
      /\ AggPersist \/ UNCHANGED <<candles, unsaved>>
  BY DEF Next, Stream, Subscribe, OpenUpdate, CloseUpdate, Aggregator, AggGet, AggCache,
     AggPersist, AggBroadcast, AggExit, Decider, LoopGet, LoopFetch, LoopSaveIndicator,
     LoopContext, LoopEvaluate, LoopExit, Signal, StopAggregator, upstream, rows, vars
<1>2. (\E c \in DOMAIN passed : CloseUpdate(c)) \/ UNCHANGED arrivals
  BY DEF Next, Stream, Subscribe, OpenUpdate, Aggregator, AggGet, AggCache,
     AggPersist, AggBroadcast, AggExit, Decider, LoopGet, LoopFetch, LoopSaveIndicator,
     LoopContext, LoopEvaluate, LoopExit, Signal, StopAggregator, upstream, stream, vars
<1>3. ASSUME NEW a, arrivals' = Append(arrivals, a), NEW n \in DOMAIN arrivals
      PROVE  n \in DOMAIN arrivals' /\ arrivals'[n] = arrivals[n]
  BY <1>3 DEF TypeOK
<1> QED
  BY <1>1, <1>2, <1>3 DEF CloseUpdate

\* Only the aggregator's fan-out brings a close to the loop.
LEMMA NextReachesLoop ==
    ASSUME TypeOK, PlaceInv, QueuesInOrder, RoadInv, ArrivedInv, [Next]_vars
    PROVE  \/ InHand' \cup Waiting' \subseteq InHand \cup Waiting
           \/ /\ AggPersist /\ aggMsg \in Held
              /\ InHand' \cup Waiting' \subseteq InHand \cup Waiting \cup {aggMsg}
<1>1. CASE AggPersist
  <2>1. UNCHANGED hand /\ FanOut /\ Held = {aggMsg}
    BY <1>1 DEF AggPersist, loopVars, PlaceInv, Held
  <2>2. InHand' = InHand
    BY <2>1 DEF InHand
  <2>3. Held' = {} /\ Held # {}
    BY <1>1, <2>1 DEF AggPersist, Held
  <2>4. Waiting' \subseteq Waiting \cup {aggMsg}
    BY <2>1, <2>3, NextMoves
       DEF RoadStep, CloseMove, TakeMove, FanMove, GetMove, SettleMove, NoMove, RoadIs
  <2> QED
    BY <1>1, <2>1, <2>2, <2>4
<1>2. CASE LoopGet
  <2>1. /\ InHand = {} /\ hand' = Head(closedQueue) /\ closedQueue # << >>
        /\ closedQueue' = Tail(closedQueue)
    BY <1>2 DEF LoopGet, PlaceInv, InHand
  <2>2. Waiting' = Waiting \ {Head(closedQueue)} /\ Head(closedQueue) \in Waiting
    BY <2>1, WaitingTail
  <2> QED
    BY <2>1, <2>2 DEF InHand
<1>3. CASE ~AggPersist /\ ~LoopGet
  <2>1. UNCHANGED closedQueue
    BY <1>3 DEF Next, Stream, Subscribe, OpenUpdate, CloseUpdate, Aggregator, AggGet, AggCache,
       AggBroadcast, AggExit, Decider, LoopFetch, LoopSaveIndicator, LoopContext,
       LoopEvaluate, LoopExit, Signal, StopAggregator, vars
  <2>2. UNCHANGED hand \/ hand' = None
    BY <1>3 DEF Next, Stream, Subscribe, OpenUpdate, CloseUpdate, Aggregator, AggGet, AggCache,
       AggBroadcast, AggExit, Decider, LoopFetch, LoopSaveIndicator, LoopContext, SkipIndicators,
       LoopError, LoopEvaluate, LoopExit, Signal, StopAggregator, loopVars, vars
  <2> QED
    BY <2>1, <2>2 DEF InHand, Waiting
<1> QED
  BY <1>1, <1>2, <1>3

\* A close that is with the loop already stays without a row at most.
LEMMA RowlessStays ==
    ASSUME TypeOK, PlaceInv, ArrivedInv, [Next]_vars, NEW n \in InHand \cup Waiting,
           n \in Rowless'
    PROVE  n \in Rowless
<1>1. n \in DOMAIN arrivals
  BY ArrivedType DEF OnRoad
<1> QED
  BY <1>1, NextGrows DEF Rowless, CandleOf

LEMMA NextCosts ==
    ASSUME TypeOK, PlaceInv, QueuesInOrder, RoadInv, ArrivedInv, [Next]_vars
    PROVE  CostStep
<1>0. Unpaid = ErrorLost \cup Rowless /\ Unpaid' = ErrorLost' \cup Rowless'
  BY DEF Unpaid, ErrorLost
<1>1. Rowless' \subseteq InHand' \cup Waiting'
  BY DEF Rowless
<1>2. ASSUME ErrorLost' = ErrorLost, Rowless' \subseteq Rowless,
             UNCHANGED faults \/ faults' = faults + 1
      PROVE  CostStep
  BY <1>0, <1>2 DEF CostStep
<1>3. CASE AggPersist
  <2>1. /\ FanOut /\ UNCHANGED arrivals
        /\ \/ candles' = candles \cup {CandleOf(aggMsg)} /\ UNCHANGED faults
           \/ Fails("save_candle") /\ UNCHANGED candles
    BY <1>3 DEF AggPersist, stream
  <2>2. ErrorLost' = ErrorLost
    <3>1. UNCHANGED lost \/ Lose(aggMsg, "closed")
      BY <2>1, Zenon DEF FanOut
    <3> QED
      BY <3>1, SameErrors
  <2>3. Rowless' \subseteq Rowless \cup {aggMsg}
    BY <1>1, NextReachesLoop, RowlessStays
  <2>4. CASE candles' = candles \cup {CandleOf(aggMsg)} /\ UNCHANGED faults
    <3>1. aggMsg \notin Rowless'
      BY <2>1, <2>4 DEF Rowless, CandleOf
    <3> QED
      BY <1>2, <2>2, <2>3, <2>4, <3>1
  <2>5. CASE Fails("save_candle") /\ UNCHANGED candles
    BY <1>0, <2>2, <2>3, <2>5 DEF CostStep, Fails
  <2> QED
    BY <2>1, <2>4, <2>5
<1>4. ASSUME ~AggPersist
      PROVE  Rowless' \subseteq Rowless
  BY <1>1, <1>4, NextReachesLoop, RowlessStays
<1>5. CASE Stream
  <2>1. UNCHANGED faults /\ ~AggPersist
    BY <1>5 DEF Stream, Subscribe, OpenUpdate, CloseUpdate, AggPersist, aggVars, TypeOK
  <2>2. ErrorLost' = ErrorLost
    <3>1. UNCHANGED lost \/ (\E t, where : where # "error" /\ Lose(t, where))
      <4>1. UNCHANGED lost \/ \E m : Deliver(m)
        BY <1>5 DEF Stream, Subscribe, OpenUpdate, CloseUpdate
      <4> QED
        BY <4>1, DeliverCases
    <3> QED
      BY <3>1, SameErrors
  <2> QED
    BY <1>2, <1>4, <2>1, <2>2
<1>6. CASE \/ AggGet \/ AggCache \/ AggBroadcast \/ AggExit \/ LoopGet \/ LoopEvaluate
           \/ LoopExit \/ Signal \/ StopAggregator \/ UNCHANGED vars
  <2>1. UNCHANGED lost /\ (UNCHANGED faults \/ faults' = faults + 1)
    BY <1>6 DEF AggGet, AggCache, AggBroadcast, AggExit, LoopGet, LoopEvaluate, LoopExit,
       Signal, StopAggregator, vars, Fails
  <2> QED
    BY <1>2, <1>3, <1>4, <2>1, SameErrors
<1>7. CASE LoopFetch \/ LoopSaveIndicator \/ LoopContext
  <2>1. UNCHANGED <<upstream, closedQueue>> /\ loop \notin {"get", "exit"}
    BY <1>7 DEF LoopFetch, LoopSaveIndicator, LoopContext
  <2>2. \/ UNCHANGED <<hand, lost>> /\ (UNCHANGED faults \/ faults' = faults + 1)
        \/ /\ LoopError
           /\ (UNCHANGED faults /\ CandleOf(hand) \notin candles) \/ faults' = faults + 1
    BY <1>7, Zenon DEF LoopFetch, LoopSaveIndicator, LoopContext, SkipIndicators, Fails
  <2>3. UNCHANGED <<candles, arrivals, agg>>
    BY <2>1 DEF upstream, stream, aggVars, rows
  <2>4. Rowless' \subseteq Rowless
    <3>1. InHand' \subseteq InHand /\ Waiting' = Waiting
      BY <2>1, <2>2 DEF LoopError, InHand, Waiting
    <3> QED
      BY <1>1, <3>1, RowlessStays
  <2>5. CASE UNCHANGED lost
    BY <1>2, <2>2, <2>4, <2>5, SameErrors DEF LoopError
  <2>6. CASE LoopError /\ ((UNCHANGED faults /\ CandleOf(hand) \notin candles)
                           \/ faults' = faults + 1)
    <3>1. hand \in InHand /\ Lose(hand, "error")
      BY <2>1, <2>6 DEF LoopError, PlaceInv, InHand
    <3>2. ErrorLost' = ErrorLost \cup {hand}
      <4> DEFINE new == [n |-> hand, where |-> "error"]
      <4>1. lost' = lost \cup {new} /\ new.n = hand /\ new.where = "error"
        BY <3>1 DEF Lose
      <4> HIDE DEF new
      <4>2. {y \in lost' : y.where = "error"} = {y \in lost : y.where = "error"} \cup {new}
        BY <4>1
      <4> QED
        BY <4>1, <4>2 DEF ErrorLost
    <3>3. CandleOf(hand) \notin candles => hand \in Rowless
      BY <3>1 DEF Rowless
    <3> QED
      BY <1>0, <2>4, <2>6, <3>2, <3>3 DEF CostStep
  <2> QED
    BY <2>2, <2>5, <2>6
<1> QED
  BY <1>3, <1>5, <1>6, <1>7 DEF Next, Aggregator, Decider

-----------------------------------------------------------------------------
(* What a connection delivers.                                             *)

LEMMA NextKeepsDelivery ==
    ASSUME TypeOK, DeliveryInv, [Next]_vars
    PROVE  DeliveryInv'
<1>0. /\ passed \in Seq(0 .. LastCandle)
      /\ \A n \in DOMAIN arrivals : n \in Int /\ arrivals[n].t \in Int
      /\ \A c \in DOMAIN passed : passed[c] \in Int
  <2>1. \A n \in DOMAIN arrivals : arrivals[n] \in [t : Candle, by : 1 .. MaxConnections]
    BY SeqElement DEF TypeOK
  <2>2. \A c \in DOMAIN passed : passed[c] \in 0 .. LastCandle
    BY SeqElement DEF TypeOK
  <2> QED
    BY <2>1, <2>2, PipelineAssumption DEF TypeOK, Candle
<1>1. CASE Subscribe
  <2>1. PICK x : passed' = Append(passed, x)
    BY <1>1 DEF Subscribe
  <2>2. \A c \in DOMAIN passed : c \in DOMAIN passed' /\ passed'[c] = passed[c]
    BY <1>0, <2>1
  <2> QED
    BY <1>1, <2>2 DEF Subscribe, DeliveryInv
<1>2. ASSUME NEW c \in DOMAIN passed, CloseUpdate(c)
      PROVE  DeliveryInv'
  <2>1. PICK t \in passed[c] + 1 .. LastCandle :
            /\ passed' = [passed EXCEPT ![c] = t]
            /\ arrivals' = Append(arrivals, [t |-> t, by |-> c])
    BY <1>2 DEF CloseUpdate
  <2> DEFINE a == [t |-> t, by |-> c]
             k == Len(arrivals) + 1
  <2>2. /\ DOMAIN arrivals' = DOMAIN arrivals \cup {k} /\ arrivals'[k] = a
        /\ \A n \in DOMAIN arrivals : arrivals'[n] = arrivals[n] /\ n < k
        /\ k \in Int
    BY <2>1 DEF TypeOK
  <2>3. /\ DOMAIN passed' = DOMAIN passed /\ passed'[c] = t
        /\ \A d \in DOMAIN passed : d # c => passed'[d] = passed[d]
        /\ t \in Int /\ passed[c] < t
    BY <1>0, <2>1, PipelineAssumption
  <2>4. a.t = t /\ a.by = c
    OBVIOUS
  <2> HIDE DEF a, k
  <2>5. \A n \in DOMAIN arrivals' :
           arrivals'[n].by \in DOMAIN passed' /\ arrivals'[n].t <= passed'[arrivals'[n].by]
    <3>1. ASSUME NEW n \in DOMAIN arrivals
          PROVE  arrivals[n].by \in DOMAIN passed' /\ arrivals[n].t <= passed'[arrivals[n].by]
      BY <1>0, <2>3 DEF DeliveryInv
    <3>2. a.by \in DOMAIN passed' /\ a.t <= passed'[a.by]
      BY <2>3, <2>4
    <3> QED
      BY <2>2, <3>1, <3>2
  <2>6. ASSUME NEW m \in DOMAIN arrivals', NEW n \in DOMAIN arrivals', m < n,
               arrivals'[m].by = arrivals'[n].by
        PROVE  arrivals'[m].t < arrivals'[n].t
    <3>1. m \in DOMAIN arrivals
      BY <1>0, <2>2, <2>6
    <3>2. CASE n \in DOMAIN arrivals
      BY <2>2, <2>6, <3>1, <3>2 DEF DeliveryInv
    <3>3. CASE n = k
      <4>1. arrivals[m].by = c /\ arrivals[m].t <= passed[c]
        BY <2>2, <2>4, <2>6, <3>1, <3>3 DEF DeliveryInv
      <4> QED
        BY <1>0, <2>2, <2>3, <2>4, <3>1, <3>3, <4>1
    <3> QED
      BY <2>2, <3>2, <3>3
  <2> QED
    BY <2>5, <2>6 DEF DeliveryInv
<1>3. CASE ~Subscribe /\ ~(\E c \in DOMAIN passed : CloseUpdate(c))
  <2>1. UNCHANGED <<passed, arrivals>>
    BY <1>3 DEF Next, Stream, OpenUpdate, Aggregator, AggGet, AggCache,
       AggPersist, AggBroadcast, AggExit, Decider, LoopGet, LoopFetch, LoopSaveIndicator,
       LoopContext, LoopEvaluate, LoopExit, Signal, StopAggregator, upstream, stream, vars
  <2> QED
    BY <2>1 DEF DeliveryInv
<1> QED
  BY <1>1, <1>2, <1>3

-----------------------------------------------------------------------------
(* Indicators.                                                             *)

LEMMA NextKeepsRows ==
    ASSUME TypeOK, PlaceInv, QueuesInOrder, RoadInv, ArrivedInv, RowInv, [Next]_vars
    PROVE  RowInv'
<1>1. ASSUME NEW n \in InHand \cup Waiting
      PROVE  CandleOf(n)' \in candles' \/ n \in unsaved'
  <2>1. n \in DOMAIN arrivals
    BY ArrivedType DEF OnRoad
  <2> QED
    BY <2>1, NextGrows DEF RowInv, CandleOf
<1>2. ASSUME AggPersist
      PROVE  CandleOf(aggMsg) \in candles' \/ aggMsg \in unsaved'
  BY <1>2 DEF AggPersist
<1>3. AggPersist => UNCHANGED arrivals
  BY DEF AggPersist, stream
<1>4. ASSUME NEW n \in InHand' \cup Waiting'
      PROVE  CandleOf(n)' \in candles' \/ n \in unsaved'
  <2>1. n \in InHand \cup Waiting \/ (AggPersist /\ n = aggMsg)
    BY NextReachesLoop
  <2> QED
    BY <1>1, <1>2, <1>3, <2>1 DEF CandleOf
<1> QED
  BY <1>4 DEF RowInv

\* What is known of an indicator that stops short stays true.
LEMMA StillCovers ==
    ASSUME TypeOK, [Next]_vars, IndicatorCoversCandle, UNCHANGED indicators
    PROVE  IndicatorCoversCandle'
<1> SUFFICES ASSUME NEW t \in Candle, indicators[t] # None, indicators[t] < t
             PROVE  \E m, n \in DOMAIN arrivals' :
                        /\ m < n /\ m \in unsaved'
                        /\ arrivals'[m].t = t /\ arrivals'[n].t = t
  BY DEF IndicatorCoversCandle, CandleOf
<1>1. PICK m \in DOMAIN arrivals, n \in DOMAIN arrivals :
          m < n /\ m \in unsaved /\ arrivals[m].t = t /\ arrivals[n].t = t
  BY DEF IndicatorCoversCandle, CandleOf
<1> QED
  BY <1>1, NextGrows

LEMMA NextKeepsWindow ==
    ASSUME TypeOK, PlaceInv, RoadInv, ArrivedInv, RowInv, WindowInv, IndicatorCoversCandle,
           [Next]_vars
    PROVE  WindowInv' /\ IndicatorCoversCandle'
<1>0. /\ candles \subseteq Candle /\ Candle \subseteq Int /\ Arrival \subseteq Int
      /\ loop \notin {"get", "exit"} =>
             /\ InHand = {hand} /\ hand \in Arrival
             /\ hand \in DOMAIN arrivals /\ CandleOf(hand) \in Candle
  <2>1. ASSUME loop \notin {"get", "exit"}
        PROVE  InHand = {hand} /\ hand \in OnRoad
    BY <2>1 DEF PlaceInv, InHand, OnRoad
  <2> QED
    BY <2>1, RoadType, ArrivedType DEF TypeOK, PlaceInv
<1>same. ASSUME UNCHANGED <<loop, hand, window>>, loop = "indicator",
             CandleOf(hand) \in candles
      PROVE  /\ CandleOf(hand)' = CandleOf(hand)
             /\ CandleOf(hand) <= window \/ SavedLate(hand)'
  <2>1. CandleOf(hand)' = CandleOf(hand)
    BY <1>0, <1>same, NextGrows DEF CandleOf
  <2>2. CASE SavedLate(hand)
    <3>1. PICK n \in DOMAIN arrivals : hand < n /\ CandleOf(n) = CandleOf(hand)
      BY <2>2 DEF SavedLate
    <3>2. n \in DOMAIN arrivals' /\ CandleOf(n)' = CandleOf(n) /\ hand' \in unsaved'
      BY <1>same, <2>2, NextGrows DEF SavedLate, CandleOf
    <3> QED
      BY <1>same, <2>1, <3>1, <3>2 DEF SavedLate
  <2> QED
    BY <1>same, <2>1, <2>2 DEF WindowInv
\* The aggregator saves the candle of an arrival later than the one in hand: if
\* it is the same candle, the upsert of the one in hand failed.
<1>1. CASE AggPersist
  <2>1. /\ UNCHANGED <<loop, hand, window, indicators, arrivals>>
        /\ candles' \subseteq candles \cup {CandleOf(aggMsg)}
    BY <1>1 DEF AggPersist, loopVars, stream
  <2>2. Held = {aggMsg} /\ aggMsg \in OnRoad
    BY <1>1 DEF AggPersist, PlaceInv, Held, OnRoad
  <2>3. aggMsg \in DOMAIN arrivals /\ (loop = "indicator" => hand < aggMsg)
    BY <1>0, <2>2, ArrivedType DEF RoadInv, Apart, Before
  <2>4. ASSUME loop = "indicator", CandleOf(hand) \notin candles, CandleOf(hand) \in candles'
        PROVE  SavedLate(hand)'
    <3>1. CandleOf(hand) = CandleOf(aggMsg) /\ hand \in unsaved
      BY <1>0, <2>1, <2>4 DEF RowInv
    <3>2. hand \in unsaved'
      BY <3>1, NextGrows
    <3> QED
      BY <2>1, <2>3, <2>4, <3>1, <3>2 DEF SavedLate, CandleOf
  <2>5. WindowInv'
    <3>1. CandleOf(hand)' = CandleOf(hand)
      BY <2>1 DEF CandleOf
    <3> QED
      BY <1>same, <2>1, <2>4, <3>1 DEF WindowInv
  <2> QED
    BY <2>1, <2>5, StillCovers
<1>2. CASE LoopFetch
  <2>1. UNCHANGED <<candles, indicators, arrivals>>
    BY <1>2 DEF LoopFetch, upstream, rows, stream
  <2>2. CASE loop' = "indicator"
    <3>1. /\ Cardinality(candles) >= MinCandles /\ window' = Max(candles)
          /\ UNCHANGED hand
      BY <1>2, <2>2 DEF LoopFetch, SkipIndicators, LoopError
    <3>2. Max(candles) \in candles /\ \A y \in candles : Max(candles) >= y
      BY <1>0, <3>1, FetchedIsMax
    <3>3. window' \in Candle /\ \A y \in candles : y <= window'
      BY <1>0, <3>1, <3>2
    <3>4. WindowInv'
      BY <2>1, <3>1, <3>3 DEF WindowInv, CandleOf
    <3> QED
      BY <2>1, <3>4, StillCovers
  <2> QED
    BY <2>1, <2>2, StillCovers DEF WindowInv
<1>3. CASE LoopSaveIndicator
  <2>1. loop = "indicator" /\ loop' # "indicator" /\ UNCHANGED <<unsaved, arrivals>>
    BY <1>3 DEF LoopSaveIndicator, LoopError, upstream, rows, stream
  <2>2. \/ UNCHANGED indicators
        \/ /\ CandleOf(hand) \in candles
           /\ indicators' = [indicators EXCEPT ![CandleOf(hand)] = window]
    BY <1>3 DEF LoopSaveIndicator
  <2>3. ASSUME CandleOf(hand) \in candles,
               indicators' = [indicators EXCEPT ![CandleOf(hand)] = window],
               NEW t \in Candle, indicators'[t] # None, indicators'[t] < t
        PROVE  \E m, n \in DOMAIN arrivals :
                   m < n /\ m \in unsaved /\ CandleOf(m) = t /\ CandleOf(n) = t
    <3>1. CASE t = CandleOf(hand)
      <4>1. indicators'[t] = window /\ window \in Candle
        BY <1>0, <2>1, <2>3, <3>1 DEF TypeOK, WindowInv
      <4>2. ~(CandleOf(hand) <= window)
        BY <1>0, <2>3, <3>1, <4>1
      <4>3. SavedLate(hand)
        BY <2>1, <2>3, <4>2 DEF WindowInv
      <4> QED
        BY <1>0, <2>1, <3>1, <4>3 DEF SavedLate
    <3>2. CASE t # CandleOf(hand)
      <4>1. indicators'[t] = indicators[t]
        BY <2>3, <3>2 DEF TypeOK
      <4> QED
        BY <2>3, <4>1 DEF IndicatorCoversCandle
    <3> QED
      BY <3>1, <3>2
  <2>4. IndicatorCoversCandle'
    <3>1. CASE UNCHANGED indicators
      BY <3>1, StillCovers
    <3>2. CASE /\ CandleOf(hand) \in candles
               /\ indicators' = [indicators EXCEPT ![CandleOf(hand)] = window]
      BY <2>1, <2>3, <3>2 DEF IndicatorCoversCandle, CandleOf
    <3> QED
      BY <2>2, <3>1, <3>2
  <2> QED
    BY <2>1, <2>4 DEF WindowInv
<1>4. CASE LoopGet \/ LoopContext \/ LoopEvaluate \/ LoopExit
  <2>1. loop' # "indicator" /\ UNCHANGED indicators
    BY <1>4 DEF LoopGet, LoopContext, LoopEvaluate, LoopExit, LoopError
  <2> QED
    BY <2>1, StillCovers DEF WindowInv
<1>5. CASE \/ Stream \/ AggGet \/ AggCache \/ AggBroadcast \/ AggExit
           \/ Signal \/ StopAggregator \/ UNCHANGED vars
  <2>1. UNCHANGED <<loop, hand, window, candles, indicators>>
    BY <1>5 DEF Stream, Subscribe, OpenUpdate, CloseUpdate, AggGet, AggCache, AggBroadcast,
       AggExit, Signal, StopAggregator, vars, loopVars, rows
  <2>2. WindowInv'
    <3>1. loop = "indicator" => CandleOf(hand)' = CandleOf(hand)
      BY <1>0, <2>1, NextGrows DEF CandleOf
    <3> QED
      BY <1>same, <2>1, <3>1 DEF WindowInv
  <2> QED
    BY <2>1, <2>2, StillCovers
<1> QED
  BY <1>1, <1>2, <1>3, <1>4, <1>5 DEF Next, Aggregator, Decider

-----------------------------------------------------------------------------
(* The theorems.                                                           *)

LEMMA InvariantHolds == Spec => []IInv
<1>1. Init => IInv
  BY InitIInv
<1>2. IInv /\ [Next]_vars => IInv'
  <2> SUFFICES ASSUME IInv, [Next]_vars
               PROVE  IInv'
    OBVIOUS
  <2>1. TypeOK' /\ PlaceInv'
    BY NextKeepsType DEF IInv
  <2>2. RoadStep /\ QueuesInOrder'
    BY NextMoves DEF IInv
  <2>3. RoadInv' /\ ArrivedInv' /\ LossInv'
    BY <2>2, RoadStepKeeps DEF IInv
  <2>4. DeliveryInv' /\ RowInv'
    BY NextKeepsDelivery, NextKeepsRows DEF IInv
  <2>5. WindowInv' /\ IndicatorCoversCandle'
    BY NextKeepsWindow DEF IInv
  <2>6. CostInv'
    BY NextCosts, CostStepKeeps DEF IInv
  <2> QED
    BY <2>1, <2>2, <2>3, <2>4, <2>5, <2>6 DEF IInv
<1> QED
  BY <1>1, <1>2, PTL DEF Spec

-----------------------------------------------------------------------------
(* The fate of a close.                                                    *)

\* The variables of CandleFates that the pipeline stands for.
FateOpen  == InHand \cup Waiting \cup Held \cup Streamed
FateLost  == {x.n : x \in lost}
FateOlder(n) == {m \in FateOpen : m < n}

\* The steps of CandleFates, said of them.
FateArrive(t, c) ==
    /\ \A n \in DOMAIN arrivals : arrivals[n].by = c => arrivals[n].t < t
    /\ arrivals' = Append(arrivals, [t |-> t, by |-> c])
    /\ \/ FateOpen' = FateOpen \cup {Len(arrivals) + 1} /\ UNCHANGED FateLost
       \/ FateLost' = FateLost \cup {Len(arrivals) + 1} /\ UNCHANGED FateOpen
    /\ UNCHANGED decided

FateDecide(n) ==
    /\ n \in FateOpen /\ FateOlder(n) = {}
    /\ decided' = Append(decided, n)
    /\ FateOpen' = FateOpen \ {n}
    /\ UNCHANGED <<arrivals, FateLost>>

FateGiveUp(n) ==
    /\ n \in FateOpen
    /\ FateOlder(n) = {} \/ Cardinality(FateOlder(n)) >= ClosedCap
    /\ FateLost' = FateLost \cup {n}
    /\ FateOpen' = FateOpen \ {n}
    /\ UNCHANGED <<arrivals, decided>>

FateStays == UNCHANGED <<arrivals, FateOpen, decided, FateLost>>

LEMMA FateSteps ==
    ASSUME \/ \E t \in 1 .. LastCandle, c \in 1 .. MaxConnections : FateArrive(t, c)
           \/ FateStays
           \/ \E n \in FateOpen : FateDecide(n) \/ FateGiveUp(n)
    PROVE  [Fates!Next]_(Fates!vars)
<1>1. ASSUME NEW t \in 1 .. LastCandle, NEW c \in 1 .. MaxConnections, FateArrive(t, c)
      PROVE  Fates!Next
  <2>1. Fates!Arrive(t, c)
    BY <1>1 DEF FateArrive, Fates!Arrive, FateOpen, FateLost
  <2> QED
    BY <2>1 DEF Fates!Next
<1>2. CASE FateStays
  BY <1>2 DEF FateStays, Fates!vars, FateOpen, FateLost
<1>3. ASSUME NEW n \in FateOpen, FateDecide(n)
      PROVE  Fates!Next
  <2>1. Fates!Decide(n)
    BY <1>3 DEF FateDecide, Fates!Decide, Fates!Older, FateOlder, FateOpen, FateLost
  <2> QED
    BY <2>1 DEF Fates!Next, FateOpen
<1>4. ASSUME NEW n \in FateOpen, FateGiveUp(n)
      PROVE  Fates!Next
  <2>1. Fates!Older(n) = FateOlder(n)
    BY DEF Fates!Older, FateOlder, FateOpen
  <2>2. Fates!Cardinality(FateOlder(n)) = Cardinality(FateOlder(n))
    BY DEF Cardinality, Fates!Cardinality
  <2>3. Fates!GiveUp(n)
    BY <1>4, <2>1, <2>2 DEF FateGiveUp, Fates!GiveUp, FateOpen, FateLost
  <2> QED
    BY <2>3 DEF Fates!Next, FateOpen
<1> QED
  BY <1>1, <1>2, <1>3, <1>4

\* A loss is one close given up, no loss is none.
LEMMA LostClose ==
    /\ UNCHANGED lost => FateLost' = FateLost
    /\ \A n, where : Lose(n, where) => FateLost' = FateLost \cup {n}
<1>1. ASSUME NEW n, NEW where, Lose(n, where)
      PROVE  FateLost' = FateLost \cup {n}
  <2> DEFINE new == [n |-> n, where |-> where]
  <2>1. lost' = lost \cup {new} /\ new.n = n
    BY <1>1 DEF Lose
  <2> HIDE DEF new
  <2> QED
    BY <2>1 DEF FateLost
<1> QED
  BY <1>1 DEF FateLost

\* A connection delivers a candle later than any it delivered before.
LEMMA CloseArrives ==
    ASSUME TypeOK, DeliveryInv, NEW c \in DOMAIN passed, CloseUpdate(c)
    PROVE  /\ c \in 1 .. MaxConnections
           /\ \E t \in 1 .. LastCandle :
                 /\ \A n \in DOMAIN arrivals : arrivals[n].by = c => arrivals[n].t < t
                 /\ arrivals' = Append(arrivals, [t |-> t, by |-> c])
<1>1. /\ passed[c] \in 0 .. LastCandle /\ c \in 1 .. Len(passed) /\ Len(passed) \in Nat
      /\ Len(passed) <= MaxConnections /\ LastCandle \in Nat /\ MaxConnections \in Nat
  BY SeqElement, PipelineAssumption DEF TypeOK
<1>2. PICK t \in passed[c] + 1 .. LastCandle : arrivals' = Append(arrivals, [t |-> t, by |-> c])
  BY DEF CloseUpdate
<1>3. t \in 1 .. LastCandle /\ passed[c] < t
  BY <1>1
<1>4. \A n \in DOMAIN arrivals : arrivals[n].by = c => arrivals[n].t < t
  <2>1. \A n \in DOMAIN arrivals : arrivals[n] \in [t : Candle, by : 1 .. MaxConnections]
    BY SeqElement DEF TypeOK
  <2>2. \A n \in DOMAIN arrivals : arrivals[n].t \in Int
    BY <2>1, PipelineAssumption DEF Candle
  <2> QED
    BY <1>1, <1>3, <2>2 DEF DeliveryInv
<1> QED
  BY <1>1, <1>2, <1>3, <1>4

LEMMA NextIsFate ==
    ASSUME IInv, [Next]_vars
    PROVE  [Fates!Next]_(Fates!vars)
<1> DEFINE Arrived == 1 .. Len(arrivals)
<1>0. /\ InHand \subseteq Arrived /\ Waiting \subseteq Arrived /\ Held \subseteq Arrived
      /\ Streamed \subseteq Arrived /\ Arrived \subseteq Int /\ Fresh \in Int
      /\ IsFiniteSet(Arrived) /\ ClosedCap \in Nat
      /\ TypeOK /\ PlaceInv /\ QueuesInOrder /\ RoadInv /\ ArrivedInv /\ DeliveryInv
  <2>1. TypeOK /\ PlaceInv /\ QueuesInOrder /\ RoadInv /\ ArrivedInv /\ DeliveryInv
    BY DEF IInv
  <2>2. OnRoad \subseteq Arrived
    BY <2>1, ArrivedType
  <2>3. Len(arrivals) \in Nat
    BY <2>1 DEF TypeOK
  <2>4. IsFiniteSet(Arrived) /\ Arrived \subseteq Int
    BY <2>3, FS_Interval
  <2>5. Fresh \in Int /\ ClosedCap \in Nat
    BY <2>3, PipelineAssumption DEF Fresh
  <2> QED
    BY <2>1, <2>2, <2>4, <2>5 DEF OnRoad
<1> HIDE DEF Arrived
<1>1. FateOpen' = InHand' \cup Waiting' \cup Held' \cup Streamed'
  BY DEF FateOpen
<1>2. RoadStep
  BY <1>0, NextMoves
\* The loop decides on its close, the oldest on the road.
<1>3. CASE LoopEvaluate
  <2>1. /\ loop = "llm" /\ hand' = None
        /\ decided' = Append(decided, hand)
        /\ UNCHANGED <<arrivals, candleQueue, agg, aggMsg, closedQueue, lost>>
    BY <1>3 DEF LoopEvaluate, upstream, stream, aggVars
  <2>2. /\ hand \in Arrival /\ InHand = {hand} /\ InHand' = {} /\ Waiting' = Waiting
        /\ Held' = Held /\ Streamed' = Streamed
    BY <1>0, <2>1 DEF TypeOK, PlaceInv, InHand, Waiting, Held, Streamed
  <2>3. /\ hand \in FateOpen /\ FateOlder(hand) = {} /\ FateOpen' = FateOpen \ {hand}
    <3>1. hand \in Int
      BY <1>0, <2>2
    <3>2. \A u \in Waiting \cup Held \cup Streamed : hand < u /\ u # hand /\ ~(u < hand)
      BY <1>0, <2>2, <3>1 DEF RoadInv, Apart, Before
    <3> QED
      BY <1>1, <2>2, <3>1, <3>2 DEF FateOpen, FateOlder
  <2>4. FateDecide(hand)
    BY <2>1, <2>3, LostClose DEF FateDecide
  <2> QED
    BY <2>3, <2>4, FateSteps
<1>4. CASE ~LoopEvaluate
  <2>1. UNCHANGED decided
    BY <1>4 DEF Next, Stream, Subscribe, OpenUpdate, CloseUpdate, Aggregator, AggGet, AggCache,
       AggPersist, AggBroadcast, AggExit, Decider, LoopGet, LoopFetch, LoopSaveIndicator,
       LoopContext, LoopExit, Signal, StopAggregator, vars
  <2>2. Done' = Done
    BY <2>1 DEF Done
  <2>3. CASE CloseMove
    <3>1. PICK c \in DOMAIN passed : CloseUpdate(c)
      <4>1. arrivals' # arrivals
        BY <1>0, <2>3 DEF CloseMove, Fresh
      <4> QED
        BY <1>0, <4>1, NextGrows
    <3>2. /\ c \in 1 .. MaxConnections
          /\ \E t \in 1 .. LastCandle :
                /\ \A n \in DOMAIN arrivals : arrivals[n].by = c => arrivals[n].t < t
                /\ arrivals' = Append(arrivals, [t |-> t, by |-> c])
      BY <1>0, <3>1, CloseArrives
    <3>3. \/ FateOpen' = FateOpen \cup {Fresh} /\ UNCHANGED FateLost
          \/ FateLost' = FateLost \cup {Fresh} /\ UNCHANGED FateOpen
      BY <1>1, <2>3, LostClose DEF CloseMove, RoadIs, FateOpen
    <3>4. \E t \in 1 .. LastCandle : FateArrive(t, c)
      BY <2>1, <3>2, <3>3 DEF FateArrive, Fresh
    <3> QED
      BY <3>2, <3>4, FateSteps
  <2>4. CASE TakeMove \/ GetMove \/ NoMove
    <3>1. FateOpen' = FateOpen /\ UNCHANGED <<arrivals, lost>>
      BY <1>1, <2>4 DEF TakeMove, GetMove, NoMove, RoadIs, FateOpen
    <3> QED
      BY <2>1, <3>1, LostClose, FateSteps DEF FateStays
  <2>5. CASE FanMove
    <3>1. PICK t \in Held :
            /\ Held = {t} /\ UNCHANGED arrivals
            /\ \/ RoadIs(Done, InHand, Waiting \cup {t}, {}, Streamed) /\ UNCHANGED lost
               \/ /\ RoadIs(Done, InHand, Waiting, {}, Streamed) /\ Lose(t, "closed")
                  /\ Cardinality(Waiting) >= ClosedCap
      BY <2>5 DEF FanMove
    <3>2. CASE RoadIs(Done, InHand, Waiting \cup {t}, {}, Streamed) /\ UNCHANGED lost
      <4>1. FateOpen' = FateOpen
        BY <1>1, <3>1, <3>2 DEF RoadIs, FateOpen
      <4> QED
        BY <2>1, <3>1, <3>2, <4>1, LostClose, FateSteps DEF FateStays
    <3>3. CASE /\ RoadIs(Done, InHand, Waiting, {}, Streamed) /\ Lose(t, "closed")
               /\ Cardinality(Waiting) >= ClosedCap
      <4>1. t \in FateOpen /\ FateOpen' = FateOpen \ {t}
        BY <1>0, <1>1, <3>1, <3>3 DEF RoadIs, FateOpen, RoadInv, Apart, Before
      <4>2. Waiting \subseteq FateOlder(t) /\ FateOlder(t) \subseteq Arrived
        BY <1>0, <3>1 DEF FateOlder, FateOpen, RoadInv, Apart, Before
      <4>3. IsFiniteSet(FateOlder(t)) /\ Cardinality(Waiting) <= Cardinality(FateOlder(t))
            /\ IsFiniteSet(Waiting)
        BY <1>0, <4>2, FS_Subset
      <4>4. Cardinality(Waiting) \in Nat /\ Cardinality(FateOlder(t)) \in Nat
        BY <4>3, FS_CardinalityType
      <4>5. Cardinality(FateOlder(t)) >= ClosedCap
        BY <1>0, <3>3, <4>3, <4>4
      <4>6. FateGiveUp(t)
        BY <2>1, <3>1, <3>3, <4>1, <4>5, LostClose DEF FateGiveUp
      <4> QED
        BY <4>1, <4>6, FateSteps
    <3> QED
      BY <3>1, <3>2, <3>3
  <2>6. CASE SettleMove
    <3>1. ~RoadIs(Done \cup {hand}, {}, Waiting, Held, Streamed)
      BY <1>0, <2>2, <2>6 DEF SettleMove, RoadIs, RoadInv, Apart, Before
    <3>2. /\ InHand = {hand} /\ UNCHANGED arrivals /\ Lose(hand, "error")
          /\ RoadIs(Done, {}, Waiting, Held, Streamed)
      BY <2>6, <3>1 DEF SettleMove
    <3>3. /\ hand \in FateOpen /\ FateOlder(hand) = {} /\ FateOpen' = FateOpen \ {hand}
      <4>1. hand \in Int
        BY <1>0, <3>2
      <4>2. \A u \in Waiting \cup Held \cup Streamed : hand < u /\ u # hand /\ ~(u < hand)
        BY <1>0, <3>2, <4>1 DEF RoadInv, Apart, Before
      <4> QED
        BY <1>1, <3>2, <4>1, <4>2 DEF RoadIs, FateOpen, FateOlder
    <3>4. FateGiveUp(hand)
      BY <2>1, <3>2, <3>3, LostClose DEF FateGiveUp
    <3> QED
      BY <3>3, <3>4, FateSteps
  <2> QED
    BY <1>2, <2>3, <2>4, <2>5, <2>6 DEF RoadStep
<1> QED
  BY <1>3, <1>4

\* The pipeline implements CandleFates: every close that reaches a callback, from
\* any connection, is decided on, oldest first, or given up, at its arrival,
\* behind a full queue of older ones or while it is the oldest, once and for good.
THEOREM PipelineImplementsFates == Spec => ImplementsFates
<1>1. Init => Fates!Init
  <2> SUFFICES ASSUME Init
               PROVE  Fates!Init
    OBVIOUS
  <2>1. InHand = {} /\ Waiting = {} /\ Held = {} /\ Streamed = {}
    BY DEF Init, InHand, Waiting, Held, Streamed
  <2>2. arrivals = << >> /\ decided = << >> /\ lost = {}
    BY DEF Init
  <2> QED
    BY <2>1, <2>2 DEF Fates!Init
<1>2. IInv /\ [Next]_vars => [Fates!Next]_(Fates!vars)
  BY NextIsFate
<1> QED
  BY <1>1, <1>2, InvariantHolds, PTL DEF Spec, ImplementsFates, Fates!Spec

-----------------------------------------------------------------------------
(* What the runs check.                                                    *)

\* The variables of the pipeline keep their types and its two queues their
\* capacities, whatever is dropped and whatever fails.
THEOREM PipelineTypeCorrect == Spec => []TypeOK
<1>1. IInv => TypeOK
  BY DEF IInv
<1> QED
  BY <1>1, InvariantHolds, PTL

\* Closes are decided on in the order in which the callbacks ran, through two
\* bounded queues and two tasks (main.py, aggregator.py); those of one connection
\* hence on ever later candles, and a candle no more often than there are
\* connections subscribed.
THEOREM DecisionsInOrder == Spec => []DecidedInOrder
<1>1. ASSUME IInv
      PROVE  DecidedInOrder
  <2>1. /\ TypeOK /\ PlaceInv /\ ArrivedInv /\ QueuesInOrder /\ DeliveryInv /\ RoadInOrder
    BY <1>1, RoadOrder DEF IInv
  <2>2. \A i \in DOMAIN decided : decided[i] \in DOMAIN arrivals /\ i \in Int
    <3>1. \A i \in DOMAIN decided : decided[i] \in OnRoad /\ i \in Int
      BY <2>1 DEF OnRoad, Done, TypeOK
    <3> QED
      BY <2>1, <3>1, ArrivedType
  <2>3. ASSUME NEW i \in DOMAIN decided, NEW j \in DOMAIN decided, i < j,
               arrivals[decided[i]].by = arrivals[decided[j]].by
        PROVE  arrivals[decided[i]].t < arrivals[decided[j]].t
    BY <2>1, <2>2, <2>3 DEF QueuesInOrder, DeliveryInv
  <2>4. ASSUME NEW t \in Candle
        PROVE  Cardinality({i \in DOMAIN decided : CandleOf(decided[i]) = t}) <= Len(passed)
    <3> DEFINE S == {i \in DOMAIN decided : CandleOf(decided[i]) = t}
               C == 1 .. Len(passed)
               f == [i \in S |-> arrivals[decided[i]].by]
    <3>1. f \in [S -> C] /\ DOMAIN f = S
      <4>1. \A i \in S : arrivals[decided[i]].by \in DOMAIN passed
        BY <2>1, <2>2 DEF DeliveryInv
      <4>2. DOMAIN passed = C
        BY <2>1 DEF TypeOK
      <4> QED
        BY <4>1, <4>2
    <3>2. ASSUME NEW i \in S, NEW j \in S, f[i] = f[j]
          PROVE  i = j
      <4>1. /\ i \in DOMAIN decided /\ j \in DOMAIN decided
            /\ arrivals[decided[i]].by = arrivals[decided[j]].by
            /\ arrivals[decided[i]].t = t /\ arrivals[decided[j]].t = t
        BY <3>2 DEF CandleOf
      <4>2. ~(t < t)
        BY PipelineAssumption DEF Candle
      <4>3. ~(i < j) /\ ~(j < i)
        BY <2>3, <4>1, <4>2
      <4> QED
        BY <2>2, <4>1, <4>3
    <3>3. f \in Injection(S, C)
      <4> HIDE DEF f, S, C
      <4> QED
        BY <3>1, <3>2 DEF Injection, IsInjective
    <3>4. Len(passed) \in Nat
      BY <2>1 DEF TypeOK
    <3>5. IsFiniteSet(C) /\ Cardinality(C) = Len(passed)
      <4> DEFINE k == Len(passed)
      <4>1. /\ IsFiniteSet(1 .. k)
            /\ Cardinality(1 .. k) = IF 1 > k THEN 0 ELSE k - 1 + 1
        BY <3>4, FS_Interval
      <4> HIDE DEF k
      <4> QED
        BY <3>4, <4>1 DEF k
    <3> HIDE DEF f, S, C
    <3>6. Cardinality(S) <= Cardinality(C)
      BY <3>3, <3>5, FS_Injection
    <3> QED
      BY <3>5, <3>6 DEF S
  <2> QED
    BY <2>1, <2>3, <2>4 DEF DecidedInOrder
<1> QED
  BY <1>1, InvariantHolds, PTL

\* An indicator row reaches its own candle: the aggregator saves before it
\* queues (aggregator.py), the loop reads after it took (indicators.py).  Where
\* it does not, the upsert of one delivery of the candle failed and that of a
\* later one made its row in between.
THEOREM IndicatorsCover == Spec => []IndicatorCoversCandle
<1>1. IInv => IndicatorCoversCandle
  BY DEF IInv
<1> QED
  BY <1>1, InvariantHolds, PTL

\* A close that reached a callback is on the road or was lost in exactly one
\* place (not parsed, a full queue, an error), and errors cost no more of them
\* than there were failed calls.
THEOREM CandlesAccounted == Spec => []NothingVanishes
<1>1. ASSUME IInv
      PROVE  NothingVanishes
  <2>0. DOMAIN arrivals = 1 .. Fresh - 1
    BY <1>1 DEF IInv, TypeOK, Fresh
  <2>1. ASSUME NEW t \in 1 .. Fresh - 1
        PROVE  LET losses == {x \in lost : x.n = t}
               IN  IF t \in OnRoad THEN losses = {} ELSE Cardinality(losses) = 1
    <3> DEFINE losses == {x \in lost : x.n = t}
    <3>1. CASE t \in OnRoad
      BY <1>1, <3>1 DEF IInv, LossInv
    <3>2. CASE t \notin OnRoad
      <4>1. PICK x \in lost : x.n = t
        BY <1>1, <3>2 DEF IInv, LossInv
      <4>2. losses = {x}
        BY <1>1, <4>1 DEF IInv, LossInv
      <4> QED
        BY <3>2, <4>2, FS_Singleton
    <3> QED
      BY <3>1, <3>2
  <2> DEFINE errors == {x \in lost : x.where = "error"}
             f == [x \in errors |-> x.n]
  <2>2. IsFiniteSet(Unpaid) /\ Cardinality(Unpaid) \in Nat /\ Cardinality(Unpaid) <= faults
    BY <1>1, UnpaidType DEF IInv, CostInv
  <2>3. f \in [errors -> Unpaid]
    BY DEF Unpaid
  <2>4. \A x, y \in errors : f[x] = f[y] => x = y
    BY <1>1 DEF IInv, LossInv
  <2>5. f \in Injection(errors, Unpaid)
    <3>1. DOMAIN f = errors
      OBVIOUS
    <3> HIDE DEF f
    <3> QED
      BY <2>3, <2>4, <3>1 DEF Injection, IsInjective
  <2> HIDE DEF f, errors
  <2>6. IsFiniteSet(errors) /\ Cardinality(errors) <= Cardinality(Unpaid)
    BY <2>2, <2>5, FS_Injection
  <2>7. Cardinality(errors) \in Nat /\ faults \in Int
    BY <1>1, <2>6, FS_CardinalityType, PipelineAssumption DEF IInv, TypeOK
  <2>8. Cardinality(errors) <= faults
    BY <2>2, <2>6, <2>7
  <2> QED
    BY <2>0, <2>1, <2>8 DEF NothingVanishes, errors
<1> QED
  BY <1>1, InvariantHolds, PTL
=============================================================================
