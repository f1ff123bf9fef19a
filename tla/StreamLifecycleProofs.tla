------------------------ MODULE StreamLifecycleProofs ------------------------
(***************************************************************************)
(* Proofs about StreamLifecycle.                                           *)
(*                                                                         *)
(* PriceInv: the waiting updates of a symbol ascend from its cache entry   *)
(* to the newest one taken, which waits unless the cache has it.  BnInv:   *)
(* as long as nobody has stopped it, the client in the field is the last   *)
(* one made, and each one before it cost a failed call; after stop() no    *)
(* client is made, so a connection that is open with the field empty was   *)
(* being opened when stop() came, or could not be closed.                  *)
(* DelayInv: the delay in hand is the one the number of unhealthy          *)
(* connections in a row gives, before each pause and after it.             *)
(***************************************************************************)
EXTENDS StreamLifecycle, FiniteSetTheorems, SequenceTheorems, WellFoundedInduction, TLAPS

-----------------------------------------------------------------------------
(* The Polymarket stream and its collector.                                *)

\* The waiting updates of symbol s.
Waiting(s) == {i \in DOMAIN priceQueue : priceQueue[i].symbol = s}

PriceInv ==
    \A s \in PmSymbol :
        /\ taken[s] <= sent
        /\ Waiting(s) = {} => cache[s] = taken[s]
        /\ Waiting(s) # {} => \E i \in Waiting(s) : priceQueue[i].n = taken[s]
        /\ \A i \in Waiting(s) :
              /\ cache[s] < priceQueue[i].n /\ priceQueue[i].n <= taken[s]
              /\ \A j \in Waiting(s) : i < j => priceQueue[i].n < priceQueue[j].n

PmInv == PmTypeOK /\ PriceInv

LEMMA InitPmInv == PmInit => PmInv
  <1> SUFFICES ASSUME PmInit PROVE PmInv
    OBVIOUS
  <1>0. << >> \in Seq(PriceUpdate) /\ DOMAIN priceQueue = {}
    BY EmptySeq, LenProperties DEF PmInit
  <1>1. PmTypeOK
    <2>1. delay \in BaseDelay .. MaxDelay
      BY PolymarketAssumption DEF PmInit
    <2> QED  BY <1>0, <2>1 DEF PmInit, PmTypeOK
  <1>2. \A s \in PmSymbol : Waiting(s) = {}
    BY <1>0 DEF Waiting
  <1> QED  BY <1>1, <1>2 DEF PmInit, PmInv, PriceInv

LEMMA PutKeeps ==
    ASSUME PmInv, NEW s \in PmSymbol, PutPrice(s, sent'), sent' = sent + 1, UNCHANGED cache
    PROVE  /\ priceQueue' \in Seq(PriceUpdate)
           /\ taken' \in [PmSymbol -> Nat]
           /\ PriceInv'
  <1>1. PmTypeOK /\ PriceInv /\ sent \in Nat
    BY DEF PmInv, PmTypeOK
  <1>2. CASE UNCHANGED <<priceQueue, taken>>
    BY <1>1, <1>2 DEF PmTypeOK, PriceInv, Waiting
  <1>3. CASE /\ priceQueue' = Append(priceQueue, [symbol |-> s, n |-> sent'])
             /\ taken' = [taken EXCEPT ![s] = sent']
    <2> DEFINE u == [symbol |-> s, n |-> sent + 1]
               l == Len(priceQueue)
    <2>1. priceQueue \in Seq(PriceUpdate) /\ u \in PriceUpdate /\ priceQueue' = Append(priceQueue, u)
      BY <1>1, <1>3 DEF PmTypeOK, PriceUpdate
    <2>2. /\ priceQueue' \in Seq(PriceUpdate)
          /\ l \in Nat /\ DOMAIN priceQueue = 1 .. l /\ DOMAIN priceQueue' = 1 .. (l + 1)
          /\ \A i \in 1 .. l : priceQueue'[i] = priceQueue[i]
          /\ priceQueue'[l + 1] = u
      BY <2>1
    <2>3. taken' \in [PmSymbol -> Nat] /\ taken'[s] = sent + 1
          /\ \A r \in PmSymbol : r # s => taken'[r] = taken[r]
      BY <1>1, <1>3 DEF PmTypeOK
    <2>4. \A i \in 1 .. l : priceQueue[i].n \in Nat
      <3> SUFFICES ASSUME NEW i \in 1 .. l PROVE priceQueue[i].n \in Nat
        OBVIOUS
      <3>1. priceQueue[i] \in PriceUpdate
        BY <2>1, ElementOfSeq
      <3> QED  BY <3>1 DEF PriceUpdate
    <2> HIDE DEF l
    <2>5. ASSUME NEW r \in PmSymbol
          PROVE  Waiting(r)' = IF r = s THEN Waiting(r) \cup {l + 1} ELSE Waiting(r)
      BY <2>2 DEF Waiting
    <2>6. \A r \in PmSymbol : Waiting(r) \subseteq 1 .. l
      BY <2>2 DEF Waiting
    <2>7. cache \in [PmSymbol -> Nat] /\ taken \in [PmSymbol -> Nat]
      BY <1>1 DEF PmTypeOK
    <2>8. ASSUME NEW r \in PmSymbol
          PROVE  /\ taken'[r] <= sent'
                 /\ Waiting(r)' = {} => cache'[r] = taken'[r]
                 /\ Waiting(r)' # {} => \E i \in Waiting(r)' : priceQueue'[i].n = taken'[r]
                 /\ \A i \in Waiting(r)' :
                      /\ cache'[r] < priceQueue'[i].n /\ priceQueue'[i].n <= taken'[r]
                      /\ \A j \in Waiting(r)' : i < j => priceQueue'[i].n < priceQueue'[j].n
      <3>0. /\ taken[r] <= sent
            /\ Waiting(r) = {} => cache[r] = taken[r]
            /\ Waiting(r) # {} => \E i \in Waiting(r) : priceQueue[i].n = taken[r]
            /\ \A i \in Waiting(r) :
                  /\ cache[r] < priceQueue[i].n /\ priceQueue[i].n <= taken[r]
                  /\ \A j \in Waiting(r) : i < j => priceQueue[i].n < priceQueue[j].n
        BY <1>1 DEF PriceInv
      <3>1. CASE r # s
        BY <1>1, <2>2, <2>3, <2>5, <2>6, <2>7, <3>0, <3>1
      <3>2. CASE r = s
        <4>1. cache[r] <= sent
          BY <1>1, <2>4, <2>6, <2>7, <3>0
        <4>2. Waiting(r)' = Waiting(r) \cup {l + 1} /\ l + 1 \notin Waiting(r)
          BY <2>2, <2>5, <2>6, <3>2
        <4>3. \A i \in Waiting(r) : priceQueue'[i] = priceQueue[i] /\ i < l + 1 /\ priceQueue[i].n \in Nat
          BY <2>2, <2>4, <2>6
        <4>4. priceQueue'[l + 1].n = sent + 1 /\ taken'[r] = sent + 1
          BY <2>2, <2>3, <3>2
        <4> HIDE DEF u, Waiting
        <4>5. \A i \in Waiting(r)' : cache'[r] < priceQueue'[i].n /\ priceQueue'[i].n <= taken'[r]
          BY <1>1, <2>7, <3>0, <4>1, <4>2, <4>3, <4>4
        <4>6. \A i, j \in Waiting(r)' : i < j => priceQueue'[i].n < priceQueue'[j].n
          <5> SUFFICES ASSUME NEW i \in Waiting(r)', NEW j \in Waiting(r)', i < j
                       PROVE  priceQueue'[i].n < priceQueue'[j].n
            OBVIOUS
          <5>1. i \in Waiting(r)
            BY <2>2, <2>6, <4>2, <4>3
          <5>2. CASE j = l + 1
            <6>1. priceQueue'[i].n <= taken[r] /\ taken[r] <= sent /\ priceQueue'[i].n \in Nat
              BY <3>0, <4>3, <5>1
            <6> QED  BY <1>1, <2>7, <4>4, <5>2, <6>1
          <5>3. CASE j \in Waiting(r)
            BY <3>0, <4>3, <5>1, <5>3
          <5> QED  BY <4>2, <5>2, <5>3
        <4> QED  BY <1>1, <4>2, <4>4, <4>5, <4>6
      <3> QED  BY <3>1, <3>2
    <2> QED  BY <2>2, <2>3, <2>8 DEF PriceInv
  <1> QED  BY <1>2, <1>3 DEF PutPrice

LEMMA CollectKeeps == ASSUME PmInv, Collect PROVE PmInv'
  <1> DEFINE u == Head(priceQueue)
             l == Len(priceQueue)
  <1>1. PmTypeOK /\ PriceInv
    BY DEF PmInv
  <1>2. /\ priceQueue \in Seq(PriceUpdate) /\ priceQueue # << >>
        /\ cache' = [cache EXCEPT ![u.symbol] = u.n]
        /\ priceQueue' = Tail(priceQueue)
        /\ UNCHANGED <<pmLocal, pmStopped, collector, sent, taken>>
    BY <1>1 DEF PmTypeOK, Collect
  <1>3. /\ u \in PriceUpdate /\ u = priceQueue[1]
        /\ l \in Nat \ {0} /\ DOMAIN priceQueue = 1 .. l
        /\ priceQueue' \in Seq(PriceUpdate) /\ DOMAIN priceQueue' = 1 .. (l - 1)
        /\ \A i \in 1 .. (l - 1) : priceQueue'[i] = priceQueue[i + 1]
    BY <1>2
  <1>4. \A i \in 1 .. l : priceQueue[i].n \in Nat /\ priceQueue[i].symbol \in PmSymbol
    <2> SUFFICES ASSUME NEW i \in 1 .. l
                 PROVE  priceQueue[i].n \in Nat /\ priceQueue[i].symbol \in PmSymbol
      OBVIOUS
    <2>1. priceQueue[i] \in PriceUpdate
      BY <1>2, ElementOfSeq
    <2> QED  BY <2>1 DEF PriceUpdate
  <1>5. u.symbol \in PmSymbol /\ u.n \in Nat
    BY <1>3 DEF PriceUpdate
  <1>6. /\ cache' \in [PmSymbol -> Nat]
        /\ \A r \in PmSymbol : cache'[r] = IF r = u.symbol THEN u.n ELSE cache[r]
    BY <1>1, <1>2, <1>5 DEF PmTypeOK
  <1>7. PmTypeOK'
    BY <1>1, <1>2, <1>3, <1>6 DEF PmTypeOK, pmLocal
  <1> HIDE DEF l
  <1>8. ASSUME NEW r \in PmSymbol
        PROVE  /\ \A i \in Waiting(r)' : i + 1 \in Waiting(r) /\ priceQueue'[i] = priceQueue[i + 1]
               /\ \A i \in Waiting(r) : i # 1 => i - 1 \in Waiting(r)' /\ priceQueue'[i - 1] = priceQueue[i]
               /\ Waiting(r) \subseteq 1 .. l /\ Waiting(r)' \subseteq 1 .. (l - 1)
    BY <1>3 DEF Waiting
  <1>9. \A r \in PmSymbol : 1 \in Waiting(r) <=> r = u.symbol
    BY <1>3 DEF Waiting
  <1>10. cache \in [PmSymbol -> Nat] /\ taken \in [PmSymbol -> Nat]
    BY <1>1 DEF PmTypeOK
  <1>11. ASSUME NEW r \in PmSymbol
         PROVE  /\ Waiting(r)' = {} => cache'[r] = taken[r]
                /\ Waiting(r)' # {} => \E i \in Waiting(r)' : priceQueue'[i].n = taken[r]
                /\ \A i \in Waiting(r)' :
                      /\ cache'[r] < priceQueue'[i].n /\ priceQueue'[i].n <= taken[r]
                      /\ \A j \in Waiting(r)' : i < j => priceQueue'[i].n < priceQueue'[j].n
    <2>0. /\ Waiting(r) = {} => cache[r] = taken[r]
          /\ Waiting(r) # {} => \E i \in Waiting(r) : priceQueue[i].n = taken[r]
          /\ \A i \in Waiting(r) :
                /\ cache[r] < priceQueue[i].n /\ priceQueue[i].n <= taken[r]
                /\ \A j \in Waiting(r) : i < j => priceQueue[i].n < priceQueue[j].n
      BY <1>1 DEF PriceInv
    <2>1. /\ \A i \in Waiting(r)' : i + 1 \in Waiting(r) /\ priceQueue'[i] = priceQueue[i + 1]
          /\ \A i \in Waiting(r) : i # 1 => i - 1 \in Waiting(r)' /\ priceQueue'[i - 1] = priceQueue[i]
          /\ Waiting(r) \subseteq 1 .. l /\ Waiting(r)' \subseteq 1 .. (l - 1)
      BY <1>8
    <2> HIDE DEF Waiting
    <2>2. \A i, j \in Waiting(r)' : i < j => priceQueue'[i].n < priceQueue'[j].n
      BY <1>3, <2>0, <2>1
    <2>3. \A i \in Waiting(r)' : cache'[r] < priceQueue'[i].n /\ priceQueue'[i].n <= taken[r]
      <3> SUFFICES ASSUME NEW i \in Waiting(r)'
                   PROVE  cache'[r] < priceQueue'[i].n /\ priceQueue'[i].n <= taken[r]
        OBVIOUS
      <3>1. i + 1 \in Waiting(r) /\ priceQueue'[i] = priceQueue[i + 1] /\ 1 < i + 1 /\ i \in Nat
        BY <1>3, <2>1
      <3>2. CASE r = u.symbol
        <4>1. 1 \in Waiting(r) /\ cache'[r] = priceQueue[1].n
          BY <1>3, <1>6, <1>9, <3>2
        <4>2. priceQueue[1].n < priceQueue[i + 1].n /\ priceQueue[i + 1].n <= taken[r]
          BY <2>0, <3>1, <4>1
        <4> QED  BY <3>1, <4>1, <4>2
      <3>3. CASE r # u.symbol
        BY <1>6, <2>0, <3>1, <3>3
      <3> QED  BY <3>2, <3>3
    <2>4. Waiting(r)' = {} => cache'[r] = taken[r]
      <3> SUFFICES ASSUME Waiting(r)' = {} PROVE cache'[r] = taken[r]
        OBVIOUS
      <3>1. \A i \in Waiting(r) : i = 1
        BY <2>1
      <3>2. CASE r = u.symbol
        BY <1>3, <1>6, <1>9, <2>0, <3>1, <3>2
      <3>3. CASE r # u.symbol
        BY <1>6, <1>9, <2>0, <3>1, <3>3
      <3> QED  BY <3>2, <3>3
    <2>5. Waiting(r)' # {} => \E i \in Waiting(r)' : priceQueue'[i].n = taken[r]
      <3> SUFFICES ASSUME NEW k \in Waiting(r)'
                   PROVE  \E i \in Waiting(r)' : priceQueue'[i].n = taken[r]
        OBVIOUS
      <3>1. k + 1 \in Waiting(r) /\ k \in Nat /\ k > 0
        BY <1>3, <2>1
      <3>2. PICK i \in Waiting(r) : priceQueue[i].n = taken[r]
        BY <2>0, <3>1
      <3>3. i # 1
        <4> SUFFICES ASSUME i = 1 PROVE FALSE
          OBVIOUS
        <4>1. priceQueue[1].n < priceQueue[k + 1].n /\ priceQueue[k + 1].n <= taken[r]
          BY <2>0, <3>1, <3>2
        <4>2. priceQueue[1].n \in Nat /\ priceQueue[k + 1].n \in Nat /\ taken[r] \in Nat
          BY <1>3, <1>4, <1>10, <2>1, <3>1
        <4> QED  BY <3>2, <4>1, <4>2
      <3> QED  BY <2>1, <3>2, <3>3
    <2> QED  BY <2>2, <2>3, <2>4, <2>5
  <1>12. PriceInv'
    BY <1>1, <1>2, <1>11 DEF PriceInv
  <1> QED  BY <1>7, <1>12 DEF PmInv

LEMMA PmStepKeeps == ASSUME PmInv, PmStep \/ CollectorStops(shutdown) PROVE PmInv'
  <1>1. PmTypeOK /\ PriceInv
    BY DEF PmInv
  <1>2. ASSUME UNCHANGED <<priceQueue, cache, sent, taken>> PROVE PriceInv'
    BY <1>1, <1>2 DEF PriceInv, Waiting
  <1>3. ASSUME EndsCleanly \/ EndsInError
        PROVE  pm' \in {"done", "backoff"} /\ delay' \in BaseDelay .. MaxDelay /\ pauses' \in Nat
    <2>1. BaseDelay \in BaseDelay .. MaxDelay
      BY PolymarketAssumption
    <2> QED  BY <1>1, <1>3, <2>1 DEF EndsCleanly, EndsInError, Pause, PmTypeOK
  <1>4. CASE PmConnect \/ PmSubscribe \/ PmConnectionEnds
    <2>1. UNCHANGED <<pmStopped, priceQueue, cache, collector, sent, taken>>
      BY <1>4 DEF PmConnect, PmSubscribe, PmConnectionEnds
    <2>2. received' \in BOOLEAN
      BY <1>1, <1>4 DEF PmConnect, PmSubscribe, PmConnectionEnds, PmTypeOK
    <2>3. pmEnds' \in Nat
      BY <1>1, <1>4 DEF PmConnect, PmSubscribe, PmConnectionEnds, PmFault, PmTypeOK
    <2>4. /\ pm' \in {"connect", "subscribe", "read", "backoff", "done"}
          /\ delay' \in BaseDelay .. MaxDelay /\ pauses' \in Nat
      BY <1>1, <1>3, <1>4 DEF PmConnect, PmSubscribe, PmConnectionEnds, PmTypeOK
    <2>5. PmTypeOK'
      BY <1>1, <2>1, <2>2, <2>3, <2>4 DEF PmTypeOK
    <2> QED  BY <1>2, <2>1, <2>5 DEF PmInv
  <1>5. CASE PmReceive
    <2>1. CASE UNCHANGED <<priceQueue, sent, taken>>
      BY <1>1, <1>2, <1>5, <2>1 DEF PmReceive, PmInv, PmTypeOK
    <2>2. CASE ~UNCHANGED <<priceQueue, sent, taken>>
      <3>1. PICK s \in PmSymbol : PutPrice(s, sent') /\ sent' = sent + 1
        BY <1>5, <2>2 DEF PmReceive
      <3>2. PriceInv' /\ priceQueue' \in Seq(PriceUpdate) /\ taken' \in [PmSymbol -> Nat]
        BY <1>5, <3>1, PutKeeps DEF PmReceive
      <3>3. received' \in BOOLEAN /\ pm' \in {"read", "done"}
            /\ UNCHANGED <<delay, pmEnds, pauses, pmStopped, cache, collector>>
        BY <1>1, <1>5 DEF PmReceive, PmTypeOK
      <3>4. sent' \in Nat
        BY <1>1, <3>1 DEF PmTypeOK
      <3>5. PmTypeOK'
        BY <1>1, <3>2, <3>3, <3>4 DEF PmTypeOK
      <3> QED  BY <3>2, <3>5 DEF PmInv
    <2> QED  BY <2>1, <2>2
  <1>6. CASE PmWake
    <2>1. LongerDelay \in BaseDelay .. MaxDelay
      BY <1>1, PolymarketAssumption DEF LongerDelay, Smaller, PmTypeOK
    <2>2. PmTypeOK'
      BY <1>1, <1>6, <2>1 DEF PmWake, PmTypeOK
    <2> QED  BY <1>2, <1>6, <2>2 DEF PmWake, PmInv
  <1>7. CASE CollectorStops(shutdown)
    BY <1>1, <1>2, <1>7 DEF CollectorStops, PmInv, PmTypeOK, pmLocal
  <1> QED  BY <1>4, <1>5, <1>6, <1>7, CollectKeeps DEF PmStep

\* Everything outside the stream leaves it alone but for its stop flag.
LEMMA OthersKeepPm ==
    ASSUME PmInv, UNCHANGED <<pmLocal, priceQueue, cache, collector, sent, taken>>,
           pmStopped' \in BOOLEAN
    PROVE  PmInv'
  BY DEF PmInv, PmTypeOK, PriceInv, Waiting, pmLocal

-----------------------------------------------------------------------------
(* The Binance stream.                                                     *)

BnInv ==
    /\ BnTypeOK
    /\ bn = "start" => made = 0
    /\ made <= bnFaults + 1
    /\ bn = "backoff" /\ ~bnStopped => made <= bnFaults
    /\ bn \in {"connect", "subscribe", "wait", "close"} => made > 0
    /\ \A c \in Connection : c > made => streams[c] = 0
    /\ bn = "connect" => streams[made] = 0
    /\ bn = "subscribe" => streams[made] < BnStreams
    /\ bn = "wait" => streams[made] = BnStreams
    /\ bn \in {"connect", "subscribe", "wait"} /\ ~bnStopped => client = made
    /\ bn \in {"subscribe", "wait"} /\ ~bnStopped => made \in open
    /\ bn = "connect" => made \notin open
    /\ ~bnStopped => closing = NoClient
    /\ bnStopped /\ bn = "connect" => early
    /\ ~bnStopped => ~early
    /\ client # made /\ made \in open => early \/ made <= bnFaults

LEMMA InitBnInv == BnInit => BnInv
  <1> SUFFICES ASSUME BnInit PROVE BnInv
    OBVIOUS
  <1>1. BnTypeOK
    <2>1. 0 \in 0 .. BnStreams /\ 0 \in 0 .. MaxBnFaults /\ 0 \in 0 .. MaxBnFaults + 1
      BY BinanceAssumption
    <2> QED  BY <2>1 DEF BnInit, BnTypeOK
  <1>2. \A c \in Connection : streams[c] = 0
    BY DEF BnInit
  <1> QED  BY <1>1, <1>2 DEF BnInit, BnInv

LEMMA BnConnectKeeps == ASSUME BnInv, BnConnect PROVE BnInv'
  <1> USE BinanceAssumption DEF NoClient
  <1>0. BnTypeOK
    BY DEF BnInv
  <1>1. CASE bnStopped
    BY <1>1 DEF BnInv, BnTypeOK, BnConnect
  <1>2. CASE ~bnStopped
    <2>1. made <= bnFaults /\ bnFaults <= MaxBnFaults /\ made \in Nat /\ bnFaults \in Nat
      BY <1>2 DEF BnInv, BnTypeOK, BnConnect
    <2>2. made' = made + 1 /\ client' = made + 1 /\ bn' = "connect"
          /\ UNCHANGED <<bnStopped, closing, open, streams, early, bnFaults>>
      BY <1>2 DEF BnConnect
    <2>3. made + 1 \in Connection /\ made + 1 \notin open
      BY <1>0, <2>1 DEF Connection, BnTypeOK
    <2>4. streams[made + 1] = 0
      BY <2>1, <2>3 DEF BnInv
    <2>5. closing = NoClient
      BY <1>2 DEF BnInv
    <2>6. BnTypeOK'
      BY <1>0, <2>1, <2>2, <2>5 DEF BnTypeOK
    <2> QED  BY <1>0, <1>2, <2>1, <2>2, <2>3, <2>4, <2>5, <2>6 DEF BnInv, BnTypeOK, Connection
  <1> QED  BY <1>1, <1>2

LEMMA BnConnectedKeeps == ASSUME BnInv, BnConnected PROVE BnInv'
  <1> USE BinanceAssumption DEF NoClient
  <1>0. BnTypeOK /\ bn = "connect" /\ made > 0 /\ made \notin open /\ made <= bnFaults + 1
        /\ UNCHANGED <<bnStopped, made, client, closing, streams, early>>
    BY DEF BnInv, BnConnected
  <1>1. CASE open' = open \cup {made} /\ (IF client = NoClient THEN Raises ELSE bn' = "subscribe")
             /\ UNCHANGED bnFaults
    <2>1. client = NoClient => bnStopped
      BY <1>0 DEF BnInv, BnTypeOK
    <2>2. bn' \in {"subscribe", "done"} /\ (client = NoClient => bn' = "done")
      BY <1>1, <2>1 DEF Raises
    <2>3. client # made => early
      BY <1>0 DEF BnInv, BnTypeOK
    <2>4. BnTypeOK'
      BY <1>0, <1>1, <2>2 DEF BnTypeOK
    <2> QED  BY <1>0, <1>1, <2>1, <2>2, <2>3, <2>4 DEF BnInv, BnTypeOK
  <1>2. CASE BnFault /\ Raises /\ UNCHANGED open
    <2>1. BnTypeOK' /\ bnFaults' = bnFaults + 1 /\ bnFaults \in Nat
      BY <1>0, <1>2 DEF BnTypeOK, BnFault, Raises
    <2> QED  BY <1>0, <1>2, <2>1 DEF BnInv, BnTypeOK, BnFault, Raises
  <1> QED  BY <1>1, <1>2 DEF BnConnected

LEMMA BnSubscribeKeeps == ASSUME BnInv, BnSubscribe PROVE BnInv'
  <1> USE BinanceAssumption DEF NoClient
  <1>0. BnTypeOK /\ bn = "subscribe" /\ made > 0 /\ made \in Connection
        /\ made <= bnFaults + 1 /\ bnFaults \in Nat /\ made \in Nat
        /\ UNCHANGED <<bnStopped, made, client, closing, open, early>>
    BY DEF BnInv, BnTypeOK, BnSubscribe, Connection
  <1>1. CASE streams' = [streams EXCEPT ![made] = @ + 1] /\ Subscribed(streams[made] + 1) /\ UNCHANGED bnFaults
    <2>1. streams[made] \in Nat /\ streams[made] < BnStreams
      BY <1>0 DEF BnInv, BnTypeOK
    <2>2. streams' \in [Connection -> 0 .. BnStreams] /\ streams'[made] = streams[made] + 1
          /\ \A c \in Connection : c # made => streams'[c] = streams[c]
      BY <1>0, <1>1, <2>1 DEF BnTypeOK
    <2>3. client = NoClient => bnStopped
      BY <1>0 DEF BnInv, BnTypeOK
    <2>4. \/ bn' = "wait" /\ streams'[made] = BnStreams
          \/ bn' = "subscribe" /\ streams'[made] # BnStreams
          \/ bn' = "done"
      BY <1>0, <1>1, <2>2, <2>3 DEF Subscribed, Raises
    <2>5. BnTypeOK'
      BY <1>0, <1>1, <2>2, <2>4 DEF BnTypeOK
    <2>6. streams'[made] # BnStreams => streams'[made] < BnStreams
      BY <2>1, <2>2
    <2>7. \A c \in Connection : c > made => streams'[c] = 0
      BY <1>0, <2>2 DEF BnInv
    <2> QED  BY <1>0, <1>1, <2>4, <2>5, <2>6, <2>7 DEF BnInv
  <1>2. CASE (BnFault \/ (made \notin open /\ UNCHANGED bnFaults)) /\ Raises /\ UNCHANGED streams
    <2>1. (bnFaults' = bnFaults + 1 /\ bnFaults < MaxBnFaults) \/ (bnStopped /\ bnFaults' = bnFaults)
      BY <1>0, <1>2 DEF BnInv, BnFault
    <2>2. bn' = IF bnStopped THEN "done" ELSE "backoff"
      BY <1>2 DEF Raises
    <2>3. BnTypeOK'
      BY <1>0, <1>2, <2>1, <2>2 DEF BnTypeOK
    <2> QED  BY <1>0, <1>2, <2>1, <2>2, <2>3 DEF BnInv
  <1> QED  BY <1>1, <1>2 DEF BnSubscribe

LEMMA BnClosingKeeps == ASSUME BnInv, BnWakes \/ BnCloses PROVE BnInv'
  <1> USE BinanceAssumption DEF NoClient
  <1>1. CASE BnWakes
    BY <1>1 DEF BnInv, BnTypeOK, BnWakes
  <1>2. CASE BnCloses
    <2>1. BnTypeOK /\ made > 0 /\ made <= bnFaults + 1 /\ bnFaults \in Nat /\ made \in Nat
      BY <1>2 DEF BnInv, BnTypeOK, BnCloses
    <2>2. \/ open' = open \ {made} /\ bnFaults' = bnFaults
          \/ open' = open /\ bnFaults' = bnFaults + 1 /\ bnFaults < MaxBnFaults
      BY <1>2 DEF BnCloses, Closed, BnFault
    <2>3. client' = 0 /\ bn' = "done" /\ UNCHANGED <<bnStopped, made, closing, streams, early>>
      BY <1>2 DEF BnCloses
    <2>4. bnFaults' \in 0 .. MaxBnFaults
      BY <2>1, <2>2 DEF BnTypeOK
    <2>5. open' \subseteq 1 .. made
      BY <2>1, <2>2 DEF BnTypeOK
    <2>6. BnTypeOK'
      BY <2>1, <2>3, <2>4, <2>5 DEF BnTypeOK
    <2> QED  BY <2>1, <2>2, <2>3, <2>6 DEF BnInv
  <1> QED  BY <1>1, <1>2


-----------------------------------------------------------------------------
(* The shutdown.                                                           *)

\* The watcher awaits the closing of the last client made; before it has begun
\* nobody has stopped anything.
WatcherInv ==
    /\ watcher \in {"wait", "close", "done"} /\ shutdown \in BOOLEAN
    /\ watcher = "wait" => ~bnStopped
    /\ watcher = "close" => bnStopped /\ closing = made /\ made > 0

IInv == PmInv /\ BnInv /\ WatcherInv

LEMMA InitIInv == Init => IInv
  BY InitPmInv, InitBnInv DEF Init, IInv, WatcherInv, BnInit

LEMMA PolymarketKeeps == ASSUME IInv, PolymarketStep PROVE IInv'
  <1>1. PmInv'
    BY PmStepKeeps DEF IInv, PolymarketStep
  <1>2. UNCHANGED <<bnVars, shutdown, watcher>>
    BY DEF PolymarketStep
  <1>3. BnInv' /\ WatcherInv'
    BY <1>2 DEF IInv, BnInv, BnTypeOK, WatcherInv, bnVars
  <1> QED  BY <1>1, <1>3 DEF IInv

LEMMA BinanceKeeps == ASSUME IInv, BinanceStep PROVE IInv'
  <1>1. BnInv'
    BY BnConnectKeeps, BnConnectedKeeps, BnSubscribeKeeps, BnClosingKeeps DEF IInv, BinanceStep, BnStep
  <1>2. PmInv'
    BY OthersKeepPm DEF IInv, PmInv, PmTypeOK, BinanceStep, pmVars
  <1>3. WatcherInv'
    <2>1. UNCHANGED <<shutdown, watcher, bnStopped, closing>>
      BY DEF BinanceStep, BnStep, BnConnect, BnConnected, BnSubscribe, BnWakes, BnCloses
    <2>2. bnStopped => made' = made
      BY DEF BinanceStep, BnStep, BnConnect, BnConnected, BnSubscribe, BnWakes, BnCloses
    <2> QED  BY <2>1, <2>2 DEF IInv, WatcherInv
  <1> QED  BY <1>1, <1>2, <1>3 DEF IInv

LEMMA WatcherStopsKeeps == ASSUME IInv, WatcherStops PROVE IInv'
  <1>1. PmInv'
    <2>1. pmStopped' \in BOOLEAN
      BY DEF IInv, PmInv, PmTypeOK, WatcherStops, PmStop
    <2> QED  BY <2>1, OthersKeepPm DEF IInv, WatcherStops
  <1>2. /\ bnStopped' = TRUE /\ closing' = client /\ early' = (bn = "connect")
        /\ UNCHANGED <<bn, made, client, open, streams, bnFaults>>
        /\ watcher = "wait" /\ ~bnStopped
    BY DEF IInv, WatcherInv, WatcherStops, StopBegins
  <1>3. BnTypeOK /\ BnInv
    BY DEF IInv, BnInv
  <1>4. BnTypeOK'
    BY <1>2, <1>3 DEF BnTypeOK
  <1>5. client # made /\ made \in open => made <= bnFaults
    BY <1>2, <1>3 DEF BnInv
  <1>6. BnInv'
    BY <1>2, <1>3, <1>4, <1>5 DEF BnInv
  <1>7. WatcherInv'
    BY <1>2, <1>3 DEF IInv, WatcherInv, WatcherStops, BnTypeOK, NoClient
  <1> QED  BY <1>1, <1>6, <1>7 DEF IInv

LEMMA WatcherEndsKeeps == ASSUME IInv, WatcherEnds PROVE IInv'
  <1> USE BinanceAssumption DEF NoClient
  <1>1. PmInv'
    <2>1. pmStopped' \in BOOLEAN
      BY DEF WatcherEnds, PmStop
    <2> QED  BY <2>1, OthersKeepPm DEF IInv, WatcherEnds
  <1>2. /\ BnTypeOK /\ BnInv /\ bnStopped /\ closing = made
        /\ made <= bnFaults + 1 /\ made \in Nat /\ bnFaults \in Nat
    BY DEF IInv, BnInv, BnTypeOK, WatcherInv, WatcherEnds
  <1>3. \/ open' = open \ {made} /\ bnFaults' = bnFaults
        \/ open' = open /\ bnFaults' = bnFaults + 1 /\ bnFaults < MaxBnFaults
    BY <1>2 DEF WatcherEnds, StopEnds, Closed, BnFault
  <1>4. /\ closing' = 0 /\ client' = 0
        /\ UNCHANGED <<bn, bnStopped, made, streams, early>>
    BY DEF WatcherEnds, StopEnds
  <1>5. bnFaults' \in 0 .. MaxBnFaults
    BY <1>2, <1>3 DEF BnTypeOK
  <1>6. open' \subseteq 1 .. made
    BY <1>2, <1>3 DEF BnTypeOK
  <1>7. BnTypeOK'
    BY <1>2, <1>4, <1>5, <1>6 DEF BnTypeOK
  <1>8. BnInv'
    BY <1>2, <1>3, <1>4, <1>7 DEF BnInv
  <1>9. WatcherInv'
    BY DEF IInv, WatcherInv, WatcherEnds
  <1> QED  BY <1>1, <1>8, <1>9 DEF IInv

LEMMA NextKeepsIInv == IInv /\ [Next]_vars => IInv'
  <1> SUFFICES ASSUME IInv, [Next]_vars PROVE IInv'
    OBVIOUS
  <1>1. CASE Signal \/ UNCHANGED vars
    <2>1. UNCHANGED <<pmVars, bnVars, watcher>> /\ shutdown' \in BOOLEAN
      BY <1>1 DEF Signal, vars, IInv, WatcherInv
    <2>2. PmInv'
      BY <2>1, OthersKeepPm DEF IInv, PmInv, PmTypeOK, pmVars
    <2>3. BnInv' /\ WatcherInv'
      BY <2>1 DEF IInv, BnInv, BnTypeOK, WatcherInv, bnVars
    <2> QED  BY <2>2, <2>3 DEF IInv
  <1> QED  BY <1>1, PolymarketKeeps, BinanceKeeps, WatcherStopsKeeps, WatcherEndsKeeps DEF Next

LEMMA AlwaysIInv == Spec => []IInv
  BY InitIInv, NextKeepsIInv, PTL DEF Spec

\* The types of both streams, the collector and the watcher: the pause stays
\* between its base and its cap, and the client makes at most one connection
\* more than calls of the SDK failed.
THEOREM StreamsTypeCorrect == Spec => []TypeOK
<1>1. IInv => TypeOK
  BY DEF IInv, PmInv, BnInv, WatcherInv, TypeOK
<1> QED  BY <1>1, AlwaysIInv, PTL

\* Between the stream's put_nowait and the collector's cache nothing is lost,
\* overtaken or repeated, for any number of symbols and any queue.
THEOREM CacheFollowsQueue == Spec => []CacheIsCurrent
<1>1. IInv => CacheIsCurrent
  BY DEF IInv, PmInv, PriceInv, Waiting, CacheIsCurrent
<1> QED  BY <1>1, AlwaysIInv, PTL

\* _connect() waits for the stop event only on an open connection that stop()
\* will find, with every stream subscribed.
THEOREM WaitingIsSubscribed == Spec => []WaitsFullySubscribed
<1>1. IInv => WaitsFullySubscribed
  BY DEF IInv, BnInv, WaitsFullySubscribed
<1> QED  BY <1>1, AlwaysIInv, PTL

\* A connection the client has forgotten while it is open is one that a failed
\* call left behind, or the one that was being opened when stop() came.
THEOREM ForgottenConnectionsAreAccounted == Spec => []ConnectionsAccounted
<1>1. IInv => ConnectionsAccounted
  <2> SUFFICES ASSUME IInv PROVE ConnectionsAccounted
    OBVIOUS
  <2> USE DEF NoClient
  <2> DEFINE forgotten == open \ {client}
             most == bnFaults + IF early THEN 1 ELSE 0
             k == IF made = 0 THEN 0
                  ELSE IF client # made /\ made \in open THEN made ELSE made - 1
  <2>1. /\ made \in Nat /\ bnFaults \in Nat /\ made <= bnFaults + 1
        /\ open \subseteq 1 .. made /\ client \in {0, made}
        /\ client # made /\ made \in open => early \/ made <= bnFaults
    BY DEF IInv, BnInv, BnTypeOK
  <2>2. k \in Nat /\ k <= most /\ most \in Nat
    BY <2>1
  <2>3. forgotten \subseteq 1 .. k
    BY <2>1
  <2>4. IsFiniteSet(1 .. k) /\ Cardinality(1 .. k) = k
    <3> HIDE DEF k
    <3>1. 1 .. k # {} => k >= 1
      BY <2>2
    <3> QED  BY <2>2, <3>1, FS_Interval
  <2> HIDE DEF k, most
  <2>5. IsFiniteSet(forgotten) /\ Cardinality(forgotten) <= k
    BY <2>3, <2>4, FS_Subset
  <2>6. Cardinality(forgotten) \in Nat
    BY <2>5, FS_CardinalityType
  <2>7. Cardinality(forgotten) <= most
    BY <2>2, <2>5, <2>6
  <2> QED  BY <2>7 DEF ConnectionsAccounted, most
<1> QED  BY <1>1, AlwaysIInv, PTL

-----------------------------------------------------------------------------
(* The pauses of the Polymarket stream.                                    *)

\* A set of naturals that is not empty has a least member.
LEMMA LeastNatural ==
    ASSUME NEW T, T \subseteq Nat, T # {}
    PROVE  \E n \in T : \A m \in T : n <= m
  <1>1. PICK n \in T : \A m \in T : ~ (<<m, n>> \in OpToRel(<, Nat))
    BY NatLessThanWellFounded, WFMin
  <1>2. ASSUME NEW m \in T PROVE n <= m
    <2>1. ~ (m < n)
      BY <1>1 DEF OpToRel
    <2> QED  BY <2>1
  <1> QED  BY <1>2

\* The powers of two up to the n-th, and the rule they follow.
PowerStep(g, n) == IF n = 0 THEN 1 ELSE 2 * g[n - 1]
PowersUpTo(g, n) == g \in [0 .. n -> Nat] /\ \A i \in 0 .. n : g[i] = PowerStep(g, i)

LEMMA PowersExtend ==
    ASSUME NEW n \in Nat, NEW g, PowersUpTo(g, n)
    PROVE  \E h : PowersUpTo(h, n + 1)
  <1> DEFINE h == [i \in 0 .. n + 1 |-> PowerStep(g, i)]
  <1>1. \A i \in 0 .. n + 1 : PowerStep(g, i) \in Nat
    BY DEF PowersUpTo, PowerStep
  <1>2. h \in [0 .. n + 1 -> Nat]
    BY <1>1
  <1>3. ASSUME NEW i \in 0 .. n + 1 PROVE h[i] = PowerStep(h, i)
    <2>1. CASE i = 0
      BY <2>1 DEF PowerStep
    <2>2. CASE i # 0
      <3>1. i - 1 \in 0 .. n /\ i - 1 \in 0 .. n + 1
        BY <2>2
      <3>2. h[i - 1] = g[i - 1]
        BY <3>1 DEF PowersUpTo
      <3> QED  BY <2>2, <3>2 DEF PowerStep
    <2> QED  BY <2>1, <2>2
  <1> HIDE DEF h
  <1> QED  BY <1>2, <1>3 DEF PowersUpTo

LEMMA PowersExist == \A n \in Nat : \E g : PowersUpTo(g, n)
  <1> DEFINE Bad == {n \in Nat : ~ \E g : PowersUpTo(g, n)}
  <1>1. 0 \notin Bad
    <2>1. PowersUpTo([i \in 0 .. 0 |-> 1], 0)
      BY DEF PowersUpTo, PowerStep
    <2> QED  BY <2>1
  <1>2. Bad = {}
    <2> SUFFICES ASSUME Bad # {} PROVE FALSE
      OBVIOUS
    <2>1. PICK n \in Bad : \A m \in Bad : n <= m
      BY LeastNatural
    <2>2. n \in Nat /\ n # 0
      BY <1>1
    <2>3. n - 1 \in Nat /\ n - 1 \notin Bad
      BY <2>1, <2>2
    <2>4. \E h : PowersUpTo(h, (n - 1) + 1)
      BY <2>3, PowersExtend
    <2>5. (n - 1) + 1 = n
      BY <2>2
    <2> QED  BY <2>4, <2>5
  <1> QED  BY <1>2

\* They agree where they overlap: there is no first place where they do not.
LEMMA PowersAgree ==
    ASSUME NEW n \in Nat, NEW m \in Nat, NEW g, NEW h, PowersUpTo(g, n), PowersUpTo(h, m)
    PROVE  \A i \in 0 .. n : i \in 0 .. m => g[i] = h[i]
  <1> DEFINE Bad == {i \in Nat : i <= n /\ i <= m /\ g[i] # h[i]}
  <1>1. Bad = {}
    <2> SUFFICES ASSUME Bad # {} PROVE FALSE
      OBVIOUS
    <2>1. PICK i \in Bad : \A j \in Bad : i <= j
      BY LeastNatural
    <2>2. g[i] = PowerStep(g, i) /\ h[i] = PowerStep(h, i)
      BY DEF PowersUpTo
    <2>3. i # 0
      BY <2>2 DEF PowerStep
    <2>4. g[i - 1] = h[i - 1]
      BY <2>1, <2>3
    <2> QED  BY <2>2, <2>3, <2>4 DEF PowerStep
  <1> QED  BY <1>1

\* The recursive function has the values its definition says.
LEMMA PowersOfTwo ==
    /\ PowerOfTwo[0] = 1
    /\ \A n \in Nat : PowerOfTwo[n] \in Nat /\ PowerOfTwo[n + 1] = 2 * PowerOfTwo[n]
  <1> DEFINE G(n) == CHOOSE g : PowersUpTo(g, n)
             H == [n \in Nat |-> G(n)[n]]
  <1>1. \A n \in Nat : PowersUpTo(G(n), n)
    BY PowersExist
  <1> HIDE DEF G
  <1>2. \A n \in Nat : H[n] \in Nat
    BY <1>1 DEF PowersUpTo
  <1>3. ASSUME NEW n \in Nat PROVE H[n] = PowerStep(H, n)
    <2>1. G(n)[n] = PowerStep(G(n), n)
      BY <1>1 DEF PowersUpTo
    <2>2. CASE n = 0
      BY <2>1, <2>2 DEF PowerStep
    <2>3. CASE n # 0
      <3>1. n - 1 \in Nat /\ n - 1 \in 0 .. n /\ n - 1 \in 0 .. (n - 1)
        BY <2>3
      <3>2. G(n)[n - 1] = G(n - 1)[n - 1]
        BY <1>1, <3>1, PowersAgree
      <3>3. H[n - 1] = G(n - 1)[n - 1]
        BY <3>1
      <3> QED  BY <2>1, <2>3, <3>2, <3>3 DEF PowerStep
    <2> QED  BY <2>2, <2>3
  <1>4. H = [n \in Nat |-> PowerStep(H, n)]
    BY <1>3
  <1> DEFINE Rule(p) == p = [n \in Nat |-> IF n = 0 THEN 1 ELSE 2 * p[n - 1]]
  <1>5. Rule(H)
    <2> HIDE DEF H
    <2> QED  BY <1>4 DEF PowerStep
  <1> HIDE DEF H
  <1>6. PowerOfTwo = CHOOSE p : Rule(p)
    BY DEF PowerOfTwo
  <1>7. Rule(PowerOfTwo)
    BY <1>5, <1>6
  <1>8. \A n \in Nat : PowerOfTwo[n] = PowerStep(PowerOfTwo, n)
    <2> SUFFICES ASSUME NEW n \in Nat PROVE PowerOfTwo[n] = PowerStep(PowerOfTwo, n)
      OBVIOUS
    <2>1. PowerOfTwo = [m \in Nat |-> PowerStep(PowerOfTwo, m)]
      BY <1>7 DEF PowerStep
    <2>2. [m \in Nat |-> PowerStep(PowerOfTwo, m)][n] = PowerStep(PowerOfTwo, n)
      OBVIOUS
    <2> QED  BY <2>1, <2>2, Zenon
  <1> HIDE DEF Rule
  <1>9. ASSUME NEW n \in Nat PROVE PowerOfTwo[n] \in Nat
    <2> DEFINE Bad == {k \in Nat : PowerOfTwo[k] \notin Nat}
    <2>1. Bad = {}
      <3> SUFFICES ASSUME Bad # {} PROVE FALSE
        OBVIOUS
      <3>1. PICK k \in Bad : \A j \in Bad : k <= j
        BY LeastNatural
      <3>2. PowerOfTwo[k] = PowerStep(PowerOfTwo, k)
        BY <1>8
      <3>3. k # 0
        BY <3>2 DEF PowerStep
      <3>4. PowerOfTwo[k - 1] \in Nat
        BY <3>1, <3>3
      <3> QED  BY <3>2, <3>3, <3>4 DEF PowerStep
    <2> QED  BY <2>1
  <1>10. PowerOfTwo[0] = 1
    BY <1>8 DEF PowerStep
  <1>11. ASSUME NEW n \in Nat PROVE PowerOfTwo[n + 1] = 2 * PowerOfTwo[n]
    <2>1. n + 1 \in Nat /\ n + 1 # 0 /\ (n + 1) - 1 = n
      OBVIOUS
    <2> QED  BY <1>8, <2>1 DEF PowerStep
  <1> QED  BY <1>9, <1>10, <1>11

\* The pause after k unhealthy connections in a row.
Backoff(k) == Smaller(BaseDelay * PowerOfTwo[k], MaxDelay)

DelayInv ==
    /\ pm = "backoff" => pauses \in Nat \ {0} /\ delay = Backoff(pauses - 1)
    /\ pm \notin {"backoff", "done"} => delay = Backoff(pauses)

LEMMA FirstBackoff == Backoff(0) = BaseDelay
  BY PowersOfTwo, PolymarketAssumption DEF Backoff, Smaller

LEMMA NextBackoff ==
    ASSUME NEW k \in Nat \ {0}
    PROVE  Smaller(Backoff(k - 1) * 2, MaxDelay) = Backoff(k)
  <1> DEFINE a == BaseDelay * PowerOfTwo[k - 1]
  <1>1. PowerOfTwo[k - 1] \in Nat /\ PowerOfTwo[k] = 2 * PowerOfTwo[k - 1]
    <2>1. k - 1 \in Nat /\ (k - 1) + 1 = k
      OBVIOUS
    <2> QED  BY <2>1, PowersOfTwo
  <1>2. a \in Nat /\ BaseDelay * PowerOfTwo[k] = 2 * a /\ MaxDelay \in Nat
    BY <1>1, PolymarketAssumption
  <1>3. Backoff(k - 1) = Smaller(a, MaxDelay) /\ Backoff(k) = Smaller(2 * a, MaxDelay)
    BY <1>2 DEF Backoff
  <1> HIDE DEF a
  <1> QED  BY <1>2, <1>3 DEF Smaller

LEMMA PmStepKeepsDelay ==
    ASSUME PmTypeOK, DelayInv, PmStep \/ CollectorStops(shutdown)
    PROVE  DelayInv'
  <1>0. pauses \in Nat /\ pauses + 1 \in Nat \ {0} /\ (pauses + 1) - 1 = pauses /\ 1 \in Nat \ {0} /\ 1 - 1 = 0
    BY DEF PmTypeOK
  <1>1. ASSUME EndsCleanly \/ EndsInError, pm \notin {"backoff", "done"} PROVE DelayInv'
    <2>1. delay = Backoff(pauses)
      BY <1>1 DEF DelayInv
    <2>2. CASE delay' = BaseDelay /\ Pause(1)
      BY <1>0, <2>2, FirstBackoff DEF Pause, DelayInv, Backoff
    <2>3. CASE UNCHANGED delay /\ Pause(pauses + 1)
      BY <1>0, <2>1, <2>3 DEF Pause, DelayInv, Backoff
    <2> QED  BY <1>1, <2>2, <2>3 DEF EndsCleanly, EndsInError
  <1>2. ASSUME pm \notin {"backoff", "done"}, pm' # "backoff", UNCHANGED <<delay, pauses>>
        PROVE  DelayInv'
    BY <1>2 DEF DelayInv, Backoff
  <1>3. CASE PmConnect
    BY <1>1, <1>2, <1>3 DEF PmConnect
  <1>4. CASE PmSubscribe
    BY <1>1, <1>2, <1>4 DEF PmSubscribe
  <1>5. CASE PmConnectionEnds
    BY <1>1, <1>5 DEF PmConnectionEnds
  <1>6. CASE PmReceive
    BY <1>2, <1>6 DEF PmReceive
  <1>7. CASE PmWake
    <2>1. delay = Backoff(pauses - 1) /\ pauses \in Nat \ {0}
      BY <1>7 DEF PmWake, DelayInv
    <2>2. delay' = Backoff(pauses)
      BY <1>7, <2>1, NextBackoff DEF PmWake, LongerDelay
    <2> QED  BY <1>7, <2>2 DEF PmWake, DelayInv, Backoff
  <1>8. CASE Collect \/ CollectorStops(shutdown)
    BY <1>8 DEF Collect, CollectorStops, pmLocal, DelayInv, Backoff
  <1> QED  BY <1>3, <1>4, <1>5, <1>6, <1>7, <1>8 DEF PmStep

LEMMA NextKeepsDelay == IInv /\ DelayInv /\ [Next]_vars => DelayInv'
  <1> SUFFICES ASSUME IInv, DelayInv, [Next]_vars PROVE DelayInv'
    OBVIOUS
  <1>1. CASE PolymarketStep
    BY <1>1, PmStepKeepsDelay DEF PolymarketStep, IInv, PmInv
  <1>2. CASE UNCHANGED pmLocal
    BY <1>2 DEF pmLocal, DelayInv, Backoff
  <1>3. BinanceStep \/ Signal \/ WatcherStops \/ WatcherEnds \/ UNCHANGED vars => UNCHANGED pmLocal
    BY DEF BinanceStep, Signal, WatcherStops, WatcherEnds, vars, pmVars
  <1> QED  BY <1>1, <1>2, <1>3 DEF Next

\* The pauses of the Polymarket stream double from the base to the cap and start
\* again only after a connection that delivered something and ended cleanly
\* (start() and the value _connect() returns), for any base, cap and history.
THEOREM PausesDouble == Spec => []BackoffIsExponential
<1>1. Init => DelayInv
  BY FirstBackoff DEF Init, PmInit, DelayInv
<1>2. DelayInv => BackoffIsExponential
  BY DEF DelayInv, Backoff, BackoffIsExponential
<1> QED  BY <1>1, <1>2, AlwaysIInv, NextKeepsDelay, PTL DEF Spec
=============================================================================
