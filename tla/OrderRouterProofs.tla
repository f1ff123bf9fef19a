-------------------------- MODULE OrderRouterProofs --------------------------
(***************************************************************************)
(* Proofs about OrderRouter.                                               *)
(*                                                                         *)
(* QuantityInv says where every quantity comes from: what is about to be   *)
(* ordered, and what was ordered or refused, is the formatted quantity     *)
(* truncated by a step that is either the exchange's or, after a failed    *)
(* fetch, the fallback.  LedgerInv counts every order on which exchange    *)
(* and table differ, or are about to, against the faults; it needs that    *)
(* the numbers of the calls under way are distinct and fresh, so that a    *)
(* step touches the books of one order only.                               *)
(***************************************************************************)
EXTENDS OrderRouter, FiniteSetTheorems, TLAPS

\* f"{quantity:.6f}" is within half a micro-unit of the quantity.
LEMMA FormattedFacts ==
    ASSUME NEW q \in Nat
    PROVE  /\ Formatted(q) \in Nat
           /\ 10 * Formatted(q) <= q + 5
           /\ q < 10 * Formatted(q) + 5
  BY DEF Formatted

\* _apply_lot_step gives a multiple of the step, at most what it was given and
\* within one step of it; no step leaves the quantity alone.
LEMMA TruncatedFacts ==
    ASSUME NEW n \in Nat, NEW step \in Nat
    PROVE  /\ Truncated(n, step) \in Nat
           /\ Truncated(n, step) <= n
           /\ step = 0 => Truncated(n, step) = n
           /\ step # 0 => /\ n < Truncated(n, step) + step
                          /\ Truncated(n, step) % step = 0
  <1>1. CASE step = 0
    BY <1>1 DEF Truncated
  <1>2. CASE step # 0
    <2> DEFINE k == n \div step
    <2>1. k \in Nat /\ k * step <= n /\ n < k * step + step
      BY <1>2
    <2>2. (k * step) % step = 0
      BY <1>2, <2>1
    <2>3. k * step \in Nat
      BY <2>1
    <2>4. Truncated(n, step) = k * step
      BY <1>2 DEF Truncated
    <2> QED  BY <1>2, <2>1, <2>2, <2>3, <2>4
  <1> QED  BY <1>1, <1>2

Sized(asked, step) == Truncated(Formatted(asked), step)

LEMMA SizedFacts ==
    ASSUME NEW asked \in Nat, NEW step \in Nat
    PROVE  /\ Sized(asked, step) \in Nat
           /\ 10 * Sized(asked, step) <= asked + 5
           /\ asked < 10 * (Sized(asked, step) + step) + 5
           /\ step # 0 => Sized(asked, step) % step = 0
           /\ Sized(asked, step) = 0 => Formatted(asked) = 0 \/ Formatted(asked) < step
  <1> DEFINE n == Formatted(asked)
  <1>1. n \in Nat /\ 10 * n <= asked + 5 /\ asked < 10 * n + 5
    BY FormattedFacts
  <1>2. /\ Truncated(n, step) \in Nat
        /\ Truncated(n, step) <= n
        /\ step = 0 => Truncated(n, step) = n
        /\ step # 0 => n < Truncated(n, step) + step /\ Truncated(n, step) % step = 0
    BY <1>1, TruncatedFacts
  <1>3. Sized(asked, step) = Truncated(n, step)
    BY DEF Sized
  <1> HIDE DEF n
  <1>4. Sized(asked, step) = 0 => n = 0 \/ n < step
    BY <1>1, <1>2, <1>3
  <1> QED  BY <1>1, <1>2, <1>3, <1>4 DEF n

-----------------------------------------------------------------------------
(* Types.                                                                  *)

LEMMA InitTypeOK == Init => TypeOK
  BY OrderAssumption DEF Init, TypeOK

\* The step a symbol's quantity may be truncated by: the exchange's, or "1"
\* after exchange_info has failed.
MayUse(s, step) == step = StepOf[s] \/ (s \in fetchFailed /\ step = Unit)

CallOK(c) ==
    /\ c.pc \in {"step", "order"} => c.symbol \in BinanceSymbol
    /\ c.pc \in {"create", "post"} => c.symbol \notin BinanceSymbol
    /\ c.pc = "order" => c.qty = Sized(c.asked, c.step) /\ MayUse(c.symbol, c.step)

CallInv == \A t \in Task : task[t] # None => CallOK(task[t])

CacheInv ==
    \A s \in BinanceSymbol : stepCache[s] # None => MayUse(s, stepCache[s])

PlacedInv ==
    \A o \in placed : OnBinance(o) =>
        o.qty = Sized(o.asked, o.step) /\ MayUse(o.symbol, o.step)

RefusedInv ==
    \A r \in refused : MayUse(r.symbol, r.step) /\ ~Accepts(r.symbol, Sized(r.asked, r.step))

QuantityInv == TypeOK /\ CallInv /\ CacheInv /\ PlacedInv /\ RefusedInv

LEMMA InitQuantityInv == Init => QuantityInv
  BY InitTypeOK, OrderAssumption
  DEF Init, QuantityInv, CallInv, CallOK, CacheInv, PlacedInv, RefusedInv

\* A task's next call, or the end of its call, and what stays true of the rest.
LEMMA OrdersKeeps ==
    ASSUME QuantityInv, NEW t \in Task, NEW c \in Call, NEW step \in Nat,
           c.symbol \in BinanceSymbol,
           step = StepOf[c.symbol] \/ (c.symbol \in fetchFailed' /\ step = Unit),
           fetchFailed \subseteq fetchFailed',
           Orders(t, c, step)
    PROVE  task' \in [Task -> Call \cup {None}] /\ CallInv'
  <1> DEFINE d == [c EXCEPT !.pc = "order", !.step = step, !.qty = Sized(c.asked, step)]
  <1>1. Sized(c.asked, step) \in Nat
    BY SizedFacts DEF Call
  <1>2. d \in Call /\ d.pc = "order" /\ d.symbol = c.symbol /\ d.step = step
        /\ d.asked = c.asked /\ d.qty = Sized(c.asked, step)
    BY <1>1 DEF Call
  <1>3. task' = [task EXCEPT ![t] = d]
    BY DEF Orders, Sized
  <1>4. task' \in [Task -> Call \cup {None}]
    BY <1>2, <1>3 DEF QuantityInv, TypeOK
  <1>5. CallInv'
    BY <1>2, <1>3 DEF CallInv, CallOK, MayUse, QuantityInv, TypeOK
  <1> QED  BY <1>4, <1>5

LEMMA ExecuteKeeps == ASSUME QuantityInv, NEW t \in Task, Execute(t) PROVE QuantityInv'
  <1> USE OrderAssumption
  <1>1. PICK s \in BinanceSymbol \cup Token, q \in Quantity :
          LET call == [pc |-> "create", id |-> intents', symbol |-> s, asked |-> q, step |-> 0, qty |-> q]
          IN  IF s \in BinanceSymbol
              THEN CacheOrFetch(t, call)
              ELSE task' = [task EXCEPT ![t] = call] /\ UNCHANGED stepCache
    BY DEF Execute
  <1> DEFINE call == [pc |-> "create", id |-> intents', symbol |-> s, asked |-> q, step |-> 0, qty |-> q]
  <1>2. call \in Call /\ intents' \in Nat /\ UNCHANGED <<tables, fetchFailed, faults>>
    BY DEF Execute, Call, QuantityInv, TypeOK
  <1>3. UNCHANGED stepCache /\ task' \in [Task -> Call \cup {None}] /\ CallInv'
    <2>1. CASE s \notin BinanceSymbol
      BY <1>1, <1>2, <2>1 DEF QuantityInv, TypeOK, CallInv, CallOK, MayUse
    <2>2. CASE s \in BinanceSymbol /\ stepCache[s] # None
      <3>1. stepCache[s] \in Nat /\ MayUse(s, stepCache[s])
        BY <2>2 DEF QuantityInv, TypeOK, CacheInv
      <3>2. Orders(t, call, stepCache[s]) /\ UNCHANGED stepCache
        BY <1>1, <2>2 DEF CacheOrFetch
      <3>3. stepCache[s] = StepOf[s] \/ (s \in fetchFailed' /\ stepCache[s] = Unit)
        BY <1>2, <3>1 DEF MayUse
      <3> HIDE DEF call
      <3>4. call.symbol = s
        BY DEF call
      <3> QED  BY <1>2, <2>2, <3>1, <3>2, <3>3, <3>4, OrdersKeeps
    <2>3. CASE s \in BinanceSymbol /\ stepCache[s] = None
      <3>1. task' = [task EXCEPT ![t] = [call EXCEPT !.pc = "step"]] /\ UNCHANGED stepCache
        BY <1>1, <2>3 DEF CacheOrFetch
      <3>2. [call EXCEPT !.pc = "step"] \in Call
        BY <1>2 DEF Call
      <3> QED  BY <1>2, <2>3, <3>1, <3>2 DEF QuantityInv, TypeOK, CallInv, CallOK, MayUse
    <2> QED  BY <2>1, <2>2, <2>3
  <1> QED  BY <1>2, <1>3 DEF QuantityInv, TypeOK, CacheInv, PlacedInv, RefusedInv, MayUse, tables

LEMMA StepAnswersKeeps == ASSUME QuantityInv, NEW t \in Task, StepAnswers(t) PROVE QuantityInv'
  <1> USE OrderAssumption
  <1> DEFINE c == task[t]
             s == task[t].symbol
  <1>1. c \in Call /\ s \in BinanceSymbol
    BY DEF StepAnswers, At, QuantityInv, TypeOK, CallInv, CallOK
  <1>2. PICK step \in {StepOf[s], Unit} :
          /\ stepCache' = [stepCache EXCEPT ![s] = step]
          /\ Orders(t, c, step)
          /\ \/ step = StepOf[s] /\ UNCHANGED <<fetchFailed, faults>>
             \/ step = Unit /\ fetchFailed' = fetchFailed \cup {s} /\ faults' = faults + 1
    BY DEF StepAnswers, Fault
  <1>3. step \in Nat /\ UNCHANGED <<tables, intents>>
    BY <1>1 DEF StepAnswers
  <1>4. fetchFailed \subseteq fetchFailed' /\ fetchFailed' \subseteq BinanceSymbol
    BY <1>1, <1>2 DEF QuantityInv, TypeOK
  <1>5. step = StepOf[s] \/ (s \in fetchFailed' /\ step = Unit)
    BY <1>2
  <1>6. task' \in [Task -> Call \cup {None}] /\ CallInv'
    BY <1>1, <1>2, <1>3, <1>4, <1>5, OrdersKeeps
  <1>7. CacheInv' /\ stepCache' \in [BinanceSymbol -> Nat \cup {None}]
    BY <1>1, <1>2, <1>3, <1>4, <1>5 DEF QuantityInv, TypeOK, CacheInv, MayUse
  <1> QED
    BY <1>2, <1>3, <1>4, <1>6, <1>7
    DEF QuantityInv, TypeOK, PlacedInv, RefusedInv, MayUse, tables

\* A call that goes on without its step and quantity changing, or returns.
LEMMA OthersKeep ==
    ASSUME QuantityInv, NEW t \in Task, task[t] # None,
           \/ Returns(t)
           \/ task' = [task EXCEPT ![t].pc = "post"] /\ task[t].pc = "create"
           \/ Saves(t),
           UNCHANGED fetchFailed
    PROVE  task' \in [Task -> Call \cup {None}] /\ CallInv'
  <1>1. task[t] \in Call
    BY DEF QuantityInv, TypeOK
  <1>2. [task[t] EXCEPT !.pc = "post"] \in Call /\ [task[t] EXCEPT !.pc = "save"] \in Call
    BY <1>1 DEF Call
  <1>3. task' \in [Task -> Call \cup {None}]
    BY <1>2 DEF QuantityInv, TypeOK, Returns, Saves
  <1>4. CallInv'
    <2> SUFFICES ASSUME NEW u \in Task, task'[u] # None PROVE CallOK(task[u])'
      BY DEF CallInv
    <2>1. CASE u # t
      <3>1. task'[u] = task[u]
        BY <2>1 DEF QuantityInv, TypeOK, Returns, Saves
      <3> QED  BY <3>1 DEF QuantityInv, CallInv, CallOK, MayUse
    <2>2. CASE u = t
      <3>1. PICK pc \in {"post", "save"} :
              /\ task'[u] = [task[t] EXCEPT !.pc = pc]
              /\ pc = "post" => task[t].pc = "create"
        BY <2>2 DEF QuantityInv, TypeOK, Returns, Saves
      <3>2. task[t].pc = "create" => task[t].symbol \notin BinanceSymbol
        BY DEF QuantityInv, CallInv, CallOK
      <3>3. task'[u].pc = pc /\ task'[u].symbol = task[t].symbol
        BY <1>1, <3>1 DEF Call
      <3> QED  BY <3>1, <3>2, <3>3 DEF CallOK
    <2> QED  BY <2>1, <2>2
  <1> QED  BY <1>3, <1>4

\* The order the exchange took is the one in hand.
LEMMA TakenKeeps ==
    ASSUME QuantityInv, NEW t \in Task, task[t] # None, task[t].pc \in {"order", "post"},
           Taken(t), UNCHANGED fetchFailed
    PROVE  placed' \subseteq Order /\ PlacedInv'
  <1> DEFINE c == task[t]
             o == [id |-> c.id, symbol |-> c.symbol, asked |-> c.asked, step |-> c.step, qty |-> c.qty]
  <1>1. c \in Call
    BY DEF QuantityInv, TypeOK
  <1>2. o \in Order
    BY <1>1 DEF Call, Order
  <1>3. placed' = placed \cup {o}
    BY DEF Taken
  <1>4. OnBinance(o) => o.qty = Sized(o.asked, o.step) /\ MayUse(o.symbol, o.step)
    BY DEF QuantityInv, CallInv, CallOK, OnBinance
  <1> HIDE DEF o
  <1> QED  BY <1>2, <1>3, <1>4 DEF QuantityInv, TypeOK, PlacedInv, MayUse, OnBinance

LEMMA NewOrderKeeps == ASSUME QuantityInv, NEW t \in Task, NewOrder(t) PROVE QuantityInv'
  <1> DEFINE c == task[t]
  <1>1. /\ c # None /\ c \in Call /\ c.pc = "order" /\ c.symbol \in BinanceSymbol
        /\ c.qty = Sized(c.asked, c.step) /\ MayUse(c.symbol, c.step)
    BY DEF NewOrder, At, QuantityInv, TypeOK, CallInv, CallOK
  <1>2. /\ UNCHANGED <<stepCache, rows, fetchFailed, intents>>
        /\ Returns(t) \/ Saves(t)
        /\ faults' \in Nat
    BY DEF NewOrder, Refused, Fault, QuantityInv, TypeOK
  <1>3. task' \in [Task -> Call \cup {None}] /\ CallInv'
    BY <1>1, <1>2, OthersKeep
  <1>4. placed' \subseteq Order /\ PlacedInv'
    <2>1. CASE Taken(t)
      BY <1>1, <1>2, <2>1, TakenKeeps
    <2>2. CASE UNCHANGED placed
      BY <1>2, <2>2 DEF QuantityInv, TypeOK, PlacedInv, MayUse, OnBinance
    <2> QED  BY <2>1, <2>2 DEF NewOrder
  <1>5. refused' \subseteq [symbol : BinanceSymbol, asked : Nat, step : Nat] /\ RefusedInv'
    <2>1. CASE UNCHANGED refused
      BY <1>2, <2>1 DEF QuantityInv, TypeOK, RefusedInv, MayUse
    <2>2. CASE ~Accepts(c.symbol, c.qty) /\ Refused(t)
      <3> DEFINE r == [symbol |-> c.symbol, asked |-> c.asked, step |-> c.step]
      <3>1. refused' = refused \cup {r}
        BY <2>2 DEF Refused, Refusal
      <3>2. r \in [symbol : BinanceSymbol, asked : Nat, step : Nat]
        BY <1>1 DEF Call
      <3>3. MayUse(r.symbol, r.step) /\ ~Accepts(r.symbol, Sized(r.asked, r.step))
        BY <1>1, <2>2
      <3> HIDE DEF r
      <3> QED  BY <1>2, <3>1, <3>2, <3>3 DEF QuantityInv, TypeOK, RefusedInv, MayUse
    <2> QED  BY <2>1, <2>2 DEF NewOrder
  <1> QED  BY <1>2, <1>3, <1>4, <1>5 DEF QuantityInv, TypeOK, CacheInv, MayUse

LEMMA PolymarketKeeps ==
    ASSUME QuantityInv, NEW t \in Task, CreateOrder(t) \/ PostOrder(t) \/ SaveOrder(t)
    PROVE  QuantityInv'
  <1>1. /\ task[t] # None /\ task[t].pc \in {"create", "post", "save"} /\ task[t] \in Call
        /\ UNCHANGED <<stepCache, refused, fetchFailed, intents>>
        /\ faults' \in Nat
    BY DEF CreateOrder, PostOrder, SaveOrder, At, tables, Fault, QuantityInv, TypeOK
  <1>2. task' \in [Task -> Call \cup {None}] /\ CallInv'
    <2>1. \/ Returns(t)
          \/ task' = [task EXCEPT ![t].pc = "post"] /\ task[t].pc = "create"
          \/ Saves(t)
      BY DEF CreateOrder, PostOrder, SaveOrder, At
    <2> QED  BY <1>1, <2>1, OthersKeep
  <1>3. placed' \subseteq Order /\ PlacedInv'
    <2>1. CASE Taken(t) /\ task[t].pc = "post"
      BY <1>1, <2>1, TakenKeeps
    <2>2. CASE UNCHANGED placed
      BY <1>1, <2>2 DEF QuantityInv, TypeOK, PlacedInv, MayUse, OnBinance
    <2> QED  BY <2>1, <2>2 DEF CreateOrder, PostOrder, SaveOrder, At, tables
  <1>4. rows' \subseteq Nat
    BY <1>1 DEF CreateOrder, PostOrder, SaveOrder, tables, QuantityInv, TypeOK, Call
  <1> QED  BY <1>1, <1>2, <1>3, <1>4 DEF QuantityInv, TypeOK, CacheInv, RefusedInv, MayUse

LEMMA NextKeepsQuantityInv == QuantityInv /\ [Next]_vars => QuantityInv'
  <1> SUFFICES ASSUME QuantityInv, [Next]_vars PROVE QuantityInv'
    OBVIOUS
  <1>1. CASE Next
    BY <1>1, ExecuteKeeps, StepAnswersKeeps, NewOrderKeeps, PolymarketKeeps DEF Next
  <1>2. CASE UNCHANGED vars
    BY <1>2 DEF vars, tables, QuantityInv, TypeOK, CallInv, CallOK, CacheInv, PlacedInv, RefusedInv, MayUse
  <1> QED  BY <1>1, <1>2

LEMMA AlwaysQuantityInv == Spec => []QuantityInv
  BY InitQuantityInv, NextKeepsQuantityInv, PTL DEF Spec

\* The types of all variables: quantities stay naturals through formatting and
\* truncation, by any step.
THEOREM OrdersTypeCorrect == Spec => []TypeOK
<1>1. QuantityInv => TypeOK
  BY DEF QuantityInv
<1> QED  BY <1>1, AlwaysQuantityInv, PTL

\* place_limit_order sends what execute() was asked for, up to half a micro-unit
\* of formatting and less than one lot step of truncation, or less than a unit
\* after a failed fetch of the step.
THEOREM OrdersAreAsAsked == Spec => []OrderedAsAsked
<1>1. QuantityInv => OrderedAsAsked
  <2> SUFFICES ASSUME QuantityInv, NEW o \in placed, OnBinance(o)
               PROVE  LET step == IF o.symbol \in fetchFailed /\ o.step = Unit
                                  THEN Unit ELSE StepOf[o.symbol]
                      IN 10 * o.qty <= o.asked + 5 /\ o.asked < 10 * (o.qty + step) + 5
    BY DEF OrderedAsAsked
  <2>1. o.asked \in Nat /\ o.step \in Nat /\ o.qty = Sized(o.asked, o.step) /\ MayUse(o.symbol, o.step)
    BY DEF QuantityInv, TypeOK, PlacedInv, Order
  <2>2. 10 * o.qty <= o.asked + 5 /\ o.asked < 10 * (o.qty + o.step) + 5
    BY <2>1, SizedFacts
  <2>3. o.step = IF o.symbol \in fetchFailed /\ o.step = Unit THEN Unit ELSE StepOf[o.symbol]
    BY <2>1 DEF MayUse
  <2> QED  BY <2>2, <2>3
<1> QED  BY <1>1, AlwaysQuantityInv, PTL

\* Binance refuses a quantity only if it was less than one lot step to begin
\* with, or after a failed fetch of the step.
THEOREM RefusalsAreExplained == Spec => []RefusalsExplained
<1>1. QuantityInv => RefusalsExplained
  <2> SUFFICES ASSUME QuantityInv, NEW r \in refused, r.symbol \notin fetchFailed
               PROVE  Formatted(r.asked) < StepOf[r.symbol] \/ Formatted(r.asked) = 0
    BY DEF RefusalsExplained
  <2>1. r.symbol \in BinanceSymbol /\ r.asked \in Nat /\ r.step \in Nat /\ r.step = StepOf[r.symbol]
        /\ ~Accepts(r.symbol, Sized(r.asked, r.step))
    BY DEF QuantityInv, TypeOK, RefusedInv, MayUse
  <2>2. Sized(r.asked, r.step) = 0
    <3> DEFINE n == Sized(r.asked, r.step)
    <3>1. n \in Nat /\ (r.step # 0 => n % r.step = 0)
      BY <2>1, SizedFacts
    <3>2. ~(n > 0 /\ (r.step = 0 \/ n % r.step = 0))
      BY <2>1 DEF Accepts
    <3> HIDE DEF n
    <3>3. n = 0
      BY <3>1, <3>2
    <3> QED  BY <3>3 DEF n
  <2>3. Formatted(r.asked) = 0 \/ Formatted(r.asked) < r.step
    BY <2>1, <2>2, SizedFacts
  <2> QED  BY <2>1, <2>3
<1> QED  BY <1>1, AlwaysQuantityInv, PTL

-----------------------------------------------------------------------------
(* The lot-step cache.                                                     *)

\* A symbol's step changes only when a fetch of it, begun before it was known,
\* is answered: once it is known and no such fetch is left, it stays.
THEOREM StepsSettle == Spec => StepIsSettled
<1>1. ASSUME QuantityInv, [Next]_vars, NEW s \in BinanceSymbol, Settled(s)
      PROVE  Settled(s)' /\ stepCache'[s] = stepCache[s]
  <2> USE <1>1, OrderAssumption
  <2> DEFINE NoFetch == \A u \in Task : At(u, "step") => task[u].symbol # s
  <2>0. stepCache[s] # None /\ NoFetch
    BY DEF Settled
  <2>1. ASSUME NEW t \in Task, Execute(t)
        PROVE  UNCHANGED stepCache /\ NoFetch'
    <3>1. PICK x \in BinanceSymbol \cup Token, q \in Quantity :
            LET call == [pc |-> "create", id |-> intents', symbol |-> x, asked |-> q, step |-> 0, qty |-> q]
            IN  IF x \in BinanceSymbol
                THEN CacheOrFetch(t, call)
                ELSE task' = [task EXCEPT ![t] = call] /\ UNCHANGED stepCache
      BY <2>1 DEF Execute
    <3> DEFINE call == [pc |-> "create", id |-> intents', symbol |-> x, asked |-> q, step |-> 0, qty |-> q]
    <3>2. UNCHANGED stepCache
      BY <3>1 DEF CacheOrFetch
    <3>3. \A u \in Task : u # t => task'[u] = task[u]
      BY <3>1 DEF CacheOrFetch, Orders, QuantityInv, TypeOK
    <3>4. task'[t].pc = "step" => task'[t].symbol # s
      <4>1. CASE x \notin BinanceSymbol
        BY <3>1, <4>1 DEF QuantityInv, TypeOK
      <4>2. CASE x \in BinanceSymbol /\ stepCache[x] # None
        <5>1. task'[t] = [call EXCEPT !.pc = "order", !.step = stepCache[x],
                                      !.qty = Truncated(Formatted(q), stepCache[x])]
          BY <3>1, <4>2 DEF CacheOrFetch, Orders, QuantityInv, TypeOK
        <5> QED  BY <5>1
      <4>3. CASE x \in BinanceSymbol /\ stepCache[x] = None
        <5>1. task'[t] = [call EXCEPT !.pc = "step"]
          BY <3>1, <4>3 DEF CacheOrFetch, QuantityInv, TypeOK
        <5> QED  BY <2>0, <4>3, <5>1
      <4> QED  BY <4>1, <4>2, <4>3
    <3> QED  BY <2>0, <3>2, <3>3, <3>4 DEF At
  <2>2. ASSUME NEW t \in Task, StepAnswers(t)
        PROVE  stepCache'[s] = stepCache[s] /\ NoFetch'
    <3>1. task[t].symbol # s
      BY <2>0, <2>2 DEF StepAnswers
    <3>2. stepCache'[s] = stepCache[s]
      BY <2>2, <3>1 DEF StepAnswers, QuantityInv, TypeOK
    <3>3. (\A u \in Task : u # t => task'[u] = task[u]) /\ task'[t].pc = "order"
      <4>1. task[t] \in Call
        BY <2>2 DEF StepAnswers, At, QuantityInv, TypeOK
      <4>2. PICK step \in {StepOf[task[t].symbol], Unit} : Orders(t, task[t], step)
        BY <2>2 DEF StepAnswers
      <4>3. task'[t] = [task[t] EXCEPT !.pc = "order", !.step = step,
                                       !.qty = Truncated(Formatted(task[t].asked), step)]
        BY <4>2 DEF Orders, QuantityInv, TypeOK
      <4> QED  BY <4>1, <4>2, <4>3 DEF Orders, Call, QuantityInv, TypeOK
    <3> QED  BY <2>0, <3>2, <3>3 DEF At
  <2>3. ASSUME NEW t \in Task, NewOrder(t) \/ CreateOrder(t) \/ PostOrder(t) \/ SaveOrder(t)
        PROVE  UNCHANGED stepCache /\ NoFetch'
    <3>1. UNCHANGED stepCache /\ task[t] \in Call
      BY <2>3 DEF NewOrder, CreateOrder, PostOrder, SaveOrder, At, QuantityInv, TypeOK
    <3>2. \/ Returns(t) \/ Saves(t)
          \/ task' = [task EXCEPT ![t].pc = "post"]
      BY <2>3 DEF NewOrder, CreateOrder, PostOrder, SaveOrder, Refused
    <3>3. \A u \in Task : u # t => task'[u] = task[u]
      BY <3>2 DEF Returns, Saves, QuantityInv, TypeOK
    <3>4. task'[t] = None \/ task'[t].pc # "step"
      BY <3>1, <3>2 DEF Returns, Saves, QuantityInv, TypeOK, Call
    <3> QED  BY <2>0, <3>1, <3>3, <3>4 DEF At
  <2>4. ASSUME UNCHANGED vars
        PROVE  UNCHANGED stepCache /\ NoFetch'
    BY <2>0, <2>4 DEF vars, At
  <2>5. stepCache'[s] = stepCache[s] /\ NoFetch'
    BY <2>1, <2>2, <2>3, <2>4 DEF Next
  <2> QED  BY <2>0, <2>5 DEF Settled
<1>2. QuantityInv /\ [Next]_vars =>
        [\A s \in BinanceSymbol : Settled(s) => Settled(s)' /\ stepCache'[s] = stepCache[s]]_vars
  BY <1>1
<1> QED  BY <1>2, AlwaysQuantityInv, PTL DEF Spec, StepIsSettled

-----------------------------------------------------------------------------
(* The books.                                                              *)

Ids    == {o.id : o \in placed}
Saving == {task[t].id : t \in {u \in Task : At(u, "save")}}

\* Orders on which exchange and table differ, or will once they are saved.
Off == ((Ids \ rows) \ Saving) \cup (rows \ Ids) \cup (Saving \ Ids)

\* Every call under way has a number of its own, which the table has not seen,
\* nor the exchange before the call is at its save.
FreshInv ==
    /\ Ids \subseteq 1..intents /\ rows \subseteq 1..intents
    /\ \A t \in Task : task[t] # None =>
          /\ task[t].id \in 1..intents
          /\ task[t].id \notin rows
          /\ task[t].pc # "save" => task[t].id \notin Ids
          /\ \A u \in Task : u # t /\ task[u] # None => task[u].id # task[t].id

CountInv == IsFiniteSet(Off) /\ Cardinality(Off) <= faults

LedgerInv == QuantityInv /\ FreshInv /\ CountInv

LEMMA InitLedgerInv == Init => LedgerInv
  <1> SUFFICES ASSUME Init PROVE LedgerInv
    OBVIOUS
  <1>1. Off = {} /\ FreshInv
    BY DEF Init, Off, Ids, Saving, At, FreshInv
  <1> QED  BY <1>1, InitQuantityInv, FS_EmptySet DEF Init, LedgerInv, CountInv

\* One fault pays for one more order on which the books differ.
LEMMA OneMore ==
    ASSUME CountInv, faults \in Nat, NEW x,
           \/ Off' \subseteq Off /\ faults' \in Nat /\ faults <= faults'
           \/ Off' \subseteq Off \cup {x} /\ faults' = faults + 1
    PROVE  CountInv'
  <1>1. IsFiniteSet(Off) /\ Cardinality(Off) \in Nat /\ Cardinality(Off) <= faults
    BY FS_CardinalityType DEF CountInv
  <1>2. CASE Off' \subseteq Off /\ faults' \in Nat /\ faults <= faults'
    <2>1. IsFiniteSet(Off') /\ Cardinality(Off') <= Cardinality(Off)
      BY <1>1, <1>2, FS_Subset
    <2>2. Cardinality(Off') \in Nat
      BY <2>1, FS_CardinalityType
    <2> QED  BY <1>1, <1>2, <2>1, <2>2 DEF CountInv
  <1>3. CASE Off' \subseteq Off \cup {x} /\ faults' = faults + 1
    <2> DEFINE T == Off \cup {x}
    <2>1. IsFiniteSet(T) /\ Cardinality(T) <= Cardinality(Off) + 1
      BY <1>1, FS_AddElement
    <2>2. Cardinality(T) \in Nat
      BY <2>1, FS_CardinalityType
    <2>3. IsFiniteSet(Off') /\ Cardinality(Off') <= Cardinality(T)
      BY <1>3, <2>1, FS_Subset
    <2>4. Cardinality(Off') \in Nat
      BY <2>3, FS_CardinalityType
    <2> HIDE DEF T
    <2> QED  BY <1>1, <1>3, <2>1, <2>2, <2>3, <2>4 DEF CountInv
  <1> QED  BY <1>2, <1>3

\* What a step of t's call, once begun, may do to the numbers.
CallStep(t) ==
    LET i == task[t].id
    IN  /\ task[t] # None
        /\ UNCHANGED intents
        /\ \A u \in Task : u # t => task'[u] = task[u]
        /\ task'[t] # None => task'[t].id = i /\ rows' = rows
        /\ Ids' = Ids \/ Ids' = Ids \cup {i}
        /\ rows' = rows \/ rows' = rows \cup {i}
        /\ task'[t] # None /\ task'[t].pc # "save" => Ids' = Ids
        /\ task[t].pc = "save" => task'[t] = None

LEMMA CallStepKeepsFresh ==
    ASSUME FreshInv, NEW t \in Task, CallStep(t)
    PROVE  FreshInv'
  <1> DEFINE i == task[t].id
  <1>1. i \in 1..intents /\ intents' = intents
    BY DEF FreshInv, CallStep
  <1>2. Ids' \subseteq 1..intents' /\ rows' \subseteq 1..intents'
    BY <1>1 DEF FreshInv, CallStep
  <1>3. ASSUME NEW u \in Task, task'[u] # None
        PROVE  /\ task[u] # None /\ task'[u].id = task[u].id
               /\ task'[u].id \in 1..intents'
               /\ task'[u].id \notin rows'
               /\ task'[u].pc # "save" => task'[u].id \notin Ids'
    <2>1. CASE u = t
      BY <1>1, <1>3, <2>1 DEF FreshInv, CallStep
    <2>2. CASE u # t
      BY <1>1, <1>3, <2>2 DEF FreshInv, CallStep
    <2> QED  BY <2>1, <2>2
  <1>4. ASSUME NEW u \in Task, NEW v \in Task, u # v, task'[u] # None, task'[v] # None
        PROVE  task'[v].id # task'[u].id
    BY <1>3, <1>4 DEF FreshInv
  <1> QED  BY <1>2, <1>3, <1>4 DEF FreshInv

\* The numbers about to be saved change by t's own.
LEMMA SavingMoves ==
    ASSUME FreshInv, NEW t \in Task, CallStep(t)
    PROVE  /\ At(t, "save")' => Saving' = Saving \cup {task[t].id}
           /\ ~At(t, "save")' => Saving' = Saving \ {task[t].id}
           /\ task[t].id \in Saving <=> At(t, "save")
  <1>1. \A u \in Task : u # t => (At(u, "save")' <=> At(u, "save")) /\ task'[u] = task[u]
    BY DEF CallStep, At
  <1>2. \A u \in Task : u # t /\ At(u, "save") => task[u].id # task[t].id
    BY DEF FreshInv, CallStep, At
  <1>3. At(t, "save")' => task'[t].id = task[t].id
    BY DEF CallStep, At
  <1>4. /\ \A x : x \in Saving <=> \E u \in Task : At(u, "save") /\ x = task[u].id
        /\ \A x : x \in Saving' <=> \E u \in Task : At(u, "save")' /\ x = task'[u].id
    BY DEF Saving, At
  <1>5. task[t].id \in Saving <=> At(t, "save")
    BY <1>2, <1>4
  <1>6. ASSUME NEW x, x # task[t].id
        PROVE  x \in Saving' <=> x \in Saving
    BY <1>1, <1>3, <1>4, <1>6
  <1>7. task[t].id \in Saving' <=> At(t, "save")'
    BY <1>1, <1>2, <1>3, <1>4
  <1> HIDE DEF Saving
  <1> QED  BY <1>5, <1>6, <1>7

\* A step leaves the books of the other orders alone, and those of its own in
\* order if the exchange took what is about to be saved, if nothing was taken
\* and the call goes on or ends, or if the order is saved.
LEMMA OffMoves ==
    ASSUME FreshInv, NEW t \in Task, CallStep(t)
    PROVE  /\ Off' \subseteq Off \cup {task[t].id}
           /\ \/ At(t, "save")' /\ task[t].id \in Ids'
              \/ task[t].pc # "save" /\ ~At(t, "save")' /\ UNCHANGED <<Ids, rows>>
              \/ task[t].pc = "save" /\ task[t].id \in rows' /\ Ids' = Ids
              => Off' \subseteq Off
  <1> DEFINE i == task[t].id
  <1>1. /\ At(t, "save")' => Saving' = Saving \cup {i}
        /\ ~At(t, "save")' => Saving' = Saving \ {i}
        /\ i \in Saving <=> At(t, "save")
    BY SavingMoves
  <1>2. /\ Ids' = Ids \/ Ids' = Ids \cup {i}
        /\ rows' = rows \/ rows' = rows \cup {i}
        /\ At(t, "save") <=> task[t].pc = "save"
        /\ At(t, "save")' => rows' = rows
        /\ At(t, "save") => ~At(t, "save")'
    BY DEF CallStep, At
  <1>3. i \notin rows /\ (~At(t, "save") => i \notin Ids)
    BY DEF FreshInv, CallStep, At
  <1>4. Off' = ((Ids' \ rows') \ Saving') \cup (rows' \ Ids') \cup (Saving' \ Ids')
    BY DEF Off
  <1> HIDE DEF i, Ids, Saving, At
  <1>5. ASSUME NEW x \in Off', x # i
        PROVE  x \in Off
    BY <1>1, <1>2, <1>4, <1>5 DEF Off
  <1>6. CASE At(t, "save")' /\ i \in Ids'
    BY <1>1, <1>2, <1>3, <1>4, <1>5, <1>6
  <1>7. CASE task[t].pc # "save" /\ ~At(t, "save")' /\ UNCHANGED <<Ids, rows>>
    BY <1>1, <1>2, <1>3, <1>4, <1>5, <1>7
  <1>8. CASE task[t].pc = "save" /\ i \in rows' /\ Ids' = Ids
    BY <1>1, <1>2, <1>3, <1>4, <1>5, <1>8 DEF Off
  <1> QED  BY <1>5, <1>6, <1>7, <1>8 DEF i

LEMMA ExecuteKeepsLedger ==
    ASSUME LedgerInv, NEW t \in Task, Execute(t)
    PROVE  FreshInv' /\ CountInv'
  <1> USE OrderAssumption
  <1>0. TypeOK /\ FreshInv /\ CountInv /\ task[t] = None
    BY DEF LedgerInv, QuantityInv, Execute
  <1>1. intents' = intents + 1 /\ UNCHANGED <<placed, rows, faults>>
    BY DEF Execute, tables
  <1>2. \A u \in Task : u # t => task'[u] = task[u]
    BY <1>0 DEF Execute, CacheOrFetch, Orders, TypeOK
  <1>3. task'[t].id = intents + 1 /\ task'[t].pc # "save"
    <2>1. PICK x \in BinanceSymbol \cup Token, q \in Quantity :
            LET call == [pc |-> "create", id |-> intents', symbol |-> x, asked |-> q, step |-> 0, qty |-> q]
            IN  IF x \in BinanceSymbol
                THEN CacheOrFetch(t, call)
                ELSE task' = [task EXCEPT ![t] = call] /\ UNCHANGED stepCache
      BY DEF Execute
    <2> DEFINE call == [pc |-> "create", id |-> intents', symbol |-> x, asked |-> q, step |-> 0, qty |-> q]
    <2>2. CASE x \notin BinanceSymbol
      BY <1>0, <1>1, <2>1, <2>2 DEF TypeOK
    <2>3. CASE x \in BinanceSymbol /\ stepCache[x] # None
      <3>1. task'[t] = [call EXCEPT !.pc = "order", !.step = stepCache[x],
                                    !.qty = Truncated(Formatted(q), stepCache[x])]
        BY <1>0, <2>1, <2>3 DEF CacheOrFetch, Orders, TypeOK
      <3> QED  BY <1>1, <3>1
    <2>4. CASE x \in BinanceSymbol /\ stepCache[x] = None
      <3>1. task'[t] = [call EXCEPT !.pc = "step"]
        BY <1>0, <2>1, <2>4 DEF CacheOrFetch, TypeOK
      <3> QED  BY <1>1, <3>1
    <2> QED  BY <2>2, <2>3, <2>4
  <1>4. Ids' = Ids /\ Saving' = Saving
    <2>1. \A u \in Task : (At(u, "save")' <=> At(u, "save"))
                          /\ (At(u, "save") => task'[u].id = task[u].id)
      BY <1>0, <1>2, <1>3 DEF At
    <2> QED  BY <1>1, <2>1 DEF Ids, Saving
  <1>5. CountInv'
    BY <1>0, <1>1, <1>4 DEF CountInv, Off
  <1>6. FreshInv'
    <2>1. intents \in Nat /\ Ids' \subseteq 1..intents' /\ rows' \subseteq 1..intents'
      BY <1>0, <1>1, <1>4 DEF FreshInv, TypeOK
    <2>2. intents + 1 \in 1..intents' /\ intents + 1 \notin Ids' /\ intents + 1 \notin rows'
      BY <1>0, <1>1, <1>4, <2>1 DEF FreshInv
    <2>3. ASSUME NEW u \in Task, task[u] # None
          PROVE  task[u].id # intents + 1 /\ task[u].id \in 1..intents'
      BY <1>0, <1>1, <2>1, <2>3 DEF FreshInv
    <2> HIDE DEF Ids
    <2> QED  BY <1>0, <1>1, <1>2, <1>3, <1>4, <2>1, <2>2, <2>3 DEF FreshInv
  <1> QED  BY <1>5, <1>6

LEMMA IdsMove ==
    ASSUME NEW t \in Task
    PROVE  /\ Taken(t) => Ids' = Ids \cup {task[t].id}
           /\ UNCHANGED placed => Ids' = Ids
  <1>1. CASE Taken(t)
    <2> DEFINE c == task[t]
               o == [id |-> c.id, symbol |-> c.symbol, asked |-> c.asked, step |-> c.step, qty |-> c.qty]
    <2>1. placed' = placed \cup {o} /\ o.id = task[t].id
      BY <1>1 DEF Taken
    <2> HIDE DEF o
    <2> QED  BY <2>1 DEF Ids
  <1> QED  BY <1>1 DEF Ids

\* What a step of a call under way does: it goes on or ends, and every
\* combination that puts the books out of order is a fault.
LEMMA ActionsAreCallSteps ==
    ASSUME LedgerInv, NEW t \in Task,
           StepAnswers(t) \/ NewOrder(t) \/ CreateOrder(t) \/ PostOrder(t) \/ SaveOrder(t)
    PROVE  /\ CallStep(t)
           /\ faults' = faults \/ faults' = faults + 1
           /\ \/ faults' = faults + 1
              \/ At(t, "save")' /\ task[t].id \in Ids'
              \/ task[t].pc # "save" /\ ~At(t, "save")' /\ UNCHANGED <<Ids, rows>>
              \/ task[t].pc = "save" /\ task[t].id \in rows' /\ Ids' = Ids
  <1> USE OrderAssumption
  <1>0. /\ TypeOK /\ task[t] # None /\ task[t] \in Call
        /\ UNCHANGED intents
    BY DEF LedgerInv, QuantityInv, TypeOK, StepAnswers, NewOrder, CreateOrder, PostOrder, SaveOrder, At
  <1>1. \A u \in Task : u # t => task'[u] = task[u]
    BY <1>0 DEF TypeOK, StepAnswers, NewOrder, CreateOrder, PostOrder, SaveOrder, Orders, Returns, Saves, Refused
  <1>2. Returns(t) => task'[t] = None
    BY <1>0 DEF Returns, TypeOK
  <1>3. Saves(t) => task'[t].pc = "save" /\ task'[t].id = task[t].id /\ task'[t] # None
    <2>1. ASSUME Saves(t) PROVE task'[t] = [task[t] EXCEPT !.pc = "save"]
      BY <1>0, <2>1 DEF Saves, TypeOK
    <2>2. [task[t] EXCEPT !.pc = "save"] \in Call
      BY <1>0 DEF Call
    <2> QED  BY <1>0, <2>1, <2>2 DEF Call
  <1>4. CASE StepAnswers(t)
    <2>1. PICK step \in {StepOf[task[t].symbol], Unit} : Orders(t, task[t], step)
      BY <1>4 DEF StepAnswers
    <2>2. task'[t] = [task[t] EXCEPT !.pc = "order", !.step = step,
                                     !.qty = Truncated(Formatted(task[t].asked), step)]
      BY <1>0, <2>1 DEF Orders, TypeOK
    <2>3. task'[t].pc = "order" /\ task'[t].id = task[t].id
      BY <1>0, <2>2 DEF Call
    <2>4. UNCHANGED <<placed, rows>> /\ task[t].pc = "step" /\ (faults' = faults \/ faults' = faults + 1)
      BY <1>4 DEF StepAnswers, tables, At, Fault
    <2> QED  BY <1>0, <1>1, <2>3, <2>4, IdsMove DEF CallStep, At
  <1>5. CASE NewOrder(t) \/ PostOrder(t)
    <2>1. task[t].pc # "save" /\ rows' = rows /\ (faults' = faults \/ faults' = faults + 1)
      BY <1>5 DEF NewOrder, PostOrder, At, Fault
    <2>2. \/ Taken(t) /\ Saves(t)
          \/ Taken(t) /\ Returns(t) /\ faults' = faults + 1
          \/ UNCHANGED placed /\ Returns(t)
          \/ UNCHANGED placed /\ Saves(t) /\ faults' = faults + 1
      BY <1>5 DEF NewOrder, PostOrder, Refused, Fault
    <2> QED  BY <1>0, <1>1, <1>2, <1>3, <2>1, <2>2, IdsMove DEF CallStep, At
  <1>6. CASE CreateOrder(t)
    <2>1. UNCHANGED <<placed, rows>> /\ task[t].pc = "create" /\ (faults' = faults \/ faults' = faults + 1)
      BY <1>6 DEF CreateOrder, tables, At, Fault
    <2>2. \/ task'[t] = None
          \/ task'[t] = [task[t] EXCEPT !.pc = "post"]
      BY <1>0, <1>2, <1>6 DEF CreateOrder, TypeOK
    <2>3. task'[t] # None => task'[t].pc = "post" /\ task'[t].id = task[t].id
      BY <1>0, <2>2 DEF Call
    <2> QED  BY <1>0, <1>1, <2>1, <2>3, IdsMove DEF CallStep, At
  <1>7. CASE SaveOrder(t)
    <2>1. /\ UNCHANGED placed /\ task[t].pc = "save" /\ Returns(t)
          /\ \/ rows' = rows \cup {task[t].id} /\ UNCHANGED faults
             \/ rows' = rows /\ faults' = faults + 1
      BY <1>7 DEF SaveOrder, At, Fault
    <2> QED  BY <1>0, <1>1, <1>2, <2>1, IdsMove DEF CallStep, At
  <1> QED  BY <1>4, <1>5, <1>6, <1>7

LEMMA NextKeepsLedgerInv == LedgerInv /\ [Next]_vars => LedgerInv'
  <1> SUFFICES ASSUME LedgerInv, [Next]_vars PROVE LedgerInv'
    OBVIOUS
  <1>1. QuantityInv' /\ faults \in Nat
    BY NextKeepsQuantityInv DEF LedgerInv, QuantityInv, TypeOK
  <1>2. ASSUME NEW t \in Task,
               StepAnswers(t) \/ NewOrder(t) \/ CreateOrder(t) \/ PostOrder(t) \/ SaveOrder(t)
        PROVE  FreshInv' /\ CountInv'
    <2>1. CallStep(t) /\ FreshInv /\ CountInv /\ (faults' = faults \/ faults' = faults + 1)
      BY <1>2, ActionsAreCallSteps DEF LedgerInv
    <2>2. FreshInv'
      BY <2>1, CallStepKeepsFresh
    <2>3. faults' = faults + 1 \/ Off' \subseteq Off
      BY <1>2, <2>1, ActionsAreCallSteps, OffMoves
    <2>4. Off' \subseteq Off \cup {task[t].id}
      BY <2>1, OffMoves
    <2>5. CountInv'
      BY <1>1, <2>1, <2>3, <2>4, OneMore
    <2> QED  BY <2>2, <2>5
  <1>3. ASSUME UNCHANGED vars
        PROVE  FreshInv' /\ CountInv'
    <2>1. UNCHANGED <<task, placed, rows, intents, faults>>
      BY <1>3 DEF vars, tables
    <2>2. Ids' = Ids /\ Saving' = Saving
      BY <2>1 DEF Ids, Saving, At
    <2> HIDE DEF Ids, Saving
    <2> QED  BY <2>1, <2>2 DEF LedgerInv, FreshInv, CountInv, Off
  <1>4. ASSUME NEW t \in Task, Execute(t)
        PROVE  FreshInv' /\ CountInv'
    BY <1>4, ExecuteKeepsLedger
  <1>5. FreshInv' /\ CountInv'
    BY <1>2, <1>3, <1>4 DEF Next
  <1> QED  BY <1>1, <1>5 DEF LedgerInv

\* Between the exchanges and the orders table every difference is paid for by a
\* failed call: an answer lost after the exchange took the order, a row that
\* could not be saved, or an order without an id recorded all the same.
THEOREM BooksDifferByFaults == Spec => []RowsMatchOrders
<1>1. LedgerInv => RowsMatchOrders
  <2> SUFFICES ASSUME LedgerInv PROVE RowsMatchOrders
    OBVIOUS
  <2> DEFINE D == ((Ids \ rows) \cup (rows \ Ids)) \ Saving
  <2>1. IsFiniteSet(Off) /\ Cardinality(Off) \in Nat /\ Cardinality(Off) <= faults /\ faults \in Nat
    BY FS_CardinalityType DEF LedgerInv, CountInv, QuantityInv, TypeOK
  <2>2. D \subseteq Off
    BY DEF Off
  <2>3. IsFiniteSet(D) /\ Cardinality(D) <= Cardinality(Off)
    BY <2>1, <2>2, FS_Subset
  <2>4. Cardinality(D) \in Nat
    BY <2>3, FS_CardinalityType
  <2>5. Cardinality(D) <= faults
    <3> HIDE DEF D
    <3> QED  BY <2>1, <2>3, <2>4
  <2> QED  BY <2>5 DEF RowsMatchOrders, Ids, Saving
<1> QED  BY <1>1, InitLedgerInv, NextKeepsLedgerInv, PTL DEF Spec
=============================================================================
