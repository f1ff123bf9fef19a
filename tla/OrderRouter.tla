----------------------------- MODULE OrderRouter -----------------------------
(***************************************************************************)
(* Executor.execute (execution/executor.py) down to the two exchanges:     *)
(* BinanceRestClient.place_limit_order with its lot-step cache             *)
(* (exchange/binance_rest.py) and PolymarketRestClient.place_order         *)
(* (exchange/polymarket_rest.py), called by several tasks that are         *)
(* suspended at each of the calls.  Quantities asked for are in tenths of  *)
(* a micro-unit, so that the rounding to six decimals can be seen;         *)
(* quantities ordered, and steps, are in micro-units.                      *)
(***************************************************************************)
EXTENDS Integers, FiniteSets

CONSTANTS
    Task,           \* tasks that place orders: the decision loop, the monitor
    BinanceSymbol, Token, \* what ends with "USDT", and everything else
    StepOf,         \* LOT_SIZE step of each Binance symbol, 0 for no restriction
    Unit,           \* the step "1", in micro-units
    Quantity,       \* quantities asked for
    MaxIntents, MaxFaults, \* bounds on orders asked for and on calls that fail
    None

\* A call of execute(): where it is suspended, and what it has worked out.
Call == [pc : {"step", "order", "create", "post", "save"}, id : Nat,
         symbol : BinanceSymbol \cup Token, asked : Nat, step : Nat, qty : Nat]

ASSUME OrderAssumption ==
    /\ BinanceSymbol \cap Token = {}
    /\ StepOf \in [BinanceSymbol -> Nat]
    /\ Unit \in Nat \ {0}
    /\ Quantity \subseteq Nat
    /\ MaxIntents \in Nat /\ MaxFaults \in Nat
    /\ None \notin Nat \cup Call

VARIABLES
    stepCache,      \* _lot_step_cache
    task,           \* each task's call of execute()
    placed,         \* orders the exchanges took
    rows,           \* the orders table: numbers of intents
    refused,        \* orders Binance refused for their quantity
    fetchFailed,    \* history: symbols whose exchange_info has failed
    intents, faults

tables == <<placed, rows, refused>>
vars   == <<stepCache, task, tables, fetchFailed, intents, faults>>

Init ==
    /\ stepCache = [s \in BinanceSymbol |-> None]
    /\ task = [t \in Task |-> None]
    /\ placed = {} /\ rows = {} /\ refused = {}
    /\ fetchFailed = {}
    /\ intents = 0 /\ faults = 0

Fault == faults < MaxFaults /\ faults' = faults + 1

-----------------------------------------------------------------------------
(* Quantities.                                                             *)

\* f"{quantity:.6f}"; a tie goes up (Python's goes to the even neighbour).
Formatted(q) == (q + 5) \div 10

\* Mutants: the truncation is forgotten, or goes up.
NotTruncated(n, step)  == n
TruncatedUp(n, step)   == IF step = 0 THEN n ELSE ((n + step - 1) \div step) * step

\* _apply_lot_step
Truncated(n, step) == IF step = 0 THEN n ELSE (n \div step) * step

\* What Binance accepts of a symbol.
Accepts(s, n) == n > 0 /\ (StepOf[s] = 0 \/ n % StepOf[s] = 0)

-----------------------------------------------------------------------------
(* A task's call.                                                          *)

Returns(t) == task' = [task EXCEPT ![t] = None]

\* The rest of place_limit_order up to the exchange's answer.
Orders(t, call, step) ==
    task' = [task EXCEPT ![t] =
                [call EXCEPT !.pc = "order", !.step = step,
                             !.qty = Truncated(Formatted(call.asked), step)]]

\* Mutant: the cache is not consulted.
AlwaysFetch(t, call) ==
    task' = [task EXCEPT ![t] = [call EXCEPT !.pc = "step"]] /\ UNCHANGED stepCache

\* _get_lot_step: the cached step, or exchange_info is asked for.
CacheOrFetch(t, call) ==
    /\ IF stepCache[call.symbol] # None
       THEN Orders(t, call, stepCache[call.symbol])
       ELSE task' = [task EXCEPT ![t] = [call EXCEPT !.pc = "step"]]
    /\ UNCHANGED stepCache

\* execute(): the symbol says which exchange.
Execute(t) ==
    /\ task[t] = None
    /\ intents < MaxIntents /\ intents' = intents + 1
    /\ \E s \in BinanceSymbol \cup Token, q \in Quantity :
          LET call == [pc |-> "create", id |-> intents', symbol |-> s, asked |-> q, step |-> 0, qty |-> q]
          IN  IF s \in BinanceSymbol
              THEN CacheOrFetch(t, call)
              ELSE task' = [task EXCEPT ![t] = call] /\ UNCHANGED stepCache
    /\ UNCHANGED <<tables, fetchFailed, faults>>

At(t, pc) == task[t] # None /\ task[t].pc = pc

\* exchange_info answers, or fails and "1" is cached in its place, over what
\* another task may have cached meanwhile.
StepAnswers(t) ==
    /\ At(t, "step")
    /\ LET s == task[t].symbol
       IN  \/ /\ stepCache' = [stepCache EXCEPT ![s] = StepOf[s]]
              /\ Orders(t, task[t], StepOf[s])
              /\ UNCHANGED <<fetchFailed, faults>>
           \/ /\ Fault
              /\ stepCache' = [stepCache EXCEPT ![s] = Unit]
              /\ Orders(t, task[t], Unit)
              /\ fetchFailed' = fetchFailed \cup {s}
    /\ UNCHANGED <<tables, intents>>

Taken(t) ==
    LET c == task[t]
    IN placed' = placed \cup {[id |-> c.id, symbol |-> c.symbol, asked |-> c.asked,
                               step |-> c.step, qty |-> c.qty]}

Saves(t) == task' = [task EXCEPT ![t].pc = "save"]

Refusal(t) == LET c == task[t]
              IN refused' = refused \cup {[symbol |-> c.symbol, asked |-> c.asked, step |-> c.step]}

\* Mutant: a refused order is saved with the others.
RefusedAndSaved(t) == Refusal(t) /\ Saves(t)

Refused(t) == Refusal(t) /\ Returns(t)

\* new_order: taken, refused for its quantity, failed, or taken and the answer
\* lost.  Every exception ends execute() with None.
NewOrder(t) ==
    /\ At(t, "order")
    /\ LET c == task[t]
       IN  \/ /\ Accepts(c.symbol, c.qty)
              /\ Taken(t)
              /\ \/ Saves(t) /\ UNCHANGED faults
                 \/ Returns(t) /\ Fault
              /\ UNCHANGED refused
           \/ /\ ~Accepts(c.symbol, c.qty)
              /\ Refused(t)
              /\ UNCHANGED <<placed, faults>>
           \/ Returns(t) /\ Fault /\ UNCHANGED <<placed, refused>>
    /\ UNCHANGED <<stepCache, rows, fetchFailed, intents>>

\* Polymarket: create_order signs, post_order sends.
CreateOrder(t) ==
    /\ At(t, "create")
    /\ \/ task' = [task EXCEPT ![t].pc = "post"] /\ UNCHANGED faults
       \/ Returns(t) /\ Fault
    /\ UNCHANGED <<stepCache, tables, fetchFailed, intents>>

\* An answer without an orderID is an order all the same: place_order returns
\* it with an empty external id.
PostOrder(t) ==
    /\ At(t, "post")
    /\ \/ /\ Taken(t)
          /\ \/ Saves(t) /\ UNCHANGED faults
             \/ Returns(t) /\ Fault
       \/ /\ Fault
          /\ Returns(t) \/ Saves(t)
          /\ UNCHANGED placed
    /\ UNCHANGED <<stepCache, rows, refused, fetchFailed, intents>>

\* postgres.save_order
SaveOrder(t) ==
    /\ At(t, "save")
    /\ \/ rows' = rows \cup {task[t].id} /\ UNCHANGED faults
       \/ Fault /\ UNCHANGED rows
    /\ Returns(t)
    /\ UNCHANGED <<stepCache, placed, refused, fetchFailed, intents>>

Next ==
    \E t \in Task :
        \/ Execute(t) \/ StepAnswers(t) \/ NewOrder(t)
        \/ CreateOrder(t) \/ PostOrder(t) \/ SaveOrder(t)

Spec == Init /\ [][Next]_vars
-----------------------------------------------------------------------------
(* Properties.                                                             *)

Order == [id : Nat, symbol : BinanceSymbol \cup Token, asked : Nat, step : Nat, qty : Nat]

TypeOK ==
    /\ stepCache \in [BinanceSymbol -> Nat \cup {None}]
    /\ task \in [Task -> Call \cup {None}]
    /\ placed \subseteq Order
    /\ rows \subseteq Nat
    /\ refused \subseteq [symbol : BinanceSymbol, asked : Nat, step : Nat]
    /\ fetchFailed \subseteq BinanceSymbol
    /\ intents \in Nat /\ faults \in Nat

OnBinance(o) == o.symbol \in BinanceSymbol

\* An order is never for more than was asked, give or take the rounding to six
\* decimals, and less than one of the exchange's lot steps is lost on the way;
\* unless the symbol's step could not be fetched at some time: then it may be
\* almost a whole unit.
OrderedAsAsked ==
    \A o \in placed : OnBinance(o) =>
        LET step == IF o.symbol \in fetchFailed /\ o.step = Unit THEN Unit ELSE StepOf[o.symbol]
        IN 10 * o.qty <= o.asked + 5 /\ o.asked < 10 * (o.qty + step) + 5

\* An order Binance refuses for its quantity was asked for less than one lot
\* step, or the symbol's step could not be fetched at some time before.
RefusalsExplained ==
    \A r \in refused :
        r.symbol \in fetchFailed \/ Formatted(r.asked) < StepOf[r.symbol] \/ Formatted(r.asked) = 0

\* The exchanges and the table disagree on no more orders than there were
\* faults, those about to be saved aside: none is lost or invented otherwise,
\* and none recorded twice, however the tasks' calls interleave.
RowsMatchOrders ==
    LET ids    == {o.id : o \in placed}
        saving == {task[t].id : t \in {u \in Task : At(u, "save")}}
    IN Cardinality(((ids \ rows) \cup (rows \ ids)) \ saving) <= faults

\* A step is settled once it is in the cache and no fetch of it is under way:
\* a right one is never lost after that, and a wrong one never mended.
Settled(s) == stepCache[s] # None /\ \A t \in Task : At(t, "step") => task[t].symbol # s
StepIsSettled ==
    [][\A s \in BinanceSymbol : Settled(s) => Settled(s)' /\ stepCache'[s] = stepCache[s]]_vars
=============================================================================
