--------------------------- MODULE CandlePipeline ---------------------------
(***************************************************************************)
(* The road of a candle from the Binance stream to a decision:             *)
(*   kline callback --candle_queue--> CandleAggregator                     *)
(*                  --closed_candle_queue--> decision loop                 *)
(* (stream/binance_stream.py, market/aggregator.py, main.py,             *)
(* analysis/indicators.py, engine/context_builder.py, engine/              *)
(* llm_engine.py), for one symbol and interval, whose candles are numbered *)
(* in the order they close.  A connection that a failed subscription left  *)
(* behind (BinanceStream) goes on delivering to the same queue, so a close *)
(* may arrive several times; the unit of the model is therefore the        *)
(* arrival, numbered in the order in which the callbacks ran.  The two     *)
(* consumers are tasks that stop at every call of Redis, Postgres, the hub *)
(* or the LLM; each call may fail.  What the decision leads to is          *)
(* DecisionLoop.                                                           *)
(***************************************************************************)
EXTENDS Integers, Sequences, FiniteSets, SequencesExt

CONSTANTS
    LastCandle,     \* bound: candles 1 .. LastCandle close
    MaxConnections, \* bound on the connections whose kline stream is subscribed
    MaxArrivals,    \* bound on the closes that reach a callback
    StreamCap,      \* _CANDLE_STREAM_BUFFER
    ClosedCap,      \* _CLOSED_CANDLE_BUFFER
    MinCandles,     \* MIN_CANDLES
    Fallible,       \* the calls that may fail, a subset of Calls
    MaxFaults,      \* bound on their failures
    None

Candle    == 1 .. LastCandle
Arrival   == Nat \ {0}             \* the closes that reach a callback, numbered
OpenKline == 0                     \* an update of a candle that has not closed
Update    == Arrival \cup {OpenKline}
Calls  == {"save_candle", "fetch_candles", "compute", "save_indicator", "build_context",
           "call_llm"}

ASSUME PipelineAssumption ==
    /\ LastCandle \in Nat \ {0}
    /\ MaxConnections \in Nat \ {0}
    /\ MaxArrivals \in Nat
    /\ StreamCap \in Nat \ {0}
    /\ ClosedCap \in Nat \ {0}
    /\ MinCandles \in Nat \ {0}
    /\ Fallible \subseteq Calls
    /\ MaxFaults \in Nat
    /\ None \notin Candle \cup Update

VARIABLES
    passed,         \* for each connection subscribed, the newest close it is past
    arrivals,       \* history: the closes that reached a callback, by which connection
    candleQueue,    \* updates for the aggregator
    agg, aggMsg,    \* the aggregator: where it is suspended, its message
    aggRunning,     \* CandleAggregator._running
    candles,        \* rows of the candles table
    unsaved,        \* history: arrivals whose upsert failed
    closedQueue,    \* arrivals waiting for a decision
    loop, hand,     \* the decision loop: where it is suspended, its arrival
    window,         \* newest candle among those it last fetched
    indicators,     \* indicators[t]: newest candle that the row for t is computed from
    decided,        \* arrivals decided on, in order
    lost,           \* arrivals dropped, and where
    shutdown,       \* shutdown_event
    faults

stream   == <<passed, arrivals>>
aggVars  == <<agg, aggMsg, aggRunning>>
rows     == <<candles, unsaved>>
loopVars == <<loop, hand, window>>
vars == <<stream, candleQueue, aggVars, rows, closedQueue, loopVars,
          indicators, decided, lost, shutdown, faults>>

Init ==
    /\ passed = << >> /\ arrivals = << >>
    /\ candleQueue = << >>
    /\ agg = "get" /\ aggMsg = None /\ aggRunning = TRUE
    /\ candles = {} /\ unsaved = {}
    /\ closedQueue = << >>
    /\ loop = "get" /\ hand = None /\ window = None
    /\ indicators = [t \in Candle |-> None]
    /\ decided = << >>
    /\ lost = {}
    /\ shutdown = FALSE
    /\ faults = 0

Fails(call) == call \in Fallible /\ faults < MaxFaults /\ faults' = faults + 1

\* The candle of an arrival.
CandleOf(n) == arrivals[n].t

Lose(n, where) == lost' = lost \cup {[n |-> n, where |-> where]}

-----------------------------------------------------------------------------
(* The stream.                                                             *)

\* _connect() subscribes the kline stream on a new connection, which is told of
\* the closes to come.  When one of its later subscriptions fails, the callback
\* stays and the retry comes here again.
Subscribe ==
    /\ Len(passed) < MaxConnections
    /\ passed' = Append(passed, Max({0} \cup ToSet(passed)))
    /\ UNCHANGED <<arrivals, candleQueue, aggVars, rows, closedQueue, loopVars,
                   indicators, decided, lost, shutdown, faults>>

\* Mutant: a full queue makes room by dropping its oldest update.
DeliverDropOldest(n) ==
    /\ candleQueue' = Append(IF Len(candleQueue) < StreamCap THEN candleQueue
                                                            ELSE Tail(candleQueue), n)
    /\ UNCHANGED lost

\* _on_kline_message: put_nowait, a full queue drops the update, and so does a
\* message that does not parse.
Deliver(n) ==
    \/ /\ Len(candleQueue) < StreamCap
       /\ candleQueue' = Append(candleQueue, n)
       /\ UNCHANGED lost
    \/ /\ UNCHANGED candleQueue
       /\ IF n = OpenKline THEN UNCHANGED lost
          ELSE Lose(n, IF Len(candleQueue) < StreamCap THEN "parse" ELSE "stream")

OpenUpdate ==
    /\ passed # << >>
    /\ Deliver(OpenKline)
    /\ UNCHANGED <<stream, aggVars, rows, closedQueue, loopVars, indicators,
                   decided, shutdown, faults>>

\* A connection delivers closes in the order of the candles, each some time after
\* it happened; those that fell into a reconnection of the SDK it skips.
CloseUpdate(c) ==
    /\ Len(arrivals) < MaxArrivals
    /\ \E t \in passed[c] + 1 .. LastCandle :
          /\ passed' = [passed EXCEPT ![c] = t]
          /\ arrivals' = Append(arrivals, [t |-> t, by |-> c])
    /\ Deliver(Len(arrivals) + 1)
    /\ UNCHANGED <<aggVars, rows, closedQueue, loopVars, indicators, decided,
                   shutdown, faults>>

-----------------------------------------------------------------------------
(* CandleAggregator.                                                       *)

AggGet ==
    /\ agg = "get" /\ candleQueue # << >>
    /\ aggMsg' = Head(candleQueue)
    /\ candleQueue' = Tail(candleQueue)
    /\ agg' = "cache"
    /\ UNCHANGED <<stream, aggRunning, rows, closedQueue, loopVars,
                   indicators, decided, lost, shutdown, faults>>

\* put_nowait on the closed queue, a full queue drops the candle.
FanOut ==
    IF Len(closedQueue) < ClosedCap
    THEN closedQueue' = Append(closedQueue, aggMsg) /\ UNCHANGED lost
    ELSE Lose(aggMsg, "closed") /\ UNCHANGED closedQueue

\* Mutant: the candle is queued for the decision before it is saved.
AggCacheFansOut ==
    /\ agg = "cache"
    /\ agg' = IF aggMsg # OpenKline THEN "persist" ELSE "broadcast"
    /\ IF aggMsg # OpenKline THEN FanOut ELSE UNCHANGED <<closedQueue, lost>>
    /\ UNCHANGED <<stream, candleQueue, aggMsg, aggRunning, rows,
                   loopVars, indicators, decided, shutdown, faults>>

\* Steps 1 and 2, best effort: the ticker and the candle keys of Redis.
AggCache ==
    /\ agg = "cache"
    /\ agg' = IF aggMsg # OpenKline THEN "persist" ELSE "broadcast"
    /\ UNCHANGED <<stream, candleQueue, aggMsg, aggRunning, rows,
                   closedQueue, loopVars, indicators, decided, lost, shutdown, faults>>

\* Steps 4 and 5: the upsert, then the fan-out whether or not it succeeded.
AggPersist ==
    /\ agg = "persist"
    /\ \/ candles' = candles \cup {CandleOf(aggMsg)} /\ UNCHANGED <<unsaved, faults>>
       \/ Fails("save_candle") /\ unsaved' = unsaved \cup {aggMsg} /\ UNCHANGED candles
    /\ FanOut
    /\ agg' = "broadcast"
    /\ UNCHANGED <<stream, candleQueue, aggMsg, aggRunning, loopVars,
                   indicators, decided, shutdown>>

\* Step 3, an error of the hub is logged; then run() looks at the flag.
AggBroadcast ==
    /\ agg = "broadcast"
    /\ agg' = IF aggRunning THEN "get" ELSE "exit"
    /\ aggMsg' = None
    /\ UNCHANGED <<stream, candleQueue, aggRunning, rows, closedQueue,
                   loopVars, indicators, decided, lost, shutdown, faults>>

AggWaitsForever == FALSE \* mutant: queue.get() without a timeout

\* A second without an update: run() sees the flag.
AggExit ==
    /\ agg = "get" /\ candleQueue = << >>
    /\ ~aggRunning
    /\ agg' = "exit"
    /\ UNCHANGED <<stream, candleQueue, aggMsg, aggRunning, rows,
                   closedQueue, loopVars, indicators, decided, lost, shutdown, faults>>

-----------------------------------------------------------------------------
(* indicator_and_decision_loop.                                            *)

upstream == <<stream, candleQueue, aggVars, rows, shutdown>>

LoopGet ==
    /\ loop = "get" /\ closedQueue # << >>
    /\ hand' = Head(closedQueue)
    /\ closedQueue' = Tail(closedQueue)
    /\ loop' = "fetch"
    /\ UNCHANGED <<upstream, window, indicators, decided, lost, faults>>

\* Mutant: the error is logged and the candle is decided on all the same.
LoopErrorContinues ==
    /\ Lose(hand, "error")
    /\ loop' = "context" /\ window' = None /\ UNCHANGED hand

\* The except clause: the error is logged and the candle is done with.
LoopError ==
    /\ Lose(hand, "error")
    /\ loop' = "get" /\ hand' = None /\ window' = None

SkipWaits      == FALSE     \* mutant
SkipIndicators == loop' = "context" /\ UNCHANGED <<hand, window, lost>>

\* compute_indicators: the most recent candles, whichever one is in hand.
LoopFetch ==
    /\ loop = "fetch"
    /\ \/ /\ Cardinality(candles) < MinCandles
          /\ SkipIndicators
          /\ UNCHANGED faults
       \/ /\ Cardinality(candles) >= MinCandles
          /\ window' = Max(candles)
          /\ loop' = "indicator"
          /\ UNCHANGED <<hand, lost, faults>>
       \/ Fails("fetch_candles") /\ LoopError
    /\ UNCHANGED <<upstream, closedQueue, indicators, decided>>

\* save_indicator: candle_id comes from a subquery on the candles table and may
\* not be null, so the INSERT is refused when the candle has no row.  An error
\* of the computation before it is caught, and there is no row to save.
LoopSaveIndicator ==
    /\ loop = "indicator"
    /\ \/ /\ CandleOf(hand) \in candles
          /\ indicators' = [indicators EXCEPT ![CandleOf(hand)] = window]
          /\ loop' = "context"
          /\ window' = None
          /\ UNCHANGED <<hand, lost, faults>>
       \/ /\ CandleOf(hand) \notin candles
          /\ LoopError
          /\ UNCHANGED <<indicators, faults>>
       \/ Fails("save_indicator") /\ LoopError /\ UNCHANGED indicators
       \/ /\ Fails("compute")
          /\ loop' = "context"
          /\ window' = None
          /\ UNCHANGED <<hand, indicators, lost>>
    /\ UNCHANGED <<upstream, closedQueue, decided>>

LoopContext ==
    /\ loop = "context"
    /\ \/ loop' = "llm" /\ UNCHANGED <<hand, window, lost, faults>>
       \/ Fails("build_context") /\ LoopError
    /\ UNCHANGED <<upstream, closedQueue, indicators, decided>>

\* Mutant: a candle whose call failed is decided on again.
EvaluateRetries ==
    /\ loop = "llm"
    /\ decided' = Append(decided, hand)
    /\ \/ loop' = "get" /\ hand' = None /\ UNCHANGED faults
       \/ Fails("call_llm") /\ UNCHANGED <<loop, hand>>
    /\ UNCHANGED <<upstream, closedQueue, window, indicators, lost>>

\* evaluate() never raises: a failed call is a HOLD decision, and a decision
\* that cannot be saved is still acted on.
LoopEvaluate ==
    /\ loop = "llm"
    /\ decided' = Append(decided, hand)
    /\ loop' = "get" /\ hand' = None
    /\ UNCHANGED faults \/ Fails("call_llm")
    /\ UNCHANGED <<upstream, closedQueue, window, indicators, lost>>

\* A second without a candle, after the shutdown was requested.
LoopExit ==
    /\ loop = "get" /\ closedQueue = << >>
    /\ shutdown
    /\ loop' = "exit"
    /\ UNCHANGED <<upstream, closedQueue, hand, window, indicators, decided, lost, faults>>

-----------------------------------------------------------------------------
(* Shutdown.                                                               *)

Signal ==
    /\ ~shutdown
    /\ shutdown' = TRUE
    /\ UNCHANGED <<stream, candleQueue, aggVars, rows, closedQueue,
                   loopVars, indicators, decided, lost, faults>>

\* shutdown_watcher wakes up and calls aggregator.stop().
StopAggregator ==
    /\ shutdown /\ aggRunning
    /\ aggRunning' = FALSE
    /\ UNCHANGED <<stream, candleQueue, agg, aggMsg, rows, closedQueue,
                   loopVars, indicators, decided, lost, shutdown, faults>>

-----------------------------------------------------------------------------
Stream     == Subscribe \/ OpenUpdate \/ \E c \in DOMAIN passed : CloseUpdate(c)
Aggregator == AggGet \/ AggCache \/ AggPersist \/ AggBroadcast \/ AggExit
Decider    == LoopGet \/ LoopFetch \/ LoopSaveIndicator \/ LoopContext
              \/ LoopEvaluate \/ LoopExit

Next == Stream \/ Aggregator \/ Decider \/ Signal \/ StopAggregator

Spec == Init /\ [][Next]_vars

\* Every call returns, and the event loop runs every task that can run.
FairSpec == Spec /\ WF_vars(Aggregator) /\ WF_vars(Decider) /\ WF_vars(StopAggregator)
-----------------------------------------------------------------------------
(* Properties.                                                             *)

\* Every variable keeps its type; the queues stay within their capacity.
TypeOK ==
    /\ passed \in Seq(0 .. LastCandle) /\ Len(passed) <= MaxConnections
    /\ arrivals \in Seq([t : Candle, by : 1 .. MaxConnections])
    /\ candleQueue \in Seq(Update) /\ Len(candleQueue) <= StreamCap
    /\ agg \in {"get", "cache", "persist", "broadcast", "exit"}
    /\ unsaved \subseteq Arrival
    /\ aggMsg \in Update \cup {None}
    /\ aggRunning \in BOOLEAN
    /\ candles \subseteq Candle
    /\ closedQueue \in Seq(Arrival) /\ Len(closedQueue) <= ClosedCap
    /\ loop \in {"get", "fetch", "indicator", "context", "llm", "exit"}
    /\ hand \in Arrival \cup {None}
    /\ window \in Candle \cup {None}
    /\ indicators \in [Candle -> Candle \cup {None}]
    /\ decided \in Seq(Arrival)
    /\ lost \subseteq [n : Arrival, where : {"parse", "stream", "closed", "error"}]
    /\ shutdown \in BOOLEAN
    /\ faults \in 0 .. MaxFaults

\* Where a close that arrived may be, the end of its road first: decided on, in
\* the loop's hand, queued for it, with the aggregator, in the stream queue.
Done     == {decided[i] : i \in DOMAIN decided}
InHand   == {hand} \ {None}
Waiting  == {closedQueue[i] : i \in DOMAIN closedQueue}
Held     == IF agg \in {"cache", "persist"} THEN {aggMsg} \ {OpenKline} ELSE {}
Streamed == {candleQueue[i] : i \in DOMAIN candleQueue} \ {OpenKline}
Road     == <<Done, InHand, Waiting, Held, Streamed>>
OnRoad   == Done \cup InHand \cup Waiting \cup Held \cup Streamed

\* Along the road, and within each of its places, closes stand in the order in
\* which they arrived, across two queues, two tasks and whatever calls fail.
RoadInOrder ==
    /\ \A i, j \in DOMAIN decided : i < j => decided[i] < decided[j]
    /\ \A i, j \in DOMAIN closedQueue : i < j => closedQueue[i] < closedQueue[j]
    /\ \A i, j \in DOMAIN candleQueue :
          i < j /\ candleQueue[i] # OpenKline /\ candleQueue[j] # OpenKline =>
              candleQueue[i] < candleQueue[j]
    /\ \A m, n \in DOMAIN Road : m < n => \A t \in Road[m], u \in Road[n] : t < u

\* Hence the decisions made on what one connection delivers are made on ever
\* later candles, and a candle is decided on at most once for each connection
\* subscribed: once, unless a failed subscription left a connection behind.
DecidedInOrder ==
    /\ RoadInOrder
    /\ \A i, j \in DOMAIN decided :
          LET m == arrivals[decided[i]]
              n == arrivals[decided[j]]
          IN  i < j /\ m.by = n.by => m.t < n.t
    /\ \A t \in Candle :
          Cardinality({i \in DOMAIN decided : CandleOf(decided[i]) = t}) <= Len(passed)

\* Every close that reached a callback is on the road or was given up in exactly
\* one place: unreadable, dropped by a full queue, or by an error; and one failed
\* call costs at most one of them its decision.  A candle may arrive twice and
\* have two fates, and may reach no callback while the SDK reconnects.
NothingVanishes ==
    /\ \A n \in DOMAIN arrivals :
          LET losses == {x \in lost : x.n = n}
          IN  IF n \in OnRoad THEN losses = {} ELSE Cardinality(losses) = 1
    /\ Cardinality({x \in lost : x.where = "error"}) <= faults

\* The pipeline as the rest of the agent sees it: a close has no fate while it is
\* on the road before a decision.
Fates == INSTANCE CandleFates WITH
    MayWait   <- ClosedCap,
    open      <- InHand \cup Waiting \cup Held \cup Streamed,
    decisions <- decided,
    givenUp   <- {x.n : x \in lost}

\* The fate of a close that arrived is sealed once: it is decided on, oldest
\* first, or given up at its arrival, by an error, or behind as many older ones
\* as the closed queue holds; and no step of two tasks and two queues revises it.
ImplementsFates == Fates!Spec

\* An indicator row is never computed from data that stops short of its own
\* candle.  This rests on the order of two tasks: the aggregator saves the
\* candle before it queues it, and the loop reads the table afterwards.  There
\* is one way out: the upsert failed for the close in the loop's hand, and that
\* of the same close from another connection made the row after the loop read.
IndicatorCoversCandle ==
    \A t \in Candle : indicators[t] # None /\ indicators[t] < t =>
        \E m, n \in DOMAIN arrivals :
            m < n /\ m \in unsaved /\ CandleOf(m) = t /\ CandleOf(n) = t

\* A close on the closed queue is settled one day, or the loop has stopped.
Settled(n) == n \in Done \/ (\E x \in lost : x.n = n)
QueuedIsSettled ==
    \A n \in 1 .. MaxArrivals :
        (n \in Waiting) ~> (Settled(n) \/ loop = "exit")

\* Once asked to, both tasks stop, whatever is queued and whatever fails.
ShutdownCompletes == shutdown ~> (agg = "exit" /\ loop = "exit")

\* "Failure is logged but does not drop the fan-out; a missing DB record is
\* recoverable, but a stalled decision pipeline is not" (aggregator, step 4):
\* no close is given up because of an error while only that upsert may fail.
FanOutReachesDecision == \A x \in lost : x.where # "error"
=============================================================================
