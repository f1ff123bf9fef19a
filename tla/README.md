# GoldAgent in TLA+

GoldAgent is an asyncio trading agent (`src/gold-agent`) with a React dashboard
(`src/gold-dashboard`).  It streams candles from Binance, asks an LLM for a
decision on every closed candle, gates the decision with fixed risk rules,
places orders, watches open positions for their exits and keeps an account of
the result.  This directory holds TLA+ models of the parts where order, failure
and shared state decide whether the agent is right, the TLC configurations that
check them, and TLAPS proofs of the invariants that matter most.

`PROJECT.json` lists the components, the runs, the mutants, the source lines of
every definition, the findings, the hazards and the theorems.

## 1. Inventory

All tasks of the agent share one event loop, so a task is interrupted only at an
`await`.  Every `await` of the database, of Redis, of an exchange, of the LLM or
of the hub is a place where the other tasks run and where the call may fail.

| Component | State it keeps | Operations | Interacts with |
|---|---|---|---|
| Position monitor (`execution/position_monitor.py`) | `_running`; local copies of the open rows during a cycle | `run`, `stop`, one cycle: fetch, price, trailing stop, exit rules, close | positions table (reads, writes by id), ticker cache, executor |
| Executor (`execution/executor.py`) | none | `execute`: exchange call, INSERT, catch-all that returns None | exchange, orders table; called by monitor and decision loop |
| Portfolio manager (`execution/portfolio_manager.py`) | `_running`; the last snapshot is in the table | `run`, `stop`, `snapshot`: two SELECTs, metrics, INSERT | positions and snapshots tables |
| Risk gate (`engine/risk.py`) | none | `check` | called by the decision loop with what it read |
| Decision loop (`main.py`) | the candle in hand | indicators, context, LLM, snapshot, positions, gate, order | closed-candle queue, all tables, executor, hub |
| Candle aggregator (`market/aggregator.py`) | `_running`, the update in hand | ticker and candle keys, upsert, fan-out, broadcast | stream queue, closed-candle queue, Redis, Postgres, hub |
| Binance stream (`exchange/binance_stream.py`) | client handle, stream handles, stop event | `start`, `stop`, kline and ticker callbacks | stream queue, ticker cache, shutdown watcher |
| Polymarket stream (`exchange/polymarket_stream.py`) | stop flag, delay, price queue | `start`, `stop`, message handling | collector task, price cache of the context builder |
| Indicators, context builder, LLM engine | none | one call per candle each; the LLM engine never raises | candles, indicators, decisions tables |
| Postgres and Redis modules | pool, client | one query per function | every task |
| Exchange REST clients (`exchange/*_rest.py`) | lot-step cache | orders, balances | exchanges; called by the executor |
| HTTP API and hub (`api/`) | the set of sockets | read-only handlers, `connect`, `disconnect`, `broadcast` | aggregator, decision loop, ticker callback |
| Dashboard socket client (`api/websocketClient.ts`) | socket, timer, attempt, flag, state | `connect`, `disconnect`, four socket events, timer | the page hook, the store |
| Dashboard REST client and hooks (`api/restClient.ts`, `hooks/useListFetch.ts`) | in-flight map; each view's loading, data, error | dedup, retry, abort, timeout | the API, the store |
| Dashboard store and tick buffer (`store/index.ts`, `utils/tickBuffer.ts`) | series and lists per key, one pending candle | setters, flush per frame | socket messages, fetches, components |

What is hard here, and what makes each part correct:

- **Exits.** A row is visited with a copy several awaits old and written back by
  id whatever its status.  Correct means: every close is justified by the row's
  own levels, no order is sent for a closed row, a closed row is never touched
  again, the trailing stop follows the best price and only tightens, a failure
  costs at most one duplicate order, and an exit that is due is not forgotten.
- **Accounting.** Rows close between the manager's queries; peak and maximum
  drawdown live only in a rounded row.  Correct means: a snapshot is of one
  moment, high-water marks never fall, the breaker and the stored drawdown agree,
  no close is missed for good.
- **The gate.** The loop gates what it read, and the tables move on before the
  order.  Correct means: the breaker is late by at most one order, and orders
  are never empty, negative or oversized.
- **Orders.** Two tasks share one cache of lot steps that is filled across an
  await and never emptied; an order and its row are two calls.  Correct means: what
  is ordered is what was asked up to a lot step, a refusal has a reason, exchange
  and table differ by no more than what failed.
- **The pipeline.** Two bounded queues that drop, two tasks, six calls that fail,
  and a stream that may deliver a close twice, unreadable or not at all.
  Correct means: decisions in the order of arrival, on ever later candles for
  each connection and at most one per connection; every close that arrived
  accounted for; indicators that cover their candle; and a shutdown that ends.
- **The streams.** `stop()` runs between the awaits of the task it stops, which may be
  connecting, subscribing, reading or sleeping.  Correct means: pauses that grow and
  start again, a price cache that never goes back, no connection without an owner
  unless a call failed, and a shutdown that reaches every task.
- **The feed.** A broadcast suspends at every client of a set that changes
  meanwhile; the page merges what it is sent, late, with what it fetched, late.
  Correct means: each client hears in order, the chart is in order, what the page
  lacks was lost in a known way, and a slow client delays the agent only for a time.
- **The requests.** Views share fetches through a map that settles, aborts and
  retries edit.  Correct means: one fetch per list, nobody waits for a fetch that
  nobody makes, and a settled view shows the answer to its last question.
- **The socket.** Callbacks of every socket ever made write the same fields.
  Correct means: one connection, never stranded, never lying about "open".

## 2. Modules

| Module | What it is |
|---|---|
| `PositionLifecycle` | abstract specification of the positions table: a row is opened, attempted, closed with its PnL, and never changes again |
| `PositionMonitor` | the monitor with its executor, table rows, orders and ticker cache |
| `TradingTables` | the positions and snapshots tables and the drawdown limit, which the next four share |
| `PortfolioManager` | the manager over rows that close at any moment |
| `RiskGate` | `RiskGate.check` as an operator |
| `DecisionLoop` | the loop from the LLM's answer to the saved order (extends `RiskGate`) |
| `TradingCore` | decision loop, portfolio manager and `PositionLifecycle` composed over the tables they share |
| `OrderRouter` | `execute` down to both exchanges, with the lot-step cache, for several tasks |
| `CandlePipeline` | stream queue, aggregator, closed-candle queue, the loop up to the decision, shutdown |
| `CandleFates` | abstract specification of the closes that arrive: each is decided on, oldest first, or given up for a reason, once |
| `PolymarketStream` | the Polymarket stream with its backoff, its queue and the collector |
| `BinanceStream` | the life cycle of Binance's connections, with `stop` |
| `StreamLifecycle` | both streams under the shutdown watcher |
| `WebSocketHub` | the hub, its endpoint, clients that come, go and stall |
| `DashboardStore` | series, tick buffer, decision list and their fetches |
| `LiveFeed` | publishers, hub, clients and one dashboard page composed |
| `RestClient` | the dashboard's REST client under `useListFetch` |
| `SocketClient` | the dashboard's WebSocket client and the page that mounts it |
| `*Proofs` | the theorems about the module they are named after |
| `MC*` | the instances TLC runs: sets, contracts, amounts and workloads |

```
[BinanceStream] --.                                    [PolymarketStream]--> price cache
                  |-- StreamLifecycle (shutdown) --------------'                 |
                  v                                                              v
      [CandlePipeline: queue -> aggregator -> queue -> loop ] ----------> decision
                  |                                    |                     |
             ticker cache                              |        [DecisionLoop + RiskGate]
                  |                                    |             |           ^
  [PositionMonitor] --refines--> [PositionLifecycle]   |           orders     snapshots
                  |                       |            |             |           |
                  |                       +- closed rows - - - - - - | - [PortfolioManager]
                  |                       \____________|__ TradingCore __________/
                  '-------------------> [OrderRouter] <+-------------'
                                                       |
      candles, decisions --> [WebSocketHub] --> sockets --> [DashboardStore]   (LiveFeed)
                                          [SocketClient]      [RestClient]
```

### How code becomes actions

- One action is what runs between two awaits (in the dashboard: one callback).  A
  coroutine's position is a program counter (`pc`, `mgr`, `loop`, `agg`, `pm`, `bn`,
  `watcher`), its locals are variables.
- A call that fails is an action or a disjunct of its own.  A database write may
  fail before or after it took effect; the exchange may refuse an order or take
  it and lose the answer.
- `except` clauses are what the failing action does next: the monitor goes on with
  the next row, `execute` returns None and the caller cannot tell why, the loop
  drops the candle, the manager sleeps, a stream pauses, the hub forgets a socket.
- A crash clears every local variable and no table.
- Data is abstracted to what the rules compare.  Prices are small integers.  Money
  in `PortfolioManager` and `TradingCore` is counted in grains, `Cent` of them
  to a cent, so that the rounding to two decimals of a stored snapshot is real;
  percentages are counted in hundredths of a percent.  An order is its value in
  `DecisionLoop`, in hundredths of a grain so that a percentage of a balance is a whole
  number of them, and its quantity in `OrderRouter`.  A candle, a decision, a price
  update and a connection are their numbers.
- A variable whose comment says "history" is read by properties only.
- Operators whose comment begins with "Mutant" are deliberate bugs.  Nothing uses
  them; they replace the definition that follows them when a property is tested
  for being able to fail.

### PositionMonitor

`row` is the positions table, `batch` the local copies of one cycle, `cur`, `px`
and `why` the row in hand with the price and the exit reason, `attempts`,
`accepted` and `recorded` count closing orders asked for, taken by the exchange
and saved.  `seen` is history: the best price read for a row.  The order in which
rows are visited is left open.  `OpenPosition` comes from outside: `save_position`
has no caller in the agent, so whoever shares the database inserts the rows.
A failed SELECT and a cycle over no rows change nothing and have no action.
`MaxFaults` bounds failures that cost an exit, and crashes; failures inside
`execute` are free.

### PortfolioManager

`FetchClosed`, `LoadPrevious` and `SaveSnapshot` are the three database calls;
the arithmetic runs with the second.  Display figures that nothing reads back
(Sharpe ratio, profit factor, averages) are left out.

### DecisionLoop, RiskGate, TradingCore

The loop publishes the decision, reads the snapshot, reads the open positions of
the candle's symbol, applies `Check` to what it read, places and saves.
`TradingCore` takes the table from `PositionLifecycle`, which the monitor is
proved to implement, so it need not carry the monitor's control.

### OrderRouter

A task's call of `execute` is a record with its program counter: `step` (awaiting
`exchange_info`), `order` (the order on Binance), `create` and `post` (Polymarket),
`save` (the INSERT).  `stepCache` is `_lot_step_cache`: two tasks may both find a symbol
missing and both fetch it.  The quantity is formatted to six decimals and then
truncated to the step, so quantities asked for are in tenths of a micro-unit and
quantities ordered in micro-units.  `Unit` is the fallback step "1".  An answer of
Polymarket without an order id counts as an order in the code, and does here.

### CandlePipeline

One symbol and interval; candles are numbered as they close.  The unit is the
*arrival*: a run of the kline callback on a close, numbered in the order in which
the callbacks ran, with its candle and its connection in `arrivals`.  It is not the
candle, because a close may arrive several times: when a subscription fails, the
callbacks already attached stay (`exchange/binance_stream.py:154`), the retry
subscribes on a new connection, and both fill one queue (`BinanceStream` counts the
connections left behind; `Subscribe` makes one).  Nor need it arrive: a connection
delivers in order but skips what fell into a reconnection of the SDK, and a close
between two connections reaches neither.  `passed` is, for each connection, the
newest close it is past.  A message that does not parse is lost at its arrival
(`Deliver`).  An update of an open candle is `OpenKline`: it takes a place in the
queue and changes nothing further down.

`window` is the newest candle among those `compute_indicators` fetched, which is all
its result's freshness depends on.  `lost` records where a close was given up:
unreadable, at the stream queue, at the closed queue, or by an error.  Redis and
the hub are best effort in the code, so their failure has no effect here.

What a second delivery does is in the properties.  A candle is decided on as often as
it arrives and gets through, at most once per connection (`DecidedInOrder`); one of its
closes may be decided on and another lost (`NothingVanishes` counts arrivals); and
an indicator row may stop short of its candle in one case: the upsert failed for the
close in the loop's hand, the loop fetched its window, and the second delivery made
the row before the INSERT looked for it (`IndicatorCoversCandle`).

`CandleFates` is what all this promises: a close that has arrived is open until it is
decided on or given up.  A decision is on the oldest open close.  One is given
up at its arrival (unreadable, or the stream queue is full), when it is the oldest (an
error), or behind `MayWait` older ones (the closed queue is full).  The open closes
are those on the road of `CandlePipeline` before `Done`, and `MayWait` is the closed
queue's capacity.

### PolymarketStream, BinanceStream, StreamLifecycle

`pm` is where the Polymarket task is suspended: connecting, subscribing, reading or
in its pause; `delay` and `received` are the variables of the same names in `start()`
and `_connect()`.  The stop flag is looked at after a message and around the pause, as
the code does, so a silent server keeps the task reading.  Updates are numbered as
they are sent; `taken` is the newest the queue accepted.

`bn` is where the Binance task is suspended; each attempt makes a new connection, and
the streams of a connection (kline and ticker of each symbol) are subscribed one
await at a time.  `stop()` is two actions, because it awaits the closing of the
connection it found in the field: the task goes on in between.  A drop of an
established connection is handled inside the SDK, which reconnects.

`StreamLifecycle` adds the shutdown event and the watcher, which stops Binance first
and sets the Polymarket flag when that has returned.

### WebSocketHub, DashboardStore, LiveFeed

`sending` is each publisher's broadcast: the message, the sockets it has not yet
reached and those that raised.  A send waits while the client has `ChannelCap`
messages unread; a send to a client that has gone may return or raise.  Aggregator
and decision loop await their broadcast; tickers have tasks of their own and a
throttle on the clock.

A candle message is numbered twice the candle's time, plus one when it is closed, so
that the number says both which candle and how late it is.  `series`, `pending` and
`shown` are the chart, the tick buffer and the decision list; `answer` is a list's
request: nothing, asked, or the rows on their way, a page of the newest `PageSize` of
the table.  `asOf` is the newest row of the last answer that arrived.  `LiveFeed`
numbers candles and decisions as they enter the tables, records in `missed` what was
broadcast while the page could not hear and in `dropped` what the page had and lost.
An open candle is broadcast any number of times.  A message of kind "late" is a candle
that a connection left behind delivers again, at any time, open or closed.  INSERTs
succeed and every close arrives here; what their failures and losses cost is in
`CandlePipeline`.

### RestClient

A view runs its effect when it is mounted, when what it shows changes and when retry
is pressed; each run starts a chain of at most `Attempts` requests.  A chain awaits a
fetch or pauses before the next request; a fetch is in its headers, under the
time-out, or in its body, under none.  `inFlight` is the map of `restClient.ts`.  The
hook aborts under its own key, which is never a key of the map, so the abort of
`useListFetch` finds nothing; the model keeps both kinds of key.

### SocketClient

`ready` holds the `readyState` of the sockets, `socket` is the client's field.
`close()` begins to close; the close event comes later and runs the handler of
*that* socket, which writes the field whichever socket the field holds.

## 3. Runs

| Run | Instance | What it shows |
|---|---|---|
| `Monitor` | 2 rows on one symbol, 3 contracts, prices 1..3, 1 fault | `DuplicatesNeedFaults`, `CloseJustified`, `TrailTracksBest`, `TrailingRatchets`, `NoOrderForClosed`, `NoPositionStuck`, `ImplementsLifecycle` |
| `Manager` | 3 rows, losses at, above and below the 15 % limit, an amount that needs rounding | `BreakerAgreesWithDrawdown`, `SnapshotIsConsistent`, `HighWaterMarks`, `SnapshotCatchesUp` |
| `CoreSafety` | 2 rows on 2 symbols, 2 decisions, a loss that takes the whole balance | `OneOrderPastBreaker`, `OrdersAreSized` |
| `Orders` | 2 tasks, 2 Binance symbols with different steps, 1 token, 3 orders of 4 quantities, 2 faults | `OrderedAsAsked`, `RefusalsExplained`, `RowsMatchOrders`, `StepIsSettled` |
| `Pipeline` | 2 candles, 2 connections, 3 arrivals, stream queue 2, closed queue 1, `MIN_CANDLES` 1, 1 failed call | `DecidedInOrder`, `NothingVanishes`, `IndicatorCoversCandle`, `ImplementsFates`, `QueuedIsSettled`, `ShutdownCompletes` |
| `Streams` | 1 Polymarket symbol, cap of 3 base delays, queue 2, 3 updates, 3 lost connections; 2 Binance streams, 2 failed calls | `BackoffIsExponential`, `CacheIsCurrent`, `ConnectionsAccounted`, `WaitsFullySubscribed`, `ShutdownReaches` |
| `Feed` | 2 sockets of the page and 1 of another client, channel 1, pages of 2 candles and 1 decision, a list of 2; nine workloads, two of them with late candles | `RowsAccounted`, `SeriesAscending`, `PublishedInOrder`, `BroadcastEnds` |
| `Requests` | 2 views, 2 lists, 3 attempts, 3 runs of the effects | `OneFetchPerQuery`, `AwaitedIsInFlight`, `SettledViewIsCurrent`, `ViewsSettle` |
| `Socket` | 3 sockets, 4 mounts, 4 drops | `OneConnection`, `NeverStranded`, `BadgeIsHonest`, `ComesBack` |
| `BreakerGap` | 1 decision | **violated**: an order is placed after the breaker was stored |
| `SaveCandleFails` | only the upsert may fail | **violated**: the loop gives the fanned-out candle up |
| `SecondSocket` | 1 drop | **violated**: `connect()` makes a second socket beside an open one |

Why the bounds are enough.

- `Monitor`: two rows are what it takes for one to be stale in the batch while the
  other is closed; three prices around the entry put every pair of exit rules on both
  sides and let a stop be reached from above and below.  One fault separates
  `1 + faults` from `1`.
- `Manager`, `CoreSafety`: three rows let a row close before, between and after the
  manager's two reads.  Two decisions let one read the old snapshot and one the new.
- `Orders`: once formatted, the quantities are less than every step; a multiple of
  both steps but less than the fallback; a multiple of both and more than the fallback;
  and a multiple of none.  Formatting rounds up in two of them and down in one.  Two tasks
  fetch the step of one symbol at once, one of them in vain; two faults let one order lose
  its row and another its answer.
- `Pipeline`: three closes fill the loop's hand and the closed queue and drop the third;
  updates of open candles fill the stream queue.  Two candles from two connections
  are what it takes for a close to come twice, in a row or around another, and for
  a window to stop short of its candle.
- `Streams`: three lost connections reach the cap and begin again after a healthy
  one; the queue overflows with three updates; two streams put `stop()` between two
  subscriptions; two faults let a start fail and then a close.
- `Feed`: every behaviour has one of the workloads in `MCLiveFeed`: two candles, two
  decisions with a failed fetch, one of each, tickers, one socket with four
  decisions or three candles, or one or two candles that come late again.  A channel of one message makes every second send wait.
  Three candles do not fit a page, and of four decisions some do not fit the page and
  some push others off the list, in either order.
- `Requests`: one view leaves a list while the other arrives; three attempts
  separate the first, a middle and the last.  `FetchId` is never exhausted, because at
  most one fetch per list is under way.
- `Socket`: three sockets are one more than two overlapping mounts leave behind.

Deadlock is checked in `Monitor`, `Manager`, `CoreSafety` and `BreakerGap`.  The other
systems really stop: the tasks end after the shutdown, workloads and mounts are used
up, every request is answered.

### What the violated runs say of the code

- `BreakerGap`: README.md:314 promises that no order is placed while the breaker is
  active.  The bound that does hold, one order, is `OneOrderPastBreaker`.
- `SaveCandleFails`: `market/aggregator.py:141` wants a failed upsert not to cost the
  decision; `save_indicator` needs the row and raises.  What does hold is in
  `NothingVanishes`: errors cost no more closes than calls failed.
- `SecondSocket`: `api/websocketClient.test.ts:10`; `onclose` clears the field
  without asking whose socket closed.  What does hold is `OneConnection`.

### Disagreements without a run

Seen while modelling; a run would only repeat a line of code.

- README.md:245 calls `GOLD_MAX_POSITIONS` the maximum of concurrent open positions;
  `main.py:205` counts those of one symbol.
- `engine/risk.py:50` lets SELL through because it "closes an existing position";
  nothing looks for one.
- `analysis/indicators.py:22` says "for the given candle"; the query takes the latest
  rows.  What does hold is `IndicatorCoversCandle`.
- spec-2, line 64, says the placed order is persisted; an INSERT that fails after the
  exchange took the order leaves no trace.  `RowsMatchOrders` bounds how many.
- `exchange/polymarket_stream.py:14` says that the backoff resets "whenever a connection
  succeeds and delivers at least one message before dropping"; a connection that ends
  in an error forgets that it delivered any (`EndsInError`).
- `exchange/polymarket_stream.py:188` wants a single bad message never to interrupt the
  stream; JSON that is not an object, or a symbol that is not a string, raises outside
  the `try`.
- `exchange/binance_rest.py:104` falls back to "no rounding applied"; the fallback step
  truncates to whole units, and is cached for the life of the process.
- `hooks/useListFetch.ts:23` aborts "the previous request"; its key is never a key of the
  in-flight map.  If it were, a view would abort the fetch another view shares, and
  `OneFetchPerQuery` would fail (its mutant `HookKeyIsRequestKey`).
- `components/DecisionLog/DecisionLog.tsx:26` wants live decisions to "augment the initial
  load"; the answer replaces what the socket pushed while it was on its way, and a
  decision that is in the answer and pushed after it is shown twice.
- A message that arrives before the next frame replaces the last update of a closed
  candle in the tick buffer, and nothing is fetched after a reconnection: the chart
  keeps the gap until the page asks again (`RowsAccounted` names these cases).

## 4. Fairness

- `Monitor`: weak fairness of the monitor's own steps together (`Cycle`): calls
  return and the loop goes round.  Nothing is assumed of prices, restarts or
  failures.  `NoPositionStuck` is therefore about a running agent with a price.
- `Manager`: the timer fires (weak fairness of `FetchClosed`), and a query tried for
  ever is not refused for ever (strong fairness of the other two): a failure
  resets the snapshot, so weak fairness would be satisfied by failing always.
- `Pipeline`: weak fairness of each task and of the shutdown watcher.  Nothing is
  assumed of the stream or of the signal.
- `Streams`: weak fairness of the Binance task, of the watcher, of connecting,
  subscribing and waking, and of the collector: calls return or raise, pauses elapse.
  Nothing is assumed of the Polymarket server, which need neither send nor close;
  hence the exception in `ShutdownReaches`.
- `Feed`: a client reads what it is sent or its connection ends.  Sends have strong
  fairness: several publishers may wait for one client, whose buffer is full again
  after each of them, and asyncio wakes waiters in turn.
- `Requests`: headers come or the time-out aborts, pauses elapse.  Nothing is assumed
  of bodies, which the time-out does not cover: `ViewsSettle` excepts a view whose
  body never comes.
- `Socket`: timers fire, closing sockets close, and a connecting socket opens unless
  the network drops it, which it does at most `MaxDrops` times.

## 5. Proofs

All theorems hold for every value of the constants that meets the named
assumptions (prices and amounts are integers, `None` is none of the values, bounds
and capacities are naturals, capacities positive).

- **PositionMonitorProofs.** `IInv` strengthens the type invariant with what the
  program counter implies for the row in hand (`HandInv`: it is in the batch, and the
  reason in hand is the one its copy and the price give), what a copy in the batch
  implies (`BatchInv`: its row is open and equal to it, but for a stop about to be
  saved), and the count of attempts (`AttemptInv`: a row still open has had no more
  attempts than faults, save the one under way).  It is needed because the code checks
  a row's status only in the SELECT: that nobody else closes a row in the meantime is
  a fact about the whole cycle.  From it follow `TypeCorrect`,
  `AtMostOneExtraOrderPerFault`, `ClosesAreJustified`, and, step by step under
  `StepInv`, `ClosedRowsAreFinal`, `NoOrdersForClosedRows`, `TrailingStopsRatchet`
  and `MonitorImplementsLifecycle`, the refinement of `PositionLifecycle`.  `TrackInv`
  adds where the stop in the copy and in the row stand relative to the best price
  read; `TrailFollowsBest` follows.
- **TradingCoreProofs.** The manager's total is a fold over a set of rows; that it
  exists, is an integer and depends only on its own rows is proved by assuming a
  smallest set for which it does not.  `AccountInv` says that a snapshot, stored or
  about to be, was computed from one set of closed rows, that its figures agree, and
  that its marks are at least those of the snapshot it follows; closed rows do not
  change, so a later close does not disturb it.  `BreakerAgrees`,
  `SnapshotsAreConsistent` and `HighWaterMarksNeverFall` follow for the manager alone,
  `AccountHoldsInCore` for the composition.  `LoopInv` adds that the loop's copy is of a
  snapshot that was stored and that an order it holds was sized by a balance that
  was there; with the account it gives `OrdersStaySized`: the gate refuses a balance
  that has lost the limit, so one that passes is positive.  The assumptions are what
  `main.py` and `config.py` set: the manager's initial balance and the loop's default
  are the same 10 000 (`main.py:99`, `main.py:213`), a whole number of cents
  (`MoneyAssumption`), and the limit (15 % by default, `config.py:45`) leaves at least a
  cent of it (`CoreAssumption`), and a traded symbol closes at a positive price
  (`LoopAssumption`; at zero, `main.py:216` would make the order empty).
  `BreakerInv` says that once the breaker is stored and an
  order got past it, the loop holds no intent, and a snapshot it has already read is
  one the gate refuses; `AtMostOneOrderPastBreaker` follows.
- **OrderRouterProofs.** `QuantityInv` says what a call has worked out so far: its
  quantity is the formatted one, truncated by its step, and the step is the symbol's
  or, after a failed fetch, the unit.  `LedgerInv` counts: orders, rows and the calls
  between the two have different numbers, and orders without a row are paid for by
  faults.  From them `OrdersTypeCorrect`, `OrdersAreAsAsked`, `RefusalsAreExplained`,
  `StepsSettle` and `BooksDifferByFaults`, for any number of tasks and symbols.
- **CandlePipelineProofs.** Every step of the pipeline moves at most one close one
  place along the road: stream, queue, aggregator, queue, loop, decided.  `RoadInv`
  orders the places, `QueuesInOrder` the closes within a queue, `DeliveryInv` those of
  one connection; `DecisionsInOrder` follows, the bound on the decisions of a candle
  because the connections of its closes are all different.  Nothing is assumed about how
  often a close is delivered.  `LossInv` says a close that arrived is on the road or in
  one place of `lost`; `CostInv`, that closes past the aggregator whose candle has no row
  are paid for by a fault, both before and after they are given up, which
  `CandlesAccounted` needs because one failed upsert costs a close two tasks later.
  `WindowInv` relates the fetched window to the close in hand (`IndicatorsCover`), with
  `RowInv` for the exception: a close past the aggregator has a row or is in `unsaved`.
  Also `PipelineTypeCorrect`.  The six moves of `RoadStep` are the steps of the
  refinement too (`NextIsFate`): a callback is `Arrive`, the loop's last step is `Decide`
  or `GiveUp` of the oldest because of `RoadInv`, a full closed queue is `GiveUp` behind
  as many older ones because its closes are distinct (`WaitingCount`), and the other
  moves change nothing (`PipelineImplementsFates`).
- **StreamLifecycleProofs.** `PriceInv`: the waiting updates of a symbol ascend from its
  cache entry to the newest one taken.  `BnInv`: until somebody stops it, the client
  in the field is the last one made and each one before it cost a failed call.
  `StreamsTypeCorrect`, `CacheFollowsQueue`, `WaitingIsSubscribed` and
  `ForgottenConnectionsAreAccounted` follow.  `PausesDouble` needs of the powers of two
  that each is a positive number twice the one before, which a smallest counterexample
  gives.
- **LiveFeedProofs.** `WireInv`: each kind of message has one publisher, which
  publishes rising numbers (late candles apart, which no order is claimed of) and waits for a broadcast before it begins the next, so what
  waits in a channel is older than what its publisher is still sending there;
  `ClientsHearInOrder` follows.  `ChartInv`: the chart and the answer that may replace
  it rise; `ChartIsInOrder` follows.  `RowsInv` follows each row of a table: up to the
  newest of the last answer it is on the page, too old for it, or was pushed off; after
  that it is on the page, lost in a way that `missed` or `dropped` names, or on its way
  to the page's socket.  On its way (`OnWay`) means to a socket that is still there:
  `Coming`, which the property uses, still counts what a vanished socket's channel
  holds, and the page may open another.  `PageAccountsForRows` follows.  It takes from
  the code that the page of 100 decisions fits the list of 500 (`StoreAssumption`).
- **RestClientProofs.** `MapInv`: the map's entries and the fetches under way
  correspond.  `ChainInv`: a chain awaits a fetch of its own query.  `RunInv`: a
  view's last run is loading, or has settled with its outcome.  `FetchesAreShared`,
  `NobodyAwaitsNothing` and `SettledViewsAreCurrent` follow.
- **SocketClientProofs.** An unmounted client has neither field nor timer, a mounted
  one has its flag down, and without an overlapping mount every socket that is not
  closed is the field's.  `OneConnectionHolds`, `MountedPageIsNeverStranded` and
  `OpenMeansASocket` follow.

Of the abstract values the modules assume only that they are not something else: `None`
is no candle and no snapshot, `Idle` no broadcast, `Nothing` and `Asked` no rows.

Only model-checked are the liveness properties (`NoPositionStuck`, `SnapshotCatchesUp`,
`QueuedIsSettled`, `ShutdownCompletes`, `ShutdownReaches`, `BroadcastEnds`, `ViewsSettle`,
`ComesBack`), which the proof system cannot treat under fairness.  Every safety
property a passing run checks, the refinements included, is a theorem.

## 6. Not modelled

- Indicator formulas and the text of prompts: data without control.  The parsing of
  the LLM's answer, which ends in a decision or in HOLD.
- The balance queries of both REST clients, with the latch that stops Polymarket's
  after a 401, and the derivation of credentials: nothing modelled reads them.
- The API handlers other than the two lists and the socket (they only read), the
  retention job, the schema beyond the constraint that a `candle_id` may not be null,
  configuration.
- `publish_position`, `publish_trade` and `publish_metrics`, which have no caller, and
  the setters they would feed; `ticker_update`, which the dashboard ignores.
- `useAsyncResource`, whose state no other hook shares, and rendering.

## 7. Plan

What is left, in order of weight:

1. `TickerCache`: prices with a time, written by the ticker callback and by the
   aggregator in either order, read by the monitor (`market/aggregator.py:108`).
2. The REST client's list parameters and the reconnecting page in one module, to check
   what a refetch after a reconnection would repair.
3. A decision pushed by the socket and contained in the answer that arrives before it
   is shown twice (`store/index.ts:193`): how many such rows there can be.
