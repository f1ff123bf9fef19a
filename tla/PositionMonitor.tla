-------------------------- MODULE PositionMonitor --------------------------
(***************************************************************************)
(* The position monitor (execution/position_monitor.py) with the executor  *)
(* it calls (execution/executor.py), the positions and orders tables it    *)
(* writes and the ticker cache it reads.                                   *)
(*                                                                         *)
(* An action is what runs between two awaits.  The cycle of run() is       *)
(*   FetchOpen      SELECT every open row into local copies                *)
(*   ReadPrice      GET the cached price of one row; ratchet and evaluate  *)
(*   SaveTrailing   the UPDATE of update_position, then evaluate           *)
(*   PlaceOrder     the exchange call of Executor.execute                  *)
(*   SaveOrder      the INSERT of save_order                               *)
(*   CloseRow       the UPDATE of close_position                           *)
(* and every one of those calls may fail, the database ones before or      *)
(* after they took effect.  Prices, rows of the table and crashes come     *)
(* from outside.                                                           *)
(***************************************************************************)
EXTENDS Integers

CONSTANTS
    Position,     \* ids of the rows that may come to exist
    Symbol,       \* traded symbols
    SymbolOf,     \* the symbol of each row
    Price,        \* prices the ticker cache can hold
    Terms,        \* the contracts a row can be opened with
    MaxFaults,    \* bound on failed calls that cost an exit, and on crashes
    None          \* an absent value (NULL, a cache miss, no exit reason)

Side   == {"LONG", "SHORT"}
Reason == {"TAKE_PROFIT", "STOP_LOSS", "TRAILING_STOP"}

\* entry, quantity, take profit, stop loss, trailing distance and the stop
\* the row is opened with.
TermsType == [side : Side, entry : Int, qty : Nat, tp : Int \cup {None},
              sl : Int \cup {None}, dist : Int \cup {None},
              trail : Int \cup {None}]

ASSUME PriceAssumption  == Price \subseteq Int
ASSUME NoneAssumption   == None \notin Int /\ None \notin Position /\ None \notin Reason
ASSUME SymbolAssumption == SymbolOf \in [Position -> Symbol]
ASSUME TermsAssumption  == Terms \subseteq TermsType
ASSUME FaultsAssumption == MaxFaults \in Nat

VARIABLES
    row,        \* the positions table, one record per id
    quote,      \* the ticker:{symbol}:price keys of Redis
    running,    \* _running, and the process being up
    pc,         \* where the monitor task is suspended
    batch,      \* local copies of the rows still to visit in this cycle
    cur, px, why, \* the row in hand, the price read for it, its exit reason
    attempts,   \* closing orders asked of the executor, per row
    accepted,   \* closing orders the exchange took, per row
    recorded,   \* closing orders saved in the orders table, per row
    seen,       \* best price the monitor has read for a row
    faults      \* faults so far

table   == <<row, seen>>
local   == <<pc, batch, cur, px, why>>
orders  == <<attempts, accepted, recorded>>
vars    == <<table, quote, running, local, orders, faults>>

-----------------------------------------------------------------------------
(* Prices relative to a side: for a LONG more is better, for a SHORT less.  *)

AtLeast(side, a, b) == IF side = "LONG" THEN a >= b ELSE a <= b
Better(side, a, b)  == AtLeast(side, a, b) /\ a # b
Best(side, a, b)    == IF a = None \/ Better(side, b, a) THEN b ELSE a

Candidate(pos, x) ==
    IF pos.terms.side = "LONG" THEN x - pos.terms.dist ELSE x + pos.terms.dist

\* Mutant: the stop is set once and never moved.
RatchetsOnce(pos, x) == pos.terms.dist # None /\ pos.trail = None

\* Mutant: the stop follows the price in both directions.
RatchetsAlways(pos, x) == pos.terms.dist # None

\* _update_trailing_stop moves the stop: never against the position.
Ratchets(pos, x) ==
    /\ pos.terms.dist # None
    /\ pos.trail # None => Better(pos.terms.side, Candidate(pos, x), pos.trail)

HitsTakeProfit(pos, x) ==
    pos.terms.tp # None /\ AtLeast(pos.terms.side, x, pos.terms.tp)
HitsStopLoss(pos, x) ==
    pos.terms.sl # None /\ AtLeast(pos.terms.side, pos.terms.sl, x)
HitsTrailing(pos, x) ==
    pos.trail # None /\ AtLeast(pos.terms.side, pos.trail, x)

\* _evaluate_exit: take profit before stop loss before trailing stop.
ExitReason(pos, x) ==
    IF HitsTakeProfit(pos, x) THEN "TAKE_PROFIT"
    ELSE IF HitsStopLoss(pos, x) THEN "STOP_LOSS"
    ELSE IF HitsTrailing(pos, x) THEN "TRAILING_STOP"
    ELSE None

\* _compute_pnl
PnL(pos, x) ==
    IF pos.terms.side = "LONG" THEN (x - pos.terms.entry) * pos.terms.qty
                               ELSE (pos.terms.entry - x) * pos.terms.qty

-----------------------------------------------------------------------------
AbsentRow == [status |-> "absent", terms |-> None, trail |-> None,
              exit |-> None, pnl |-> None, reason |-> None]

\* Mutant: a SELECT without its WHERE clause.
ExistingRows == {p \in Position : row[p].status # "absent"}

OpenRows == {p \in Position : row[p].status = "open"}

Init ==
    /\ row = [p \in Position |-> AbsentRow]
    /\ quote = [s \in Symbol |-> None]
    /\ running = TRUE
    /\ pc = "sleep"
    /\ batch = [p \in {} |-> AbsentRow]
    /\ cur = None /\ px = None /\ why = None
    /\ attempts = [p \in Position |-> 0]
    /\ accepted = [p \in Position |-> 0]
    /\ recorded = [p \in Position |-> 0]
    /\ seen = [p \in Position |-> None]
    /\ faults = 0

Fault == faults < MaxFaults /\ faults' = faults + 1

-----------------------------------------------------------------------------
(* Outside the monitor.                                                    *)

\* A row appears.  Nothing in the agent inserts one: save_position has no
\* caller, the rows come from whoever shares the database.
OpenPosition(p, t) ==
    /\ row[p].status = "absent"
    /\ row' = [row EXCEPT ![p] = [AbsentRow EXCEPT !.status = "open",
                                                   !.terms = t,
                                                   !.trail = t.trail]]
    /\ UNCHANGED <<seen, quote, running, local, orders, faults>>

\* cache_ticker_price, from the ticker callback and from the aggregator.
CacheTicker(s, x) ==
    /\ quote[s] # x
    /\ quote' = [quote EXCEPT ![s] = x]
    /\ UNCHANGED <<table, running, local, orders, faults>>

\* The 60 s TTL of the key runs out.
ExpireTicker(s) ==
    /\ quote[s] # None
    /\ quote' = [quote EXCEPT ![s] = None]
    /\ UNCHANGED <<table, running, local, orders, faults>>

-----------------------------------------------------------------------------
(* The monitor.                                                            *)

\* The next iteration of the loop over the batch, or the sleep after it.
Finish(p) ==
    /\ batch' = [q \in DOMAIN batch \ {p} |-> batch[q]]
    /\ pc' = IF DOMAIN batch = {p} THEN "sleep" ELSE "scan"
    /\ cur' = None /\ px' = None /\ why' = None

\* _close_position begins: execute is called for the row.
CallExecute(p, pos, x) ==
    /\ pc' = "place"
    /\ batch' = [batch EXCEPT ![p] = pos]
    /\ cur' = p /\ px' = x /\ why' = ExitReason(pos, x)
    /\ attempts' = [attempts EXCEPT ![p] = @ + 1]
    /\ UNCHANGED <<accepted, recorded>>

\* Mutant: the trailing branch of _evaluate_exit is missing.
EvaluateBracket(p, pos, x) ==
    IF ExitReason(pos, x) \in {"TAKE_PROFIT", "STOP_LOSS"} THEN CallExecute(p, pos, x)
    ELSE Finish(p) /\ UNCHANGED orders

\* _evaluate_exit on the local copy, and the close when it fires.
Evaluate(p, pos, x) ==
    \/ ExitReason(pos, x) = None /\ Finish(p) /\ UNCHANGED orders
    \/ ExitReason(pos, x) # None /\ CallExecute(p, pos, x)

\* A cycle over no rows, and a failed SELECT, change nothing.
FetchOpen ==
    /\ pc = "sleep" /\ running
    /\ OpenRows # {}
    /\ batch' = [p \in OpenRows |-> row[p]]
    /\ pc' = "scan"
    /\ UNCHANGED <<table, quote, running, cur, px, why, orders, faults>>

\* A cache miss skips the row until the next cycle.
SkipNoPrice(p) ==
    /\ pc = "scan" /\ p \in DOMAIN batch
    /\ quote[SymbolOf[p]] = None
    /\ Finish(p)
    /\ UNCHANGED <<table, quote, running, orders, faults>>

ReadPrice(p) ==
    /\ pc = "scan" /\ p \in DOMAIN batch
    /\ quote[SymbolOf[p]] # None
    /\ LET x   == quote[SymbolOf[p]]
           pos == batch[p]
       IN  \/ /\ Ratchets(pos, x)
              /\ pc' = "update"
              /\ batch' = [batch EXCEPT ![p].trail = Candidate(pos, x)]
              /\ cur' = p /\ px' = x
              /\ UNCHANGED <<why, orders>>
           \/ ~Ratchets(pos, x) /\ Evaluate(p, pos, x)
    /\ seen' = [seen EXCEPT ![p] = Best(batch[p].terms.side, @, quote[SymbolOf[p]])]
    /\ UNCHANGED <<row, quote, running, faults>>

\* Redis raises: _check_all_positions logs it and goes on with the next row.
ReadPriceFails(p) ==
    /\ pc = "scan" /\ p \in DOMAIN batch
    /\ Fault
    /\ Finish(p)
    /\ UNCHANGED <<table, quote, running, orders>>

\* update_position writes every mutable column back from the local copy.
WriteBack == row' = [row EXCEPT ![cur] = batch[cur]]

SaveTrailing ==
    /\ pc = "update"
    /\ WriteBack
    /\ Evaluate(cur, batch[cur], px)
    /\ UNCHANGED <<seen, quote, running, faults>>

\* A database error is neither a ValueError nor a TypeError: it leaves
\* _check_position, and the exit is not evaluated in this cycle.
SaveTrailingFails ==
    /\ pc = "update"
    /\ Fault
    /\ WriteBack \/ UNCHANGED row
    /\ Finish(cur)
    /\ UNCHANGED <<seen, quote, running, orders>>

PlaceOrder ==
    /\ pc = "place"
    /\ accepted' = [accepted EXCEPT ![cur] = @ + 1]
    /\ pc' = "save"
    /\ UNCHANGED <<table, quote, running, batch, cur, px, why, attempts, recorded, faults>>

\* Mutant: without an order the row is left open, to be tried again.
PlaceOrderFailsKeepsRow ==
    /\ pc = "place"
    /\ \/ accepted' = [accepted EXCEPT ![cur] = @ + 1]
       \/ UNCHANGED accepted
    /\ Finish(cur)
    /\ UNCHANGED <<table, quote, running, attempts, recorded, faults>>

\* execute() catches the exception and returns None: the exchange refused the
\* order, or took it and the answer was lost.
PlaceOrderFails ==
    /\ pc = "place"
    /\ \/ accepted' = [accepted EXCEPT ![cur] = @ + 1]
       \/ UNCHANGED accepted
    /\ pc' = "close"
    /\ UNCHANGED <<table, quote, running, batch, cur, px, why, attempts, recorded, faults>>

SaveOrder ==
    /\ pc = "save"
    /\ recorded' = [recorded EXCEPT ![cur] = @ + 1]
    /\ pc' = "close"
    /\ UNCHANGED <<table, quote, running, batch, cur, px, why, attempts, accepted, faults>>

\* execute() catches this one too: the order stands at the exchange only.
SaveOrderFails ==
    /\ pc = "save"
    /\ pc' = "close"
    /\ UNCHANGED <<table, quote, running, batch, cur, px, why, orders, faults>>

\* Mutant: the exit price is read again when the close is recorded.
MarkClosedAtQuote ==
    LET q == quote[SymbolOf[cur]]
        x == IF q = None THEN px ELSE q
    IN  row' = [row EXCEPT ![cur].status = "closed", ![cur].exit = x,
                           ![cur].pnl = PnL(batch[cur], x), ![cur].reason = why]

\* close_position sets five columns by id, whatever the row's status.
MarkClosed ==
    row' = [row EXCEPT ![cur].status = "closed", ![cur].exit = px,
                       ![cur].pnl = PnL(batch[cur], px), ![cur].reason = why]

CloseRow ==
    /\ pc = "close"
    /\ MarkClosed
    /\ Finish(cur)
    /\ UNCHANGED <<seen, quote, running, orders, faults>>

CloseRowFails ==
    /\ pc = "close"
    /\ Fault
    /\ MarkClosed \/ UNCHANGED row
    /\ Finish(cur)
    /\ UNCHANGED <<seen, quote, running, orders>>

-----------------------------------------------------------------------------
(* Stopping, crashing and starting again.                                  *)

\* stop() only clears the flag: the cycle under way is finished.
Stop ==
    /\ running
    /\ running' = FALSE
    /\ UNCHANGED <<table, quote, local, orders, faults>>

Crash ==
    /\ pc # "sleep"
    /\ Fault
    /\ running' = FALSE
    /\ pc' = "sleep"
    /\ batch' = [p \in {} |-> AbsentRow]
    /\ cur' = None /\ px' = None /\ why' = None
    /\ UNCHANGED <<table, quote, orders>>

Start ==
    /\ ~running /\ pc = "sleep"
    /\ running' = TRUE
    /\ UNCHANGED <<table, quote, local, orders, faults>>

-----------------------------------------------------------------------------
\* The steps the event loop is bound to take once their calls return.
Cycle ==
    \/ FetchOpen
    \/ \E p \in Position : SkipNoPrice(p) \/ ReadPrice(p)
    \/ SaveTrailing \/ PlaceOrder \/ PlaceOrderFails
    \/ SaveOrder \/ SaveOrderFails \/ CloseRow

Faulty ==
    \/ \E p \in Position : ReadPriceFails(p)
    \/ SaveTrailingFails \/ CloseRowFails \/ Crash

Environment ==
    \/ \E p \in Position, t \in Terms : OpenPosition(p, t)
    \/ \E s \in Symbol : ExpireTicker(s) \/ \E x \in Price : CacheTicker(s, x)
    \/ Stop \/ Start

Next == Cycle \/ Faulty \/ Environment

Spec == Init /\ [][Next]_vars

FairSpec == Spec /\ WF_vars(Cycle)
-----------------------------------------------------------------------------
(* Properties.                                                             *)

Row == [status : {"absent", "open", "closed"}, terms : Terms \cup {None},
        trail : Int \cup {None}, exit : Int \cup {None}, pnl : Int \cup {None},
        reason : Reason \cup {None}]

\* Every variable keeps its type; the local copies are copies of rows.
TypeOK ==
    /\ row \in [Position -> Row]
    /\ quote \in [Symbol -> Price \cup {None}]
    /\ running \in BOOLEAN
    /\ pc \in {"sleep", "scan", "update", "place", "save", "close"}
    /\ DOMAIN batch \subseteq Position
    /\ batch \in [DOMAIN batch -> Row]
    /\ cur \in Position \cup {None}
    /\ px \in Price \cup {None}
    /\ why \in Reason \cup {None}
    /\ attempts \in [Position -> Nat]
    /\ accepted \in [Position -> Nat]
    /\ recorded \in [Position -> Nat]
    /\ seen \in [Position -> Price \cup {None}]
    /\ faults \in 0 .. MaxFaults

\* A second closing order for a row is sent only after a fault: the close
\* write failed, or the process died between the order and the write.
\* _close_position marks the row closed even when execute returned None so
\* that "the next cycle does not re-trigger the same exit condition".
DuplicatesNeedFaults == \A p \in Position : attempts[p] <= 1 + faults

\* What close_position recorded is what the exit rules say of the row as the
\* table holds it: the reason is the first rule, in their order of priority,
\* that the recorded exit price meets against the row's own levels (the
\* trailing stop the monitor saved included), and the PnL is the one of that
\* price.  The row in the table, the local copy and the price the decision
\* was taken on could each have drifted apart over the awaits in between.
CloseJustified ==
    \A p \in Position : row[p].status = "closed" =>
        /\ row[p].reason = ExitReason(row[p], row[p].exit)
        /\ row[p].pnl = PnL(row[p], row[p].exit)

\* Between visits the saved trailing stop follows the best price the monitor
\* ever read for the row: it is never tighter than the distance allows, and
\* without a failed write it is not looser either.
TrailTracksBest ==
    \A p \in OpenRows \ {cur} :
        row[p].terms.dist # None /\ seen[p] # None =>
            /\ row[p].trail # None => 
                  \/ row[p].trail = row[p].terms.trail
                  \/ AtLeast(row[p].terms.side, Candidate(row[p], seen[p]), row[p].trail)
            /\ faults = 0 =>
                  /\ row[p].trail # None
                  /\ AtLeast(row[p].terms.side, row[p].trail, Candidate(row[p], seen[p]))

\* "The stop is never moved against the position" (_update_trailing_stop), nor
\* dropped, by any of the writers of the row.
TrailingRatchets ==
    [][\A p \in Position : row[p].status # "absent" /\ row[p].trail # None =>
          /\ row'[p].trail # None
          /\ AtLeast(row[p].terms.side, row'[p].trail, row[p].trail)]_vars

\* No closing order reaches the exchange, or is even asked for, once the row
\* is closed: the batch was read before the awaits of the rows visited first.
NoOrderForClosed ==
    [][\A p \in Position :
          attempts'[p] # attempts[p] \/ accepted'[p] # accepted[p] =>
              row[p].status = "open"]_vars

\* A closed row is never written again: neither write filters on the status,
\* so a stale local copy would reopen it or overwrite its exit and PnL.
ClosedIsFinal ==
    [][\A p \in Position : row[p].status = "closed" => row'[p] = row[p]]_vars

\* The monitor implements the life cycle the other components count on.
Lifecycle == INSTANCE PositionLifecycle WITH
    status <- [p \in Position |-> row[p].status],
    pnl    <- [p \in Position |-> row[p].pnl],
    Amount <- {PnL([terms |-> t], x) : t \in Terms, x \in Price}
ImplementsLifecycle == Lifecycle!Spec

\* A row whose exit condition holds at the cached price does not stay in that
\* state for ever while the agent runs: some cycle visits it, places the order
\* and records the close.
Due(p) ==
    /\ row[p].status = "open"
    /\ quote[SymbolOf[p]] # None
    /\ ExitReason(row[p], quote[SymbolOf[p]]) # None
NoPositionStuck == \A p \in Position : []<>~(running /\ Due(p))
=============================================================================
