---------------------------- MODULE TradingCore ----------------------------
(***************************************************************************)
(* The tasks of main.py that decide, gate and account for trades, over the *)
(* tables they share: the decision loop, the portfolio manager and the     *)
(* positions table.  The table moves as PositionLifecycle says, which      *)
(* PositionMonitor is shown to implement, so the monitor's own control     *)
(* does not appear here.  A crash takes every task's local state at once   *)
(* and leaves the tables.                                                  *)
(***************************************************************************)
EXTENDS DecisionLoop, PortfolioManager

CONSTANTS
    MaxAttempts       \* bound on the closing orders for one row

VARIABLES
    attempts,         \* with status and pnl, the positions table
    past              \* history: orders the exchange took since the breaker tripped

Table == INSTANCE PositionLifecycle

\* The manager starts from at least what the loop assumes without a snapshot
\* (both are the 10_000.0 of main.py), and the drawdown limit leaves a cent of it.
ASSUME CoreAssumption ==
    /\ DefaultBalance <= InitialBalance
    /\ (10000 - MaxDrawdown) * InitialBalance >= 10000 * Cent

tableVars == <<status, pnl, attempts>>
loopVars  == <<loopLocal, decisions, ledger>>
vars      == <<tableVars, snapshot, mgrVars, loopVars, past>>

Tripped == snapshot # None /\ snapshot.breaker

\* History: how many orders got through since the stored breaker is active.
CountPastBreaker ==
    past' = IF Tripped' THEN past + Len(book') - Len(book) ELSE 0

Init ==
    /\ Table!Init
    /\ MgrInit
    /\ LoopInit
    /\ past = 0

TableStep   == /\ Table!Next
               /\ \A p \in Position : attempts'[p] <= MaxAttempts
               /\ UNCHANGED <<snapshot, mgrVars, loopVars, past>>
Sampling(A) == A /\ UNCHANGED <<attempts, loopVars>> /\ CountPastBreaker
ManagerStep == Sampling(MgrStep \/ SnapshotFails)
TradeStep   == LoopStep /\ UNCHANGED <<pnl, attempts, mgrVars>> /\ CountPastBreaker

Crash ==
    /\ loop # "wait" \/ mgr # "sleep"
    /\ Await /\ MgrReset
    /\ UNCHANGED <<tableVars, snapshot, decisions, ledger, past>>

Next == TableStep \/ ManagerStep \/ TradeStep \/ Crash

Spec == Init /\ [][Next]_vars
-----------------------------------------------------------------------------
(* Properties.                                                             *)

\* Every variable keeps its type.
OrderType    == [symbol : Symbol, side : {"BUY", "SELL"}, value : Int]
DecisionType == [symbol : Symbol, action : Action, confidence : Confidence]
TypeOK ==
    /\ status \in [Position -> {"absent", "open", "closed"}]
    /\ pnl \in [Position -> Amount \cup {None}]
    /\ attempts \in [Position -> Nat]
    /\ MgrTypeOK
    /\ loop \in {"wait", "portfolio", "positions", "place", "save"}
    /\ decision \in DecisionType \cup {None}
    /\ portfolio \in SnapshotType \cup {None}
    /\ order \in OrderType \cup {None}
    /\ decisions \in 0 .. MaxDecisions
    /\ book \in Seq(OrderType)
    /\ saved \in Nat
    /\ past \in Nat

\* The breaker stops the loop with at most one order of delay: once a snapshot
\* with an active breaker is stored, only a decision that had already read the
\* one before can still reach the exchange.
OneOrderPastBreaker == past <= 1

\* No order is empty, negative or larger than the size limit allows for the
\* highest balance ever stored.  The loop never tests the balance: what keeps
\* it positive is that the drawdown gate refuses a snapshot with most of the
\* peak lost, and what keeps the order small is that the peak never falls.
OrdersAreSized ==
    \A i \in DOMAIN book :
        /\ book[i].value > 0
        /\ book[i].value <=
              SizePercent * (IF snapshot = None THEN DefaultBalance ELSE snapshot.peak)

\* "While active, ... no new orders are placed" (README, Circuit breaker).
NoOrderWhileBreakerActive == past = 0
=============================================================================
