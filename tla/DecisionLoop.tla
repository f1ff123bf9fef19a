---------------------------- MODULE DecisionLoop ----------------------------
(***************************************************************************)
(* The part of indicator_and_decision_loop (main.py) that follows the      *)
(* LLM's answer, with the risk gate and the executor: the decision is      *)
(* published, the latest snapshot and the symbol's open positions are read *)
(* one after the other, the gate is applied to what was read, and an order *)
(* is placed and saved.  Each database or network call is a step of its    *)
(* own; the positions and the snapshot change in between.                  *)
(***************************************************************************)
EXTENDS RiskGate, FiniteSets, Sequences

CONSTANTS
    Symbol, SymbolOf,
    Confidence,     \* confidences the LLM answers with
    SizePercent,    \* GOLD_MAX_POSITION_SIZE_PERCENT
    DefaultBalance, \* the 10_000.0 used while there is no snapshot, in grains
    EntryPrice,     \* candle.close_price, of a symbol that is traded
    DryRun,         \* GOLD_DRY_RUN
    MaxDecisions    \* bound on the decisions of a behaviour

ASSUME LoopAssumption ==
    /\ Confidence \subseteq 0 .. 100
    /\ SymbolOf \in [Position -> Symbol]
    /\ SizePercent \in 1 .. 100
    /\ DefaultBalance \in Nat \ {0}
    /\ EntryPrice \in Nat \ {0}
    /\ DryRun \in BOOLEAN
    /\ MaxDecisions \in Nat

VARIABLES
    loop,           \* where the decision loop is suspended
    decision,       \* the decision in hand
    portfolio,      \* the local copy of the snapshot
    order,          \* the intent handed to the executor
    decisions,      \* how many decisions were taken
    book,           \* orders the exchange took, oldest first
    saved           \* how many of them the orders table holds

loopLocal == <<loop, decision, portfolio, order>>
ledger    == <<book, saved>>
shared    == <<status, snapshot>>

OpenOf(s) == {p \in Position : status[p] = "open" /\ SymbolOf[p] = s}

LoopInit ==
    /\ loop = "wait"
    /\ decision = None /\ portfolio = None /\ order = None
    /\ decisions = 0
    /\ book = << >> /\ saved = 0

\* Back to the queue, whether the work is done or an exception was logged.
Await == loop' = "wait" /\ decision' = None /\ portfolio' = None /\ order' = None

\* evaluate() has answered, saved the decision and it was broadcast.
Decide(s, a, c) ==
    /\ loop = "wait"
    /\ decisions < MaxDecisions
    /\ decision' = [symbol |-> s, action |-> a, confidence |-> c]
    /\ decisions' = decisions + 1
    /\ loop' = "portfolio"
    /\ UNCHANGED <<shared, portfolio, order, ledger>>

ReadPortfolio ==
    /\ loop = "portfolio"
    /\ portfolio' = snapshot
    /\ loop' = "positions"
    /\ UNCHANGED <<shared, decision, order, decisions, ledger>>

\* The order is sized from the copy of the snapshot: its value is a share of
\* the balance, whatever positive entry price divides it, and nothing without
\* one.  The share is a float, here a number of hundredths of a grain.
Intent ==
    LET balance == IF portfolio = None THEN DefaultBalance ELSE portfolio.balance
    IN  [symbol |-> decision.symbol, side |-> decision.action,
         value |-> IF EntryPrice > 0 THEN balance * SizePercent ELSE 0]

Actionable == decision.action \in {"BUY", "SELL"}

\* fetch_open_positions, for the symbol of the candle, and the gate.
ReadPositions ==
    /\ loop = "positions"
    /\ IF /\ Check(decision, portfolio, Cardinality(OpenOf(decision.symbol))) = None
          /\ ~DryRun
          /\ Actionable
       THEN /\ order' = Intent
            /\ loop' = "place"
            /\ UNCHANGED <<decision, portfolio>>
       ELSE Await
    /\ UNCHANGED <<shared, decisions, ledger>>

PlaceDecisionOrder ==
    /\ loop = "place"
    /\ book' = Append(book, order)
    /\ loop' = "save"
    /\ UNCHANGED <<shared, decision, portfolio, order, decisions, saved>>

\* The exchange refused the order, or took it and the answer was lost.
PlaceDecisionOrderFails ==
    /\ loop = "place"
    /\ book' \in {book, Append(book, order)}
    /\ Await
    /\ UNCHANGED <<shared, decisions, saved>>

SaveDecisionOrder ==
    /\ loop = "save"
    /\ saved' = saved + 1
    /\ Await
    /\ UNCHANGED <<shared, decisions, book>>

\* A failed read or INSERT, or a crash of the process: the candle is lost.
LoopFails ==
    /\ loop # "wait"
    /\ Await
    /\ UNCHANGED <<shared, decisions, ledger>>

LoopStep ==
    \/ \E s \in Symbol, a \in Action, c \in Confidence : Decide(s, a, c)
    \/ ReadPortfolio \/ ReadPositions
    \/ PlaceDecisionOrder \/ PlaceDecisionOrderFails \/ SaveDecisionOrder
    \/ LoopFails
=============================================================================
