------------------------------ MODULE RiskGate ------------------------------
(***************************************************************************)
(* RiskGate.check (engine/risk.py): the rule-based gate between the LLM's  *)
(* decision and the order.  A decision is a record [action, confidence];   *)
(* a portfolio is a stored snapshot or None before the first one.          *)
(***************************************************************************)
EXTENDS TradingTables

CONSTANTS
    Threshold,      \* GOLD_CONFIDENCE_THRESHOLD
    MaxPositions    \* GOLD_MAX_POSITIONS

Action    == {"BUY", "SELL", "HOLD"}
Rejection == {"LOW_CONFIDENCE", "MAX_POSITIONS_REACHED", "MAX_DRAWDOWN_REACHED"}

ASSUME GateAssumption ==
    /\ Threshold \in 0 .. 100
    /\ MaxPositions \in Nat
    /\ MaxDrawdown \in Nat
    /\ None \notin Rejection

LowConfidence(d)       == d.confidence < Threshold
TooManyPositions(d, n) == d.action = "BUY" /\ n >= MaxPositions
DrawnDown(portfolio)   ==
    portfolio # None /\ (portfolio.breaker \/ portfolio.drawdown >= MaxDrawdown)

\* Mutant: the drawdown gate, like the one before it, is for BUY only.
CheckBuysOnly(d, portfolio, n) ==
    IF d.action = "HOLD"           THEN None
    ELSE IF LowConfidence(d)       THEN "LOW_CONFIDENCE"
    ELSE IF TooManyPositions(d, n) THEN "MAX_POSITIONS_REACHED"
    ELSE IF d.action = "BUY" /\ DrawnDown(portfolio) THEN "MAX_DRAWDOWN_REACHED"
    ELSE None

\* The rejection reason of the first gate that fails, None when all pass.
Check(d, portfolio, n) ==
    IF d.action = "HOLD"           THEN None
    ELSE IF LowConfidence(d)       THEN "LOW_CONFIDENCE"
    ELSE IF TooManyPositions(d, n) THEN "MAX_POSITIONS_REACHED"
    ELSE IF DrawnDown(portfolio)   THEN "MAX_DRAWDOWN_REACHED"
    ELSE None
=============================================================================
