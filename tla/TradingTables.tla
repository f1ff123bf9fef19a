--------------------------- MODULE TradingTables ---------------------------
(***************************************************************************)
(* What the trading tasks of main.py share: the tables of positions and of *)
(* portfolio snapshots, and the drawdown limit, which the manager compares *)
(* with the account and the gate with the stored snapshot.                 *)
(***************************************************************************)
EXTENDS Integers

CONSTANTS
    Position,       \* ids of the rows of the positions table
    MaxDrawdown,    \* GOLD_MAX_DRAWDOWN_PERCENT, in hundredths of a percent
    None

VARIABLES
    status,         \* the positions table: "absent", "open" or "closed"
    snapshot        \* the latest row of portfolio_snapshots, None before the first
=============================================================================
