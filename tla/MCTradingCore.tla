--------------------------- MODULE MCTradingCore ---------------------------
(***************************************************************************)
(* Small instances of TradingCore.  A balance of 200 grains and a limit of *)
(* 15 %: one loss of 29 leaves the breaker off, two trip it, and a loss   *)
(* of 250 takes the whole balance.                                         *)
(***************************************************************************)
EXTENDS TradingCore, TLC

CONSTANTS p1, p2, p3, s1, s2

MCSymbolOf == [p \in Position |-> IF p = p1 THEN s1 ELSE s2]
MCAmounts == {-250, -29, 21}
=============================================================================
