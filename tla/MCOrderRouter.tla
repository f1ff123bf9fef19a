---------------------------- MODULE MCOrderRouter ----------------------------
(***************************************************************************)
(* A small instance of OrderRouter: a unit of six micro-units, a symbol    *)
(* with a step of two and one with a step of four, which the unit is no    *)
(* multiple of; quantities below a step, above it, and that round up.      *)
(***************************************************************************)
EXTENDS OrderRouter

CONSTANTS btc, doge

MCStepOf == [s \in BinanceSymbol |-> IF s = btc THEN 2 ELSE 4]
MCQuantity == {14, 38, 75, 130}
=============================================================================
