------------------------- MODULE MCPortfolioManager -------------------------
(***************************************************************************)
(* Small instances of PortfolioManager.  A balance of 200 grains, four to  *)
(* a cent, and a limit of 15 %: a loss of 29 leaves the breaker off, one   *)
(* of 31 trips it, 30 is the limit itself; 21 lifts the balance over the   *)
(* peak and needs rounding.                                                *)
(***************************************************************************)
EXTENDS PortfolioManager

CONSTANTS p1, p2, p3

MCAmounts == {-31, -30, -29, 1, 21}
=============================================================================
