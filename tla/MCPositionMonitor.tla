------------------------- MODULE MCPositionMonitor -------------------------
(***************************************************************************)
(* Small instances of PositionMonitor: prices 1..3, entered at 2.          *)
(***************************************************************************)
EXTENDS PositionMonitor, TLC

CONSTANTS p1, p2, s1

MCSymbolOf == [p \in Position |-> s1]

Contract(side, tp, sl, dist, trail) ==
    [side |-> side, entry |-> 2, qty |-> 2, tp |-> tp, sl |-> sl,
     dist |-> dist, trail |-> trail]

\* A trailing long; a long with all three kinds of exit, two of which the price
\* 1 can meet at once; a trailing short that is opened with a stop of its own.
MCTerms == { Contract("LONG", None, None, 1, None),
             Contract("LONG", 3, 1, 1, None),
             Contract("SHORT", 1, None, 1, 3) }
=============================================================================
