---------------------------- MODULE MCLiveFeed ----------------------------
(***************************************************************************)
(* Small instances of LiveFeed: behaviours of candles, from one connection *)
(* or also from one left behind, of decisions, or of one of each, with     *)
(* fetches and failures, and behaviours of tickers.  The third candle does *)
(* not fit a page of the chart, and of four decisions some do not fit a    *)
(* page of the log and some push others off its list.                      *)
(***************************************************************************)
EXTENDS LiveFeed

CONSTANTS w1, w2, o1

Load(sockets, c, d, s, f, x, l) ==
    [sockets |-> sockets, candles |-> c, decisions |-> d, seconds |-> s, fetches |-> f, failures |-> x, late |-> l]

MCPageSize == [l \in List |-> IF l = "candles" THEN 2 ELSE 1]

MCWorkload ==
    {Load({w1, w2}, 2, 0, 0, 1, 0, FALSE), Load({w1}, 2, 0, 0, 2, 0, TRUE),
     Load({w1, w2}, 1, 0, 0, 1, 0, TRUE), Load({w1, w2, o1}, 0, 2, 0, 1, 1, FALSE),
     Load({w1, w2}, 0, 2, 0, 2, 1, FALSE),
     Load({w1, w2}, 1, 1, 0, 1, 0, FALSE), Load({w1, o1}, 0, 1, 2, 0, 0, FALSE),
     Load({w1}, 0, 4, 0, 1, 0, FALSE), Load({w1}, 3, 0, 0, 1, 0, FALSE)}
=============================================================================
