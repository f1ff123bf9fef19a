------------------------- MODULE MCStreamLifecycle -------------------------
(***************************************************************************)
(* A small instance of StreamLifecycle: a cap of three base delays, which  *)
(* no doubling hits exactly; a queue of two prices, which three updates    *)
(* fill; one symbol of Polymarket, one of Binance with its two streams.    *)
(***************************************************************************)
EXTENDS StreamLifecycle
=============================================================================
