--------------------------- MODULE StreamLifecycle ---------------------------
(***************************************************************************)
(* The two price streams and the collector as main.py runs and stops them: *)
(* on the shutdown event the watcher awaits BinanceStreamClient.stop(),    *)
(* then sets the flag of the Polymarket stream.  The process ends only     *)
(* once every one of these tasks has returned.                             *)
(***************************************************************************)
EXTENDS PolymarketStream, BinanceStream

VARIABLES
    shutdown,       \* shutdown_event
    watcher         \* where shutdown_watcher() is suspended

vars == <<pmVars, bnVars, shutdown, watcher>>

Init ==
    /\ PmInit
    /\ BnInit
    /\ shutdown = FALSE
    /\ watcher = "wait"

Signal ==
    /\ ~shutdown
    /\ shutdown' = TRUE
    /\ UNCHANGED <<pmVars, bnVars, watcher>>

\* polymarket_stream.stop()
PmStop == pmStopped' = TRUE

\* Mutant: the flag is set only when there was a client to close.
WatcherStopsForgetful ==
    /\ watcher = "wait" /\ shutdown
    /\ StopBegins
    /\ watcher' = IF client = NoClient THEN "done" ELSE "close"
    /\ UNCHANGED pmStopped
    /\ UNCHANGED <<pmLocal, priceQueue, cache, collector, sent, taken, shutdown>>

\* The watcher wakes up and runs to its first await: the closing of Binance's
\* connection, if there is one.
WatcherStops ==
    /\ watcher = "wait" /\ shutdown
    /\ StopBegins
    /\ IF client = NoClient THEN watcher' = "done" /\ PmStop
                            ELSE watcher' = "close" /\ UNCHANGED pmStopped
    /\ UNCHANGED <<pmLocal, priceQueue, cache, collector, sent, taken, shutdown>>

WatcherEnds ==
    /\ watcher = "close"
    /\ StopEnds
    /\ PmStop
    /\ watcher' = "done"
    /\ UNCHANGED <<pmLocal, priceQueue, cache, collector, sent, taken, shutdown>>

PolymarketStep == (PmStep \/ CollectorStops(shutdown)) /\ UNCHANGED <<bnVars, shutdown, watcher>>
BinanceStep    == BnStep /\ UNCHANGED <<pmVars, shutdown, watcher>>

Next ==
    \/ PolymarketStep \/ BinanceStep
    \/ Signal \/ WatcherStops \/ WatcherEnds

Spec == Init /\ [][Next]_vars

\* Calls return or raise, pauses and time-outs elapse, tasks that can run do
\* run.  Nothing is assumed of the Polymarket server: it need not send
\* anything, nor end the connection.
FairSpec ==
    /\ Spec
    /\ WF_vars(BinanceStep)
    /\ WF_vars(WatcherStops) /\ WF_vars(WatcherEnds)
    /\ WF_vars((PmConnect \/ PmSubscribe \/ PmWake) /\ UNCHANGED <<bnVars, shutdown, watcher>>)
    /\ WF_vars((Collect \/ CollectorStops(shutdown)) /\ UNCHANGED <<bnVars, shutdown, watcher>>)
-----------------------------------------------------------------------------
(* Properties.                                                             *)

TypeOK ==
    /\ PmTypeOK
    /\ BnTypeOK
    /\ shutdown \in BOOLEAN
    /\ watcher \in {"wait", "close", "done"}

\* After the shutdown event every task ends and stays ended, whatever it was
\* doing at that moment, with one exception: the Polymarket stream may be left
\* reading, its flag set, from a server that neither sends nor closes.  Nothing
\* else holds the process.
ShutdownReaches ==
    shutdown ~> [](/\ watcher = "done" /\ bn = "done" /\ collector = "done"
                   /\ pm = "done" \/ (pm = "read" /\ pmStopped))
=============================================================================
