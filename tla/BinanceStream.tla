---------------------------- MODULE BinanceStream ----------------------------
(***************************************************************************)
(* The connection life cycle of BinanceStreamClient                        *)
(* (exchange/binance_stream.py).  Connections are numbered as they are     *)
(* made; the streams of a connection (a kline and a miniTicker stream for  *)
(* each symbol) are subscribed in order, so their number says which.  What *)
(* the kline callback does is in CandlePipeline, the ticker callback in    *)
(* WebSocketHub.  stop() runs in the task of the caller, between the awaits *)
(* of the stream's own task.                                               *)
(***************************************************************************)
EXTENDS Naturals, FiniteSets

CONSTANTS
    BnStreams,      \* streams of a connection, two for each symbol
    MaxBnFaults     \* bound on the calls of the SDK that fail

ASSUME BinanceAssumption ==
    /\ BnStreams \in Nat \ {0}
    /\ MaxBnFaults \in Nat

\* A connection is made at the start and after every failure.
Connection == 1 .. MaxBnFaults + 1
NoClient   == 0

VARIABLES
    bn,             \* where the stream's task is suspended
    bnStopped,      \* _stopped
    made,           \* the connection _connect() made last
    client,         \* _ws_client
    closing,        \* the connection stop() is waiting to see closed
    open,           \* connections that are open
    streams,        \* callbacks registered on each connection
    early,          \* history: stop() came while a connection was being opened
    bnFaults

bnVars == <<bn, bnStopped, made, client, closing, open, streams, early, bnFaults>>

BnInit ==
    /\ bn = "start"
    /\ bnStopped = FALSE
    /\ made = 0 /\ client = NoClient /\ closing = NoClient
    /\ open = {}
    /\ streams = [c \in Connection |-> 0]
    /\ early = FALSE
    /\ bnFaults = 0

BnFault == bnFaults < MaxBnFaults /\ bnFaults' = bnFaults + 1

\* _connect() raises: nobody closes what it had opened.
Raises == bn' = IF bnStopped THEN "done" ELSE "backoff"

\* The loop's condition, at the start or after a pause, then the first lines of
\* _connect(): the new client replaces the one in the field.
BnConnect ==
    /\ bn \in {"start", "backoff"}
    /\ IF bnStopped
       THEN bn' = "done" /\ UNCHANGED <<made, client>>
       ELSE /\ made' = made + 1 /\ client' = made + 1
            /\ bn' = "connect"
    /\ UNCHANGED <<bnStopped, closing, open, streams, early, bnFaults>>

\* connect() of the SDK returns or raises.  The subscriptions that follow go
\* through the field, which stop() may have emptied: then they raise.
BnConnected ==
    /\ bn = "connect"
    /\ \/ /\ open' = open \cup {made}
          /\ IF client = NoClient THEN Raises ELSE bn' = "subscribe"
          /\ UNCHANGED bnFaults
       \/ BnFault /\ Raises /\ UNCHANGED open
    /\ UNCHANGED <<bnStopped, made, client, closing, streams, early>>

\* Mutant: the last stream is left out.
SubscribedUpTo(n) ==
    IF n >= BnStreams - 1 THEN bn' = "wait"
    ELSE IF client = NoClient THEN Raises
    ELSE UNCHANGED bn

\* The callback of the n-th stream is registered: the next one, or the wait.
Subscribed(n) ==
    IF n = BnStreams THEN bn' = "wait"
    ELSE IF client = NoClient THEN Raises
    ELSE UNCHANGED bn

\* kline() or mini_ticker() returns, and its callback is registered, or raises,
\* which it may well do once stop() has closed the connection.
BnSubscribe ==
    /\ bn = "subscribe"
    /\ \/ /\ streams' = [streams EXCEPT ![made] = @ + 1]
          /\ Subscribed(streams[made] + 1)
          /\ UNCHANGED bnFaults
       \/ /\ BnFault \/ (made \notin open /\ UNCHANGED bnFaults)
          /\ Raises
          /\ UNCHANGED streams
    /\ UNCHANGED <<bnStopped, made, client, closing, open, early>>

\* _stopped.wait() returns.
BnWakes ==
    /\ bn = "wait" /\ bnStopped
    /\ bn' = IF client = NoClient THEN "done" ELSE "close"
    /\ UNCHANGED <<bnStopped, made, client, closing, open, streams, early, bnFaults>>

\* close_connection() returns or raises; the exception is logged.
Closed(c) ==
    \/ open' = open \ {c} /\ UNCHANGED bnFaults
    \/ BnFault /\ UNCHANGED open

BnCloses ==
    /\ bn = "close"
    /\ Closed(made)
    /\ client' = NoClient
    /\ bn' = "done"
    /\ UNCHANGED <<bnStopped, made, closing, streams, early>>

\* Mutant: stop() forgets the client without closing it.
StopBeginsForgetting ==
    /\ bnStopped' = TRUE
    /\ closing' = NoClient
    /\ client' = NoClient
    /\ early' = (bn = "connect")
    /\ UNCHANGED <<bn, made, open, streams, bnFaults>>

\* stop() up to its await: with no client there is nothing to wait for.
StopBegins ==
    /\ bnStopped' = TRUE
    /\ closing' = client
    /\ early' = (bn = "connect")
    /\ UNCHANGED <<bn, made, client, open, streams, bnFaults>>

\* The rest of stop().
StopEnds ==
    /\ Closed(closing)
    /\ closing' = NoClient
    /\ client' = NoClient
    /\ UNCHANGED <<bn, bnStopped, made, streams, early>>

BnStep == BnConnect \/ BnConnected \/ BnSubscribe \/ BnWakes \/ BnCloses

-----------------------------------------------------------------------------
(* Properties.                                                             *)

BnTypeOK ==
    /\ bn \in {"start", "connect", "subscribe", "wait", "close", "backoff", "done"}
    /\ bnStopped \in BOOLEAN
    /\ made \in 0 .. MaxBnFaults + 1
    /\ client \in {NoClient, made}
    /\ closing \in {NoClient, made}
    /\ open \subseteq 1 .. made
    /\ streams \in [Connection -> 0 .. BnStreams]
    /\ early \in BOOLEAN
    /\ bnFaults \in 0 .. MaxBnFaults

\* Connections the client no longer knows, each of which goes on delivering
\* every update a second time, are paid for: by a call of the SDK that failed,
\* or by a stop() that came while a connection was being opened.
ConnectionsAccounted ==
    Cardinality(open \ {client}) <= bnFaults + IF early THEN 1 ELSE 0

\* The stream settles down to wait only with all of its streams subscribed on
\* an open connection that the client knows, so that stop() will find it.
WaitsFullySubscribed ==
    bn = "wait" /\ ~bnStopped => /\ client = made /\ made \in open
                                 /\ streams[made] = BnStreams
=============================================================================
