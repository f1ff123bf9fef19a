--------------------------- MODULE PolymarketStream ---------------------------
(***************************************************************************)
(* PolymarketStreamClient (exchange/polymarket_stream.py) and the task of  *)
(* main.py that drains its queue into polymarket_cache.  The stream is one *)
(* task suspended at connecting, subscribing, reading or sleeping.         *)
(* Updates are numbered in the order the feed sends them, so a number is   *)
(* both a price and its age.                                               *)
(***************************************************************************)
EXTENDS Naturals, Sequences

CONSTANTS
    PmSymbol,       \* symbols of the allowlist
    BaseDelay,      \* _BASE_RECONNECT_DELAY
    MaxDelay,       \* _MAX_RECONNECT_DELAY
    PriceCap,       \* capacity of polymarket_queue
    MaxUpdates,     \* bound on the price updates the feed sends
    MaxPmEnds       \* bound on the connections that end by themselves

ASSUME PolymarketAssumption ==
    /\ BaseDelay \in Nat \ {0}
    /\ MaxDelay \in Nat /\ BaseDelay <= MaxDelay
    /\ PriceCap \in Nat \ {0}
    /\ MaxUpdates \in Nat /\ MaxPmEnds \in Nat

VARIABLES
    pm,             \* where the stream is suspended
    pmStopped,      \* _stopped
    delay,          \* delay, the pause before the next connection
    received,       \* received_any
    priceQueue,     \* polymarket_queue
    cache,          \* polymarket_cache, 0 for no entry
    collector,      \* the collector task
    sent, pmEnds,   \* counters of the bounds
    taken,          \* history: newest update of each symbol the queue took
    pauses          \* history: pauses since the start or the last healthy connection

pmLocal == <<pm, delay, received, pmEnds, pauses>>
pmVars  == <<pmLocal, pmStopped, priceQueue, cache, collector, sent, taken>>

Smaller(a, b) == IF a < b THEN a ELSE b

\* start() returns at once without credentials.
PmInit ==
    /\ pm \in {"connect", "done"}
    /\ pmStopped = FALSE
    /\ delay = BaseDelay
    /\ received = FALSE
    /\ priceQueue = << >>
    /\ cache = [s \in PmSymbol |-> 0]
    /\ collector = "get"
    /\ sent = 0 /\ pmEnds = 0
    /\ taken = [s \in PmSymbol |-> 0]
    /\ pauses = 0

-----------------------------------------------------------------------------
(* The stream task.                                                        *)

\* The loop after _connect(): the k-th pause of its series, unless stopped.
Pause(k) ==
    IF pmStopped THEN pm' = "done" /\ UNCHANGED pauses
                 ELSE pm' = "backoff" /\ pauses' = k

\* Mutant: a connection that delivered nothing resets the delay as well.
EndsCleanlyAlwaysHealthy ==
    delay' = BaseDelay /\ Pause(IF received THEN 1 ELSE pauses + 1)

\* _connect() returns received_any: only a connection that delivered something
\* resets the delay.
EndsCleanly ==
    IF received THEN delay' = BaseDelay /\ Pause(1)
                ELSE UNCHANGED delay /\ Pause(pauses + 1)

\* _connect() raises: what it had received is forgotten with it.
EndsInError == UNCHANGED delay /\ Pause(pauses + 1)

PmFault == pmEnds < MaxPmEnds /\ pmEnds' = pmEnds + 1

\* One await of _connect() succeeds, or the connection is refused or lost.
PmConnect ==
    /\ pm = "connect"
    /\ \/ pm' = "subscribe" /\ UNCHANGED <<delay, pmEnds, pauses>>
       \/ PmFault /\ EndsInError
    /\ received' = FALSE
    /\ UNCHANGED <<pmStopped, priceQueue, cache, collector, sent, taken>>

PmSubscribe ==
    /\ pm = "subscribe"
    /\ \/ pm' = "read" /\ UNCHANGED <<delay, pmEnds, pauses>>
       \/ PmFault /\ EndsInError
    /\ UNCHANGED <<received, pmStopped, priceQueue, cache, collector, sent, taken>>

\* The server ends the connection, cleanly or not, or sends JSON that is not an
\* object: envelope.get raises outside the try of _handle_raw_message.
PmConnectionEnds ==
    /\ pm = "read"
    /\ PmFault
    /\ EndsCleanly \/ EndsInError
    /\ UNCHANGED <<received, pmStopped, priceQueue, cache, collector, sent, taken>>

\* put_nowait: a full queue drops the update.
PutPrice(s, n) ==
    IF Len(priceQueue) < PriceCap
    THEN /\ priceQueue' = Append(priceQueue, [symbol |-> s, n |-> n])
         /\ taken' = [taken EXCEPT ![s] = n]
    ELSE UNCHANGED <<priceQueue, taken>>

\* A message ends the wait of "async for"; only then is the stop flag looked
\* at.  Messages of other topics or symbols, and values that do not parse, only
\* count as received.
PmReceive ==
    /\ pm = "read"
    /\ IF pmStopped
       THEN pm' = "done" /\ UNCHANGED <<received, priceQueue, sent, taken>>
       ELSE /\ received' = TRUE
            /\ \/ /\ sent < MaxUpdates /\ sent' = sent + 1
                  /\ \E s \in PmSymbol : PutPrice(s, sent')
               \/ UNCHANGED <<priceQueue, sent, taken>>
            /\ UNCHANGED pm
    /\ UNCHANGED <<delay, pmEnds, pauses, pmStopped, cache, collector>>

LongerDelay == Smaller(delay * 2, MaxDelay)

\* The pause ends; the loop looks at the stop flag again.
PmWake ==
    /\ pm = "backoff"
    /\ delay' = LongerDelay
    /\ pm' = IF pmStopped THEN "done" ELSE "connect"
    /\ UNCHANGED <<received, pmEnds, pauses, pmStopped, priceQueue, cache, collector, sent, taken>>

-----------------------------------------------------------------------------
(* The collector task.                                                     *)

\* Mutant: a symbol that has an entry keeps it.
CollectFirst ==
    /\ collector = "get" /\ priceQueue # << >>
    /\ LET u == Head(priceQueue)
       IN cache' = [cache EXCEPT ![u.symbol] = IF @ = 0 THEN u.n ELSE @]
    /\ priceQueue' = Tail(priceQueue)
    /\ UNCHANGED <<pmLocal, pmStopped, collector, sent, taken>>

Collect ==
    /\ collector = "get" /\ priceQueue # << >>
    /\ LET u == Head(priceQueue) IN cache' = [cache EXCEPT ![u.symbol] = u.n]
    /\ priceQueue' = Tail(priceQueue)
    /\ UNCHANGED <<pmLocal, pmStopped, collector, sent, taken>>

\* A second without an update, after the shutdown event.
CollectorStops(shutdown) ==
    /\ collector = "get" /\ priceQueue = << >>
    /\ shutdown
    /\ collector' = "done"
    /\ UNCHANGED <<pmLocal, pmStopped, priceQueue, cache, sent, taken>>

PmStep == PmConnect \/ PmSubscribe \/ PmConnectionEnds \/ PmReceive \/ PmWake \/ Collect

-----------------------------------------------------------------------------
(* Properties.                                                             *)

PriceUpdate == [symbol : PmSymbol, n : Nat]

PmTypeOK ==
    /\ pm \in {"connect", "subscribe", "read", "backoff", "done"}
    /\ pmStopped \in BOOLEAN
    /\ delay \in BaseDelay .. MaxDelay
    /\ received \in BOOLEAN
    /\ priceQueue \in Seq(PriceUpdate)
    /\ cache \in [PmSymbol -> Nat]
    /\ collector \in {"get", "done"}
    /\ sent \in Nat /\ pmEnds \in Nat
    /\ taken \in [PmSymbol -> Nat]
    /\ pauses \in Nat

\* 2 ^ n, as a recurrence that a proof can use.
PowerOfTwo[n \in Nat] == IF n = 0 THEN 1 ELSE 2 * PowerOfTwo[n - 1]

\* The stream's pauses are those of an exponential backoff: the n-th pause since
\* the start, or since a connection that delivered something and ended cleanly,
\* lasts 2^(n-1) base delays, up to the cap, whatever the order in which
\* connections failed, fed and ended.
BackoffIsExponential ==
    pm = "backoff" => delay = Smaller(BaseDelay * PowerOfTwo[pauses - 1], MaxDelay)

\* The newest update in the queue or, when there is none, in the cache is the
\* newest the queue ever took: between the stream and the reader nothing is
\* lost, overtaken or repeated.
CacheIsCurrent ==
    \A s \in PmSymbol :
        LET waiting == {i \in DOMAIN priceQueue : priceQueue[i].symbol = s}
        IN  /\ waiting = {} => cache[s] = taken[s]
            /\ \A i \in waiting :
                  /\ cache[s] < priceQueue[i].n /\ priceQueue[i].n <= taken[s]
                  /\ \A j \in waiting : i < j => priceQueue[i].n < priceQueue[j].n
=============================================================================
