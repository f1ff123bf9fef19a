----------------------------- MODULE RestClient -----------------------------
(***************************************************************************)
(* The dashboard's REST client (api/restClient.ts) under the hook of its   *)
(* lists (hooks/useListFetch.ts).  A view shows the list of its fetchKey;  *)
(* each run of its effect starts a chain of up to Attempts requests, and   *)
(* chains that ask for the same list share one fetch.  The browser runs    *)
(* one callback at a time; a chain that was cancelled goes on retrying,    *)
(* only its result is ignored.                                             *)
(***************************************************************************)
EXTENDS Naturals

CONSTANTS
    View,           \* mounted uses of the hook
    Query,          \* what a view can ask for
    FetchId,        \* fetches under way at once
    Attempts,       \* retries + 1 of withRetry
    MaxRuns,        \* bound on the runs of the views' effects
    None, Paused

\* A fetch under way.
Fetch == [query : Query, phase : {"headers", "body", "aborted"}]

ASSUME RestAssumption ==
    /\ None \notin Query \cup FetchId \cup Fetch /\ Paused \notin FetchId
    /\ Attempts \in Nat \ {0}
    /\ MaxRuns \in Nat

VARIABLES
    want,           \* the query a view shows, None when it is not mounted
    run,            \* runs of the view's effect: an earlier run is cancelled
    loading, data, error, \* the hook's state; data is the query it answers
    chains,         \* calls of withRetry: the run they belong to, and what they await
    fetch,          \* fetches: their query and phase
    inFlight,       \* the map, from keys to fetches
    calls           \* runs of all effects, counted for their bound

hook == <<want, run, loading, data, error>>
vars == <<hook, chains, fetch, inFlight, calls>>

\* The keys of the map are made from the request's path and parameters; the
\* hook's fetchKey is a name of its own ("decisions-BTCUSDT").
RequestKey(q) == <<"request", q>>
\* Mutant: the hook uses the keys of the map.
HookKeyIsRequestKey(q) == RequestKey(q)
HookKey(q)    == <<"hook", q>>
Key == {RequestKey(q) : q \in Query} \cup {HookKey(q) : q \in Query}

Free == {f \in FetchId : fetch[f] = None}

Init ==
    /\ want = [v \in View |-> None]
    /\ run = [v \in View |-> 0]
    /\ loading = [v \in View |-> FALSE]
    /\ data = [v \in View |-> None]
    /\ error = [v \in View |-> FALSE]
    /\ chains = {}
    /\ fetch = [f \in FetchId |-> None]
    /\ inFlight = [k \in Key |-> None]
    /\ calls = 0

-----------------------------------------------------------------------------
(* request(), abortRequest().                                              *)

\* abortRequest(key) on the map m and the fetches fs.
AbortedFetch(fs, m, key) ==
    IF m[key] = None THEN fs ELSE [fs EXCEPT ![m[key]].phase = "aborted"]

\* Mutant: the key stays in the map.
DeletedNever(m, key) == m
Deleted(m, key) == [m EXCEPT ![key] = None]

\* The chain awaits fetch f, for the first time or after a pause.
Awaits(chain, f) ==
    chains' = {c \in chains : c.view # chain.view \/ c.run # chain.run}
                  \cup {[chain EXCEPT !.on = f]}

\* request(): the chain joins the fetch under way for its key, or starts one.
Request(chain, q, fs, m) ==
    IF m[RequestKey(q)] # None
    THEN /\ fetch' = fs /\ inFlight' = m
         /\ Awaits(chain, m[RequestKey(q)])
    ELSE \E f \in Free :
            /\ fetch' = [fs EXCEPT ![f] = [query |-> q, phase |-> "headers"]]
            /\ inFlight' = [m EXCEPT ![RequestKey(q)] = f]
            /\ Awaits(chain, f)

-----------------------------------------------------------------------------
(* The hook.                                                               *)

\* The effect runs: the view is mounted, asks for another list, or refetches.
\* The key of the previous run is aborted if it was another.
Effect(v, q) ==
    /\ calls < MaxRuns /\ calls' = calls + 1
    /\ want' = [want EXCEPT ![v] = q]
    /\ run' = [run EXCEPT ![v] = @ + 1]
    /\ loading' = [loading EXCEPT ![v] = TRUE]
    /\ error' = [error EXCEPT ![v] = FALSE]
    /\ LET chain == [view |-> v, run |-> run[v] + 1, query |-> q, attempt |-> 1, on |-> Paused]
           key == HookKey(want[v])
       IN  IF want[v] \in {None, q} THEN Request(chain, q, fetch, inFlight)
           ELSE Request(chain, q, AbortedFetch(fetch, inFlight, key), Deleted(inFlight, key))
    /\ UNCHANGED data

\* The cleanup of a view that goes away; mounted again it starts anew.
Unmount(v) ==
    /\ want[v] # None
    /\ want' = [want EXCEPT ![v] = None]
    /\ run' = [run EXCEPT ![v] = @ + 1]
    /\ loading' = [loading EXCEPT ![v] = FALSE]
    /\ data' = [data EXCEPT ![v] = None]
    /\ error' = [error EXCEPT ![v] = FALSE]
    /\ UNCHANGED <<chains, fetch, inFlight, calls>>

\* Mutant: the result is taken whichever run asked for it.
ConcernsAnyRun(v, cs) == \E c \in cs : c.view = v /\ want[v] # None

\* Chains in cs have their result: is it the one the view still waits for?
Concerns(v, cs) == \E c \in cs : c.view = v /\ c.run = run[v]

-----------------------------------------------------------------------------
(* A fetch goes on.                                                        *)

MayRetry(c) == c.attempt < Attempts

\* The promise settles: its key leaves the map, whichever fetch the key now
\* has, and every chain that awaits it returns, fails or pauses.
Settle(f, outcome) ==
    LET waiting  == {c \in chains : c.on = f}
        retrying == {c \in waiting : outcome = "failed" /\ MayRetry(c)}
        ending   == waiting \ retrying
        query    == fetch[f].query
    IN  /\ fetch' = [fetch EXCEPT ![f] = None]
        /\ inFlight' = Deleted(inFlight, RequestKey(query))
        /\ chains' = (chains \ waiting) \cup {[c EXCEPT !.on = Paused] : c \in retrying}
        /\ loading' = [v \in View |-> loading[v] /\ ~Concerns(v, ending)]
        /\ data' = [v \in View |-> IF outcome = "ok" /\ Concerns(v, ending) THEN query ELSE data[v]]
        /\ error' = [v \in View |-> error[v] \/ (outcome # "ok" /\ Concerns(v, ending))]
        /\ UNCHANGED <<want, run, calls>>

\* The headers arrive and the timer is cleared.
Headers(f) ==
    /\ fetch[f] # None /\ fetch[f].phase = "headers"
    /\ fetch' = [fetch EXCEPT ![f].phase = "body"]
    /\ UNCHANGED <<hook, chains, inFlight, calls>>

\* TimeoutError after ten seconds without headers, or NetworkError.
NoHeaders(f) ==
    /\ fetch[f] # None /\ fetch[f].phase \in {"headers", "aborted"}
    /\ Settle(f, "failed")

\* The body: a result, a status below 500, a higher one or a broken body.
Body(f) ==
    /\ fetch[f] # None /\ fetch[f].phase = "body"
    /\ \E outcome \in {"ok", "refused", "failed"} : Settle(f, outcome)

\* The pause of withRetry ends.
Retry(c) ==
    /\ c \in chains /\ c.on = Paused
    /\ Request([c EXCEPT !.attempt = @ + 1], c.query, fetch, inFlight)
    /\ UNCHANGED <<hook, calls>>

Next ==
    \/ \E v \in View : Unmount(v) \/ \E q \in Query : Effect(v, q)
    \/ \E f \in FetchId : Headers(f) \/ NoHeaders(f) \/ Body(f)
    \/ \E c \in chains : Retry(c)

Spec == Init /\ [][Next]_vars

\* A fetch gets its headers or the timer fires, and pauses end.  Nothing is
\* assumed of the body: no timer watches it.
FairSpec ==
    /\ Spec
    /\ \A f \in FetchId : WF_vars(Headers(f) \/ NoHeaders(f))
    /\ WF_vars(\E c \in chains : Retry(c))
-----------------------------------------------------------------------------
(* Properties.                                                             *)

Chain == [view : View, run : Nat, query : Query, attempt : 1 .. Attempts,
          on : FetchId \cup {Paused}]

TypeOK ==
    /\ want \in [View -> Query \cup {None}]
    /\ run \in [View -> Nat]
    /\ loading \in [View -> BOOLEAN]
    /\ data \in [View -> Query \cup {None}]
    /\ error \in [View -> BOOLEAN]
    /\ chains \subseteq Chain
    /\ fetch \in [FetchId -> Fetch \cup {None}]
    /\ inFlight \in [Key -> FetchId \cup {None}]
    /\ calls \in 0 .. MaxRuns

\* The server is asked for a list once at a time, however many views, runs and
\* retries want it.
OneFetchPerQuery ==
    \A f, g \in FetchId :
        fetch[f] # None /\ fetch[g] # None /\ fetch[f].query = fetch[g].query => f = g

\* Nobody waits for nothing: what a chain awaits is a fetch of its own query,
\* the one that the map gives to whoever asks next.
AwaitedIsInFlight ==
    \A c \in chains :
        c.on # Paused => /\ fetch[c.on] # None
                         /\ fetch[c.on].query = c.query
                         /\ inFlight[RequestKey(c.query)] = c.on

\* A view that has settled without an error shows the list it asked for last,
\* in whatever order the answers to its earlier questions came.
SettledViewIsCurrent ==
    \A v \in View :
        want[v] # None /\ ~loading[v] /\ ~error[v] => data[v] = want[v]

\* Every view settles in the end, or its fetch waits for a body that does not
\* come: nothing else keeps it loading, and no failing server keeps it trying.
ViewsSettle ==
    \A v \in View :
        <>[](~loading[v] \/ \E f \in FetchId : fetch[f] # None /\ fetch[f].query = want[v]
                                               /\ fetch[f].phase = "body")
=============================================================================
