--------------------------- MODULE RestClientProofs ---------------------------
(***************************************************************************)
(* Proofs about RestClient.                                                *)
(*                                                                         *)
(* MapInv ties fetches and map together: each fetch under way is the entry *)
(* of its query's key, each such entry a fetch of that query, and the keys *)
(* of the hook, which no request uses, have no entry; so what the hook     *)
(* aborts is nothing.  ChainInv says what a chain awaits, RunInv that only *)
(* a chain of the view's last run can concern it, and that this chain asks *)
(* for what the view shows.                                                *)
(***************************************************************************)
EXTENDS RestClient, TLAPS

\* The hook's key of a list is not the key of any request.
LEMMA KeysDiffer ==
    ASSUME NEW q \in Query, NEW r \in Query
    PROVE  /\ RequestKey(q) \in Key /\ HookKey(q) \in Key
           /\ HookKey(q) # RequestKey(r)
           /\ RequestKey(q) = RequestKey(r) => q = r
  BY DEF RequestKey, HookKey, Key

MapInv ==
    /\ \A f \in FetchId : fetch[f] # None =>
          fetch[f].phase # "aborted" /\ inFlight[RequestKey(fetch[f].query)] = f
    /\ \A q \in Query : inFlight[RequestKey(q)] # None =>
          /\ fetch[inFlight[RequestKey(q)]] # None
          /\ fetch[inFlight[RequestKey(q)]].query = q
    /\ \A q \in Query : inFlight[HookKey(q)] = None

ChainInv ==
    \A c \in chains :
        IF c.on = Paused THEN MayRetry(c)
                         ELSE fetch[c.on] # None /\ fetch[c.on].query = c.query

RunInv ==
    \A c \in chains :
        /\ c.run <= run[c.view]
        /\ c.run = run[c.view] => want[c.view] = c.query

IInv == TypeOK /\ MapInv /\ ChainInv /\ RunInv /\ SettledViewIsCurrent

LEMMA InitIInv == Init => IInv
  <1> SUFFICES ASSUME Init PROVE IInv
    OBVIOUS
  <1> USE RestAssumption
  <1>1. TypeOK
    BY DEF Init, TypeOK
  <1>2. MapInv
    BY KeysDiffer DEF Init, MapInv
  <1> QED  BY <1>1, <1>2 DEF Init, IInv, ChainInv, RunInv, SettledViewIsCurrent

\* request() keeps the map and the fetches together, and its chain awaits a
\* fetch of its query.
LEMMA RequestKeeps ==
    ASSUME IInv, NEW q \in Query,
           NEW c, c \in Chain, c.query = q,
           Request(c, q, fetch, inFlight)
    PROVE  /\ fetch' \in [FetchId -> Fetch \cup {None}]
           /\ inFlight' \in [Key -> FetchId \cup {None}]
           /\ MapInv'
           /\ chains' \subseteq Chain
           /\ ChainInv'
           /\ \A d \in chains' : d \in chains
                                 \/ (d.view = c.view /\ d.run = c.run /\ d.query = q)
  <1> USE RestAssumption
  <1>1. /\ TypeOK /\ MapInv /\ ChainInv
        /\ RequestKey(q) \in Key
    BY KeysDiffer DEF IInv
  <1>2. PICK f \in FetchId :
          /\ \/ fetch' = fetch /\ inFlight' = inFlight /\ f = inFlight[RequestKey(q)]
             \/ /\ inFlight[RequestKey(q)] = None /\ fetch[f] = None
                /\ fetch' = [fetch EXCEPT ![f] = [query |-> q, phase |-> "headers"]]
                /\ inFlight' = [inFlight EXCEPT ![RequestKey(q)] = f]
          /\ Awaits(c, f)
    BY <1>1 DEF Request, Free, TypeOK
  <1>3. [query |-> q, phase |-> "headers"] \in Fetch
    BY DEF Fetch
  <1>4. /\ fetch' \in [FetchId -> Fetch \cup {None}]
        /\ inFlight' \in [Key -> FetchId \cup {None}]
        /\ MapInv'
        /\ fetch'[f] # None /\ fetch'[f].query = q
        /\ \A g \in FetchId : fetch[g] # None => fetch'[g] = fetch[g]
    <2>1. CASE fetch' = fetch /\ inFlight' = inFlight /\ f = inFlight[RequestKey(q)]
      BY <1>1, <2>1 DEF TypeOK, MapInv
    <2>2. CASE /\ inFlight[RequestKey(q)] = None /\ fetch[f] = None
               /\ fetch' = [fetch EXCEPT ![f] = [query |-> q, phase |-> "headers"]]
               /\ inFlight' = [inFlight EXCEPT ![RequestKey(q)] = f]
      <3>1. \A k \in Key : inFlight'[k] = IF k = RequestKey(q) THEN f ELSE inFlight[k]
        BY <1>1, <2>2 DEF TypeOK
      <3>2. \A g \in FetchId : fetch'[g] = IF g = f THEN [query |-> q, phase |-> "headers"] ELSE fetch[g]
        BY <1>1, <2>2 DEF TypeOK
      <3>3. MapInv'
        <4>1. ASSUME NEW g \in FetchId, fetch'[g] # None
              PROVE  fetch'[g].phase # "aborted" /\ inFlight'[RequestKey(fetch'[g].query)] = g
          BY <1>1, <1>3, <2>2, <3>1, <3>2, <4>1, KeysDiffer DEF MapInv, TypeOK, Fetch
        <4>2. ASSUME NEW r \in Query, inFlight'[RequestKey(r)] # None
              PROVE  /\ fetch'[inFlight'[RequestKey(r)]] # None
                     /\ fetch'[inFlight'[RequestKey(r)]].query = r
          BY <1>1, <1>3, <2>2, <3>1, <3>2, <4>2, KeysDiffer DEF MapInv, TypeOK
        <4>3. \A r \in Query : inFlight'[HookKey(r)] = None
          BY <1>1, <3>1, KeysDiffer DEF MapInv
        <4> QED  BY <4>1, <4>2, <4>3 DEF MapInv
      <3> QED  BY <1>1, <1>3, <2>2, <3>2, <3>3 DEF TypeOK
    <2> QED  BY <1>2, <2>1, <2>2
  <1> DEFINE d == [c EXCEPT !.on = f]
  <1>5. d \in Chain /\ d.on = f /\ d.query = q /\ d.view = c.view /\ d.run = c.run
    BY DEF Chain
  <1>6. chains' \subseteq chains \cup {d}
    BY <1>2 DEF Awaits
  <1>7. ChainInv'
    <2> SUFFICES ASSUME NEW e \in chains'
                 PROVE  IF e.on = Paused THEN MayRetry(e)
                                         ELSE fetch'[e.on] # None /\ fetch'[e.on].query = e.query
      BY DEF ChainInv, MayRetry
    <2>1. CASE e = d
      BY <1>4, <1>5, <2>1
    <2>2. CASE e \in chains
      BY <1>1, <1>4, <2>2 DEF ChainInv, TypeOK, Chain
    <2> QED  BY <1>6, <2>1, <2>2
  <1> QED  BY <1>1, <1>4, <1>5, <1>6, <1>7 DEF TypeOK

\* What the hook aborts is nothing.
LEMMA NothingToAbort ==
    ASSUME IInv, NEW q \in Query
    PROVE  /\ AbortedFetch(fetch, inFlight, HookKey(q)) = fetch
           /\ Deleted(inFlight, HookKey(q)) = inFlight
  <1>1. inFlight[HookKey(q)] = None /\ inFlight \in [Key -> FetchId \cup {None}]
    BY DEF IInv, MapInv, TypeOK
  <1> QED  BY <1>1 DEF AbortedFetch, Deleted

LEMMA EffectKeeps ==
    ASSUME IInv, NEW v \in View, NEW q \in Query, Effect(v, q)
    PROVE  IInv'
  <1> USE RestAssumption
  <1> DEFINE c == [view |-> v, run |-> run[v] + 1, query |-> q, attempt |-> 1, on |-> Paused]
  <1>1. TypeOK /\ run[v] \in Nat
    BY DEF IInv, TypeOK
  <1>2. Request(c, q, fetch, inFlight)
    BY <1>1, NothingToAbort DEF Effect, TypeOK
  <1>3. c \in Chain /\ c.query = q /\ c.view = v /\ c.run = run[v] + 1
    BY <1>1 DEF Chain
  <1> HIDE DEF c
  <1>4. /\ fetch' \in [FetchId -> Fetch \cup {None}]
        /\ inFlight' \in [Key -> FetchId \cup {None}]
        /\ MapInv' /\ ChainInv'
        /\ chains' \subseteq Chain
        /\ \A d \in chains' : d \in chains \/ (d.view = v /\ d.run = run[v] + 1 /\ d.query = q)
    BY <1>2, <1>3, RequestKeeps
  <1>5. /\ calls' \in 0 .. MaxRuns
        /\ want' = [want EXCEPT ![v] = q]
        /\ run' = [run EXCEPT ![v] = @ + 1]
        /\ loading' = [loading EXCEPT ![v] = TRUE]
        /\ error' = [error EXCEPT ![v] = FALSE]
        /\ data' = data
    BY <1>1 DEF Effect, TypeOK
  <1>6. TypeOK'
    BY <1>1, <1>4, <1>5 DEF TypeOK
  <1>7. RunInv'
    BY <1>1, <1>4, <1>5 DEF IInv, RunInv, TypeOK, Chain
  <1>8. SettledViewIsCurrent'
    BY <1>1, <1>5 DEF IInv, SettledViewIsCurrent, TypeOK
  <1> QED  BY <1>4, <1>6, <1>7, <1>8 DEF IInv

LEMMA UnmountKeeps == ASSUME IInv, NEW v \in View, Unmount(v) PROVE IInv'
  <1> USE RestAssumption
  <1>1. TypeOK /\ TypeOK'
    BY DEF IInv, TypeOK, Unmount
  <1>2. MapInv' /\ ChainInv'
    BY DEF IInv, MapInv, ChainInv, MayRetry, Unmount
  <1>3. RunInv'
    BY <1>1 DEF IInv, RunInv, TypeOK, Chain, Unmount
  <1>4. SettledViewIsCurrent'
    BY <1>1 DEF IInv, SettledViewIsCurrent, TypeOK, Unmount
  <1> QED  BY <1>1, <1>2, <1>3, <1>4 DEF IInv

LEMMA HeadersKeeps == ASSUME IInv, NEW f \in FetchId, Headers(f) PROVE IInv'
  <1> USE RestAssumption
  <1>1. TypeOK /\ fetch[f] \in Fetch
    BY DEF IInv, TypeOK, Headers
  <1>2. \A g \in FetchId : /\ g # f => fetch'[g] = fetch[g]
                           /\ fetch'[f] = [fetch[f] EXCEPT !.phase = "body"]
    BY <1>1 DEF Headers, TypeOK
  <1>3. fetch'[f] \in Fetch /\ fetch'[f].phase = "body" /\ fetch'[f].query = fetch[f].query
    BY <1>1, <1>2 DEF Fetch
  <1>4. UNCHANGED <<hook, chains, inFlight, calls>>
    BY DEF Headers
  <1>5. TypeOK'
    <2>1. [fetch[f] EXCEPT !.phase = "body"] \in Fetch
      BY <1>1 DEF Fetch
    <2>2. fetch' \in [FetchId -> Fetch \cup {None}]
      BY <1>1, <2>1 DEF Headers, TypeOK
    <2> QED  BY <1>1, <1>4, <2>2 DEF TypeOK, hook
  <1>6. MapInv'
    BY <1>1, <1>2, <1>3, <1>4 DEF IInv, MapInv, TypeOK, Headers, Key
  <1>7. ChainInv'
    BY <1>1, <1>2, <1>3, <1>4 DEF IInv, ChainInv, MayRetry, TypeOK, Chain, Headers
  <1> QED
    BY <1>4, <1>5, <1>6, <1>7 DEF IInv, RunInv, SettledViewIsCurrent, hook

LEMMA RetryKeeps == ASSUME IInv, NEW c \in chains, Retry(c) PROVE IInv'
  <1> USE RestAssumption
  <1> DEFINE n == [c EXCEPT !.attempt = @ + 1]
  <1>1. TypeOK /\ c \in Chain /\ c.on = Paused /\ MayRetry(c)
    BY DEF IInv, TypeOK, ChainInv, Retry
  <1>2. n \in Chain /\ n.query = c.query /\ n.view = c.view /\ n.run = c.run
    BY <1>1 DEF Chain, MayRetry
  <1>3. Request(n, c.query, fetch, inFlight) /\ UNCHANGED <<hook, calls>>
    BY DEF Retry
  <1>4. c.query \in Query
    BY <1>1 DEF Chain
  <1> HIDE DEF n
  <1>5. /\ fetch' \in [FetchId -> Fetch \cup {None}]
        /\ inFlight' \in [Key -> FetchId \cup {None}]
        /\ MapInv' /\ ChainInv'
        /\ chains' \subseteq Chain
        /\ \A d \in chains' : d \in chains
                              \/ (d.view = c.view /\ d.run = c.run /\ d.query = c.query)
    BY <1>2, <1>3, <1>4, RequestKeeps
  <1>6. TypeOK' /\ SettledViewIsCurrent'
    BY <1>1, <1>3, <1>5 DEF IInv, TypeOK, SettledViewIsCurrent, hook
  <1>7. RunInv'
    BY <1>1, <1>3, <1>5 DEF IInv, RunInv, hook
  <1> QED  BY <1>5, <1>6, <1>7 DEF IInv

\* A fetch settles: its key is the one that leaves the map, and of a view only
\* the chain of its last run tells it anything.
LEMMA SettleKeeps ==
    ASSUME IInv, NEW f \in FetchId, fetch[f] # None,
           NEW outcome \in {"ok", "refused", "failed"}, Settle(f, outcome)
    PROVE  IInv'
  <1> USE RestAssumption
  <1> DEFINE waiting  == {c \in chains : c.on = f}
             retrying == {c \in waiting : outcome = "failed" /\ MayRetry(c)}
             ending   == waiting \ retrying
             query    == fetch[f].query
  <1>0. TypeOK /\ MapInv /\ ChainInv /\ RunInv /\ SettledViewIsCurrent
    BY DEF IInv
  <1>1. fetch[f] \in Fetch /\ query \in Query /\ RequestKey(query) \in Key
        /\ inFlight[RequestKey(query)] = f
    BY <1>0, KeysDiffer DEF TypeOK, Fetch, MapInv
  <1>2. /\ fetch' = [fetch EXCEPT ![f] = None]
        /\ inFlight' = [inFlight EXCEPT ![RequestKey(query)] = None]
        /\ chains' = (chains \ waiting) \cup {[c EXCEPT !.on = Paused] : c \in retrying}
        /\ loading' = [v \in View |-> loading[v] /\ ~Concerns(v, ending)]
        /\ data' = [v \in View |-> IF outcome = "ok" /\ Concerns(v, ending) THEN query ELSE data[v]]
        /\ error' = [v \in View |-> error[v] \/ (outcome # "ok" /\ Concerns(v, ending))]
        /\ UNCHANGED <<want, run, calls>>
    BY DEF Settle, Deleted
  <1>3. ASSUME NEW d \in chains'
        PROVE  \/ d \in chains /\ d.on # f
               \/ \E c \in chains : /\ d \in Chain /\ d.on = Paused /\ MayRetry(d)
                                    /\ d.view = c.view /\ d.run = c.run /\ d.query = c.query
    <2>1. CASE d \in chains \ waiting
      BY <2>1
    <2>2. CASE \E c \in retrying : d = [c EXCEPT !.on = Paused]
      <3>1. PICK c \in retrying : d = [c EXCEPT !.on = Paused]
        BY <2>2
      <3>2. c \in chains /\ c \in Chain /\ MayRetry(c)
        BY <1>0 DEF TypeOK
      <3>3. d \in Chain /\ d.on = Paused /\ d.view = c.view /\ d.run = c.run
            /\ d.query = c.query /\ d.attempt = c.attempt
        BY <3>1, <3>2 DEF Chain
      <3> QED  BY <3>2, <3>3 DEF MayRetry
    <2> QED  BY <1>2, <2>1, <2>2
  <1>4. chains' \subseteq Chain
    BY <1>0, <1>3 DEF TypeOK
  <1>5. /\ \A g \in FetchId : fetch'[g] = IF g = f THEN None ELSE fetch[g]
        /\ \A k \in Key : inFlight'[k] = IF k = RequestKey(query) THEN None ELSE inFlight[k]
    BY <1>0, <1>1, <1>2 DEF TypeOK
  <1>6. MapInv'
    <2>1. ASSUME NEW g \in FetchId, fetch'[g] # None
          PROVE  fetch'[g].phase # "aborted" /\ inFlight'[RequestKey(fetch'[g].query)] = g
      <3>1. g # f /\ fetch'[g] = fetch[g] /\ fetch[g].query \in Query
        BY <1>0, <1>5, <2>1 DEF TypeOK, Fetch
      <3>2. inFlight[RequestKey(fetch[g].query)] = g /\ fetch[g].phase # "aborted"
        BY <1>0, <2>1, <3>1 DEF MapInv
      <3>3. RequestKey(fetch[g].query) # RequestKey(query) /\ RequestKey(fetch[g].query) \in Key
        BY <1>1, <3>1, <3>2, KeysDiffer
      <3> QED  BY <1>5, <3>1, <3>2, <3>3
    <2>2. ASSUME NEW q \in Query, inFlight'[RequestKey(q)] # None
          PROVE  /\ fetch'[inFlight'[RequestKey(q)]] # None
                 /\ fetch'[inFlight'[RequestKey(q)]].query = q
      <3>1. q # query /\ inFlight'[RequestKey(q)] = inFlight[RequestKey(q)]
            /\ inFlight[RequestKey(q)] \in FetchId
        BY <1>0, <1>1, <1>5, <2>2, KeysDiffer DEF TypeOK
      <3>2. fetch[inFlight[RequestKey(q)]].query = q /\ fetch[inFlight[RequestKey(q)]] # None
        BY <1>0, <2>2, <3>1 DEF MapInv
      <3> QED  BY <1>5, <3>1, <3>2
    <2>3. \A q \in Query : inFlight'[HookKey(q)] = None
      BY <1>0, <1>1, <1>5, KeysDiffer DEF MapInv
    <2> QED  BY <2>1, <2>2, <2>3 DEF MapInv
  <1>7. ChainInv'
    <2> SUFFICES ASSUME NEW d \in chains'
                 PROVE  IF d.on = Paused THEN MayRetry(d)
                                         ELSE fetch'[d.on] # None /\ fetch'[d.on].query = d.query
      BY DEF ChainInv, MayRetry
    <2>1. CASE d \in chains /\ d.on # f
      BY <1>0, <1>5, <2>1 DEF ChainInv, TypeOK, Chain
    <2>2. CASE d.on = Paused /\ MayRetry(d)
      BY <2>2
    <2> QED  BY <1>3, <2>1, <2>2
  <1>8. RunInv'
    BY <1>0, <1>2, <1>3 DEF RunInv
  <1>9. TypeOK'
    BY <1>0, <1>1, <1>2, <1>4, <1>5 DEF TypeOK
  <1>10. SettledViewIsCurrent'
    <2> SUFFICES ASSUME NEW v \in View, want[v] # None, ~loading'[v], ~error'[v]
                 PROVE  data'[v] = want[v]
      BY <1>2 DEF SettledViewIsCurrent
    <2>1. CASE Concerns(v, ending)
      <3>1. PICK c \in ending : c.view = v /\ c.run = run[v]
        BY <2>1 DEF Concerns
      <3>2. c.query = want[v] /\ fetch[f].query = c.query
        BY <1>0, <3>1 DEF RunInv, ChainInv
      <3>3. outcome = "ok"
        BY <1>2, <2>1
      <3> QED  BY <1>2, <2>1, <3>2, <3>3
    <2>2. CASE ~Concerns(v, ending)
      BY <1>0, <1>2, <2>2 DEF SettledViewIsCurrent
    <2> QED  BY <2>1, <2>2
  <1> QED  BY <1>4, <1>6, <1>7, <1>8, <1>9, <1>10 DEF IInv

LEMMA NextKeepsIInv == IInv /\ [Next]_vars => IInv'
  <1> SUFFICES ASSUME IInv, [Next]_vars PROVE IInv'
    OBVIOUS
  <1>1. ASSUME NEW v \in View, Unmount(v) PROVE IInv'
    BY <1>1, UnmountKeeps
  <1>2. ASSUME NEW v \in View, NEW q \in Query, Effect(v, q) PROVE IInv'
    BY <1>2, EffectKeeps
  <1>3. ASSUME NEW f \in FetchId, Headers(f) PROVE IInv'
    BY <1>3, HeadersKeeps
  <1>4. ASSUME NEW f \in FetchId, NoHeaders(f) \/ Body(f) PROVE IInv'
    BY <1>4, SettleKeeps DEF NoHeaders, Body
  <1>5. ASSUME NEW c \in chains, Retry(c) PROVE IInv'
    BY <1>5, RetryKeeps
  <1>6. CASE UNCHANGED vars
    BY <1>6 DEF vars, hook, IInv, TypeOK, MapInv, ChainInv, MayRetry, RunInv, SettledViewIsCurrent
  <1> QED  BY <1>1, <1>2, <1>3, <1>4, <1>5, <1>6 DEF Next

LEMMA AlwaysIInv == Spec => []IInv
  BY InitIInv, NextKeepsIInv, PTL DEF Spec

\* However many views, runs and retries want a list, restClient.ts has one
\* fetch of it under way: every fetch is the entry of its key.
THEOREM FetchesAreShared == Spec => []OneFetchPerQuery
<1>1. IInv => OneFetchPerQuery
  BY DEF IInv, MapInv, OneFetchPerQuery
<1> QED  BY <1>1, AlwaysIInv, PTL

\* A chain of withRetry waits for its pause or for the fetch the map names, of
\* its own query: the promise it awaits is one that somebody will settle.
THEOREM NobodyAwaitsNothing == Spec => []AwaitedIsInFlight
<1>1. IInv => AwaitedIsInFlight
  <2> SUFFICES ASSUME IInv, NEW c \in chains, c.on # Paused
               PROVE  /\ fetch[c.on] # None
                      /\ fetch[c.on].query = c.query
                      /\ inFlight[RequestKey(c.query)] = c.on
    BY DEF AwaitedIsInFlight
  <2>1. fetch[c.on] # None /\ fetch[c.on].query = c.query /\ c.on \in FetchId
    BY DEF IInv, ChainInv, TypeOK, Chain
  <2> QED  BY <2>1 DEF IInv, MapInv
<1> QED  BY <1>1, AlwaysIInv, PTL

\* useListFetch takes no answer to an earlier question: a view that is neither
\* loading nor in error shows what it asked for last.
THEOREM SettledViewsAreCurrent == Spec => []SettledViewIsCurrent
<1>1. IInv => SettledViewIsCurrent
  BY DEF IInv
<1> QED  BY <1>1, AlwaysIInv, PTL
=============================================================================
