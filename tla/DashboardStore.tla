--------------------------- MODULE DashboardStore ---------------------------
(***************************************************************************)
(* What the dashboard shows of one symbol's candles and decisions:         *)
(* store/index.ts, utils/tickBuffer.ts, the message handler of             *)
(* hooks/useWebSocketLifecycle.ts and the fetches of PriceChart.tsx and    *)
(* DecisionLog.tsx.  The number of a candle message is twice the candle's  *)
(* time, plus one when the candle is closed.                               *)
(***************************************************************************)
EXTENDS Naturals, Sequences, FiniteSets, SequencesExt

CONSTANTS
    ListCap,        \* decisions kept by prependDecision
    PageSize,       \* the rows a fetch asks for, by list
    Nothing, Asked

List == {"candles", "decisions"}

\* A page of decisions (100) is no more than the list keeps (500).
ASSUME StoreAssumption ==
    /\ ListCap \in Nat \ {0}
    /\ PageSize \in [List -> Nat \ {0}]
    /\ PageSize["decisions"] <= ListCap
    /\ Nothing # Asked /\ {Nothing, Asked} \cap Nat = {}
    /\ Nothing \notin Seq(Nat) /\ Asked \notin Seq(Nat)

VARIABLES
    series,         \* candlesByKey[key], oldest first
    pending,        \* the tick buffer's pending candle
    shown,          \* decisions, newest first
    answer,         \* each list's request: Nothing, Asked, or the answer on its way
    fetches, failures, \* counters of the bounds
    dropped         \* history: candles and decisions the page had and lost

storeVars == <<series, pending, shown, answer, fetches, failures, dropped>>

Time(n) == n \div 2

StoreInit ==
    /\ series = << >>
    /\ pending = Nothing
    /\ shown = << >>
    /\ answer = [l \in List |-> Nothing]
    /\ fetches = 0 /\ failures = 0
    /\ dropped = [l \in List |-> {}]

Candles(s) == {Time(s[i]) : i \in DOMAIN s}

\* The candles or decisions of before that are not in after are lost.
Lose(l, before, after) ==
    dropped' = [dropped EXCEPT ![l] = (@ \cup before) \ after]

-----------------------------------------------------------------------------
(* The message handler.                                                    *)

\* Mutant: a message that finds a frame scheduled is ignored.
PushCandleFirst(n) ==
    /\ pending' = IF pending = Nothing THEN n ELSE pending
    /\ UNCHANGED <<series, shown, answer, fetches, failures, dropped>>

\* tickBuffer.pushCandle: within a frame the latest message wins.
PushCandle(n) ==
    /\ pending' = n
    /\ Lose("candles", IF pending = Nothing THEN {} ELSE {Time(pending)}, {Time(n)} \cup Candles(series))
    /\ UNCHANGED <<series, shown, answer, fetches, failures>>

\* prependDecision
PrependDecision(n) ==
    /\ LET list == <<n>> \o shown
       IN shown' = SubSeq(list, 1, IF Len(list) < ListCap THEN Len(list) ELSE ListCap)
    /\ Lose("decisions", ToSet(shown), ToSet(shown'))
    /\ UNCHANGED <<series, pending, answer, fetches, failures>>

\* Mutant: an older candle is appended like a newer one.
AppendOrUpdateAnyTime(s, n) ==
    IF s # << >> /\ Time(Last(s)) = Time(n) THEN Append(Front(s), n) ELSE Append(s, n)

\* appendOrUpdateCandle: replace the last candle, ignore an older one.
AppendOrUpdate(s, n) ==
    IF s # << >> /\ Time(Last(s)) = Time(n) THEN Append(Front(s), n)
    ELSE IF s # << >> /\ Time(n) < Time(Last(s)) THEN s
    ELSE Append(s, n)

\* The animation frame flushes the tick buffer.
Frame ==
    /\ pending # Nothing
    /\ series' = AppendOrUpdate(series, pending)
    /\ pending' = Nothing
    /\ Lose("candles", {Time(pending)}, Candles(series'))
    /\ UNCHANGED <<shown, answer, fetches, failures>>

-----------------------------------------------------------------------------
(* Fetches.                                                                *)

\* The page asks for a list: it is mounted, its symbol is chosen again, or the
\* retry button is pressed.  The chart clears its candles first.  A request
\* still under way for the list is shared, unless its answer came, and was
\* ignored, while another symbol was shown.
Fetch(l) ==
    /\ fetches' = fetches + 1
    /\ \E a \in {Asked, answer[l]} \ {Nothing} : answer' = [answer EXCEPT ![l] = a]
    /\ IF l = "candles"
       THEN series' = << >> /\ Lose(l, Candles(series), {})
       ELSE UNCHANGED <<series, dropped>>
    /\ UNCHANGED <<pending, shown, failures>>

\* The server reads the table: rows are the newest closed candles, oldest
\* first, or the newest decisions, newest first.
Answers(l, rows) ==
    /\ answer[l] = Asked
    /\ answer' = [answer EXCEPT ![l] = rows]
    /\ UNCHANGED <<series, pending, shown, fetches, failures, dropped>>

\* setCandlesForKey and setDecisions replace what is there.
Arrives(l) ==
    /\ answer[l] \notin {Nothing, Asked}
    /\ answer' = [answer EXCEPT ![l] = Nothing]
    /\ IF l = "candles"
       THEN /\ series' = answer[l] /\ UNCHANGED shown
            /\ Lose(l, Candles(series), Candles(series'))
       ELSE /\ shown' = answer[l] /\ UNCHANGED series
            /\ Lose(l, ToSet(shown), ToSet(shown'))
    /\ UNCHANGED <<pending, fetches, failures>>

\* The last retry fails.
FetchFails(l) ==
    /\ answer[l] # Nothing
    /\ failures' = failures + 1
    /\ answer' = [answer EXCEPT ![l] = Nothing]
    /\ UNCHANGED <<series, pending, shown, fetches, dropped>>
=============================================================================
