------------------------------ MODULE LiveFeed ------------------------------
(***************************************************************************)
(* From the tables to the screen: the aggregator and the decision loop     *)
(* store and broadcast, the hub sends, and one dashboard page, beside      *)
(* other clients, reads its socket and fetches the tables.  The page opens *)
(* another socket once its own is gone (SocketClient).                     *)
(***************************************************************************)
EXTENDS WebSocketHub, DashboardStore

CONSTANTS
    PageSocket,     \* the sockets of the page, the others are other clients'
    Workload,       \* the bounds of a behaviour, one choice in the initial state:
                    \* sockets, candles, decisions, seconds, fetches, failures,
                    \* and whether a connection to the exchange was left behind
    NoSocket

ASSUME FeedAssumption ==
    /\ PageSocket \subseteq Socket /\ NoSocket \notin Socket
    /\ Workload \subseteq [sockets : SUBSET Socket, candles : Nat, decisions : Nat,
                             seconds : Nat, fetches : Nat, failures : Nat, late : BOOLEAN]

VARIABLES
    bound,          \* the workload of this behaviour
    page,           \* the page's socket
    closed, forming, \* closed candles in the table; the last one published open
    decided,        \* decisions in the table
    missed,         \* history: what was broadcast and will not reach the page
    asOf            \* history: the newest row of the last answer that arrived

tables == <<closed, forming, decided>>
vars   == <<hubVars, storeVars, bound, page, tables, missed, asOf>>

Init ==
    /\ HubInit
    /\ StoreInit
    /\ bound \in Workload
    /\ page = NoSocket
    /\ closed = 0 /\ forming = 0 /\ decided = 0
    /\ missed = [l \in List |-> {}]
    /\ asOf = [l \in List |-> 0]

ListOf(m) == IF m.kind = "decision" THEN "decisions" ELSE "candles"
RowOf(m)  == IF m.kind = "decision" THEN m.n ELSE Time(m.n)

\* A message the page's socket will not deliver.
Miss(msgs) ==
    missed' = [l \in List |-> missed[l] \cup
                  {RowOf(m) : m \in {x \in msgs : x.kind # "ticker" /\ ListOf(x) = l}}]

-----------------------------------------------------------------------------
(* Publishers.                                                             *)

\* The page is registered and there.
Listening == page \in connections /\ peer[page] = "up"

\* The task awaits the broadcast before it does anything else.
Publish(p, m) ==
    /\ Begin(p, m)
    /\ Miss(IF Listening THEN {} ELSE {m})
    /\ UNCHANGED <<ends, connections, channel, tickers, storeVars, bound, page, asOf>>

\* CandleAggregator: an open candle is broadcast only, every time it changes, a
\* closed one is in the table before.
OpenCandle ==
    /\ closed < bound.candles
    /\ forming' = closed + 1
    /\ Publish("aggregator", [kind |-> "candle", n |-> 2 * (closed + 1)])
    /\ UNCHANGED <<closed, decided>>

CloseCandle ==
    /\ closed < bound.candles
    /\ closed' = closed + 1 /\ forming' = closed + 1
    /\ Publish("aggregator", [kind |-> "candle", n |-> 2 * (closed + 1) + 1])
    /\ UNCHANGED decided

\* A connection left behind by a failed subscription (BinanceStream) delivers on,
\* and the aggregator stores and broadcasts a candle once more, at any time later.
LateCandle ==
    /\ bound.late
    /\ \E n \in 2 .. closed + forming + 1 : Publish("aggregator", [kind |-> "late", n |-> n])
    /\ UNCHANGED tables

\* Mutant: the broadcast is left to a task of its own.
DecideUnawaited ==
    /\ decided < bound.decisions /\ decided' = decided + 1
    /\ \E p \in TickTask : Publish(p, [kind |-> "decision", n |-> decided + 1])
    /\ UNCHANGED <<closed, forming>>

\* The decision loop: the decision is in the table when it is published.
Decide ==
    /\ decided < bound.decisions /\ decided' = decided + 1
    /\ Publish("loop", [kind |-> "decision", n |-> decided + 1])
    /\ UNCHANGED <<closed, forming>>

-----------------------------------------------------------------------------
(* The page and the other clients.                                         *)

PageOpens ==
    /\ page # NoSocket => peer[page] = "gone"
    /\ \E c \in PageSocket \cap bound.sockets : Open(c) /\ page' = c
    /\ UNCHANGED <<storeVars, bound, tables, missed, asOf>>

OtherOpens(c) ==
    /\ c \in bound.sockets \ PageSocket
    /\ Open(c)
    /\ UNCHANGED <<storeVars, bound, page, tables, missed, asOf>>

\* What the page's socket had not delivered is missed.
SocketVanishes(c) ==
    /\ Vanish(c)
    /\ IF c = page
       THEN Miss(ToSet(channel[c]) \cup
                 {sending[p].msg : p \in {q \in Publisher : sending[q] # Idle /\ c \in sending[q].todo}})
       ELSE UNCHANGED missed
    /\ UNCHANGED <<storeVars, bound, page, tables, asOf>>

\* A client takes its next message; the page passes it to its store, which has
\* no use for tickers.
Read(c) ==
    /\ peer[c] = "up" /\ channel[c] # << >>
    /\ channel' = [channel EXCEPT ![c] = Tail(@)]
    /\ LET m == Head(channel[c])
       IN IF c # page \/ m.kind = "ticker" THEN UNCHANGED storeVars
          ELSE IF m.kind = "decision" THEN PrependDecision(m.n)
          ELSE PushCandle(m.n)
    /\ UNCHANGED <<ends, connections, sending, tickers, bound, page, tables, missed, asOf>>

\* What a table of n rows answers: a page of the newest.
Rows(l, n) ==
    LET size == IF n < PageSize[l] THEN n ELSE PageSize[l]
    IN  [i \in 1 .. size |-> IF l = "candles" THEN 2 * (n - size + i) + 1 ELSE n + 1 - i]

Table(l) == IF l = "candles" THEN closed ELSE decided

ServerAnswers ==
    /\ \E l \in List : Answers(l, Rows(l, Table(l)))
    /\ UNCHANGED <<hubVars, bound, page, tables, missed, asOf>>

NewestRow(l, rows) ==
    IF rows = << >> THEN 0 ELSE IF l = "candles" THEN Time(Last(rows)) ELSE Head(rows)

AnswerArrives(l) ==
    /\ Arrives(l)
    /\ asOf' = [asOf EXCEPT ![l] = NewestRow(l, answer[l])]
    /\ UNCHANGED <<hubVars, bound, page, tables, missed>>

PageStep ==
    /\ \/ Frame
       \/ fetches < bound.fetches /\ \E l \in List : bound[l] > 0 /\ Fetch(l)
       \/ failures < bound.failures /\ \E l \in List : FetchFails(l)
    /\ UNCHANGED <<hubVars, bound, page, tables, missed, asOf>>

Hub(A) == A /\ UNCHANGED <<storeVars, bound, page, tables, missed, asOf>>

Next ==
    \/ OpenCandle \/ CloseCandle \/ LateCandle \/ Decide
    \/ PageOpens \/ \E c \in Socket : OtherOpens(c) \/ SocketVanishes(c) \/ Read(c)
    \/ ServerAnswers \/ \E l \in List : AnswerArrives(l)
    \/ PageStep
    \/ Hub(HubStep) \/ Hub(clock < bound.seconds /\ ClockTicks)

Spec == Init /\ [][Next]_vars

Sends(p) == Hub(\E c \in Socket : SendTo(p, c))

\* A client reads what it is sent or its connection ends, and sends that wait
\* for the same client wake up in turn.
FairSpec ==
    /\ Spec
    /\ \A c \in Socket : WF_vars(Read(c) \/ (SocketVanishes(c) /\ channel[c] # << >>))
    /\ \A p \in {"aggregator", "loop"} : SF_vars(Sends(p))
-----------------------------------------------------------------------------
(* Properties.                                                             *)

TypeOK ==
    /\ HubTypeOK
    /\ series \in Seq(Nat)
    /\ pending \in Nat \cup {Nothing}
    /\ shown \in Seq(1 .. decided) /\ Len(shown) <= ListCap
    /\ \A l \in List : answer[l] \in {Nothing, Asked} \/ answer[l] \in Seq(Nat)
    /\ page \in PageSocket \cup {NoSocket}
    /\ forming \in {closed, closed + 1}

\* The chart's candles are in order of time, each once, although they come from
\* two sources that know nothing of each other: the answers of the server and
\* the socket's messages, held back by a channel and by the tick buffer.
SeriesAscending ==
    \A i, j \in DOMAIN series : i < j => Time(series[i]) < Time(series[j])

Coming(l) ==
    {RowOf(m) : m \in {x \in ToSet(IF page = NoSocket THEN << >> ELSE channel[page]) \cup
                           {sending[p].msg : p \in {q \in Publisher :
                                sending[q] # Idle /\ page \in sending[q].todo}} :
                       x.kind # "ticker" /\ ListOf(x) = l}}

\* What a page that ends with row n leaves out.
TooOld(l, d, n) == d + PageSize[l] <= n

DecisionsAccounted ==
    /\ \A d \in 1 .. asOf["decisions"] :
          \/ d \in ToSet(shown) \/ TooOld("decisions", d, asOf["decisions"])
          \/ d \in dropped["decisions"] /\ Len(shown) = ListCap
    /\ \A d \in asOf["decisions"] + 1 .. decided :
          d \in ToSet(shown) \cup Coming("decisions") \cup missed["decisions"] \cup dropped["decisions"]

CandlesAccounted ==
    LET waits == IF pending = Nothing THEN {} ELSE {Time(pending)}
        here  == Candles(series) \cup waits \cup dropped["candles"]
    IN  /\ \A t \in 1 .. asOf["candles"] : t \in here \/ TooOld("candles", t, asOf["candles"])
        /\ \A t \in asOf["candles"] + 1 .. closed : t \in here \cup Coming("candles") \cup missed["candles"]

\* The page shows every stored decision up to the last answer that arrived, but
\* for those too old for its page and those that newer ones pushed off a full
\* list.  A later decision that it does not show is on its way; or it was
\* broadcast while the page had no registered socket, or the socket went before
\* it was read; or it was shown and went with the list that an answer replaced.
\* The same holds of the closed candles, which may also wait in the tick buffer,
\* be pushed out of it by another one before the next frame, or be cleared from
\* the chart by a fetch, up to the last answer too.
RowsAccounted == DecisionsAccounted /\ CandlesAccounted

\* Each client hears of decisions, and of the candles of one connection to the
\* exchange, in the order of their publication, and of each decision and each
\* close once: what waits in its channel is older than what is being sent to it.
Ordered(m, x) ==
    m.kind = x.kind /\ m.kind \in {"candle", "decision"} =>
        m.n < x.n \/ (m.n = x.n /\ m.kind = "candle" /\ m.n = 2 * Time(m.n))

PublishedInOrder ==
    \A c \in Socket :
        LET queued == channel[c]
        IN  /\ \A i, j \in DOMAIN queued : i < j => Ordered(queued[i], queued[j])
            /\ \A p \in Publisher : sending[p] # Idle /\ c \in sending[p].todo =>
                  \A i \in DOMAIN queued : Ordered(queued[i], sending[p].msg)

\* A broadcast ends: a slow client holds up the task that awaits it, and with
\* it the decision loop or the aggregator, no longer than it takes to read or
\* to go.
BroadcastEnds ==
    \A p \in {"aggregator", "loop"} : (sending[p] # Idle) ~> (sending[p] = Idle)
=============================================================================
