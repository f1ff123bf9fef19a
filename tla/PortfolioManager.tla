-------------------------- MODULE PortfolioManager --------------------------
(***************************************************************************)
(* The portfolio manager (execution/portfolio_manager.py): every 30 s it   *)
(* reads the closed positions, then the previous snapshot, and stores a    *)
(* new snapshot with the balance, the peak, the drawdown and the circuit   *)
(* breaker.  The three database calls are three steps; rows close and the  *)
(* process crashes in between.                                             *)
(*                                                                         *)
(* Money is counted in grains, Cent of them to a cent: a PnL has eight     *)
(* decimals, a stored snapshot two.  Percentages are counted in hundredths *)
(* of a percent, the two decimals the snapshot stores.                     *)
(*                                                                         *)
(* AloneSpec is the manager over rows that are all open at first and close *)
(* in any order; TradingCore takes its steps beside the decision loop's,   *)
(* over the rows of PositionLifecycle.                                     *)
(***************************************************************************)
EXTENDS TradingTables, FiniteSetsExt

CONSTANTS
    InitialBalance,   \* the constructor's initial_balance, in grains
    Cent,             \* grains to a cent
    Amount            \* realized PnLs a close can record, in grains

\* A row of portfolio_snapshots, as far as the agent reads it back.
SnapshotType ==
    [balance : Int, peak : Int, drawdown : Int, maxDrawdown : Int,
     wins : Nat, losses : Nat, breaker : BOOLEAN]

ASSUME MoneyAssumption ==
    /\ Cent \in Nat \ {0}
    /\ InitialBalance \in Nat \ {0}
    /\ InitialBalance % Cent = 0
    /\ MaxDrawdown \in Nat
    /\ Amount \subseteq Int
    /\ None \notin SnapshotType

VARIABLES
    pnl,              \* with status, the positions table of PositionLifecycle
    mgr,              \* where the manager task is suspended
    fetched,          \* the rows its first query returned
    metrics           \* the snapshot it is about to store

positions == <<status, pnl>>
mgrVars   == <<mgr, fetched, metrics>>
aloneVars == <<positions, snapshot, mgrVars>>

Higher(a, b) == IF a >= b THEN a ELSE b

\* Formatting with two decimals: the nearest multiple, the upper one of two.
Rounded(x, unit) == ((x + unit \div 2) \div unit) * unit
Cents(x)         == Rounded(x, Cent)

ClosedRows == {p \in Position : status[p] = "closed"}

TotalPnL(rows) == MapThenSumSet(LAMBDA p : pnl[p], rows)

\* The peak survives through the previous snapshot.
PeakOfNow(prev, balance) == Higher(InitialBalance, balance) \* mutant: it does not
Peak(prev, balance)      == Higher(IF prev = None THEN InitialBalance ELSE prev.peak, balance)

\* The drawdown is a quotient, compared with the limit before it is rounded.
Loss(peak, balance)     == (peak - balance) * 10000
Drawdown(peak, balance) ==
    IF peak > 0 THEN (2 * Loss(peak, balance) + peak) \div (2 * peak) ELSE 0
BreaksAgainstStart(peak, balance) == \* mutant: the loss since the start
    Loss(InitialBalance, balance) >= MaxDrawdown * InitialBalance
Breaks(peak, balance)   == peak > 0 /\ Loss(peak, balance) >= MaxDrawdown * peak

Wins(rows)    == Cardinality({p \in rows : pnl[p] > 0})
Losses(rows)  == Cardinality({p \in rows : pnl[p] < 0})

\* snapshot(), the synchronous part between the second query and the INSERT.
Metrics(rows, prev) ==
    LET balance == InitialBalance + TotalPnL(rows)
        peak    == Peak(prev, balance)
        dd      == Drawdown(peak, balance)
    IN  [balance     |-> Cents(balance),
         peak        |-> Cents(peak),
         drawdown    |-> dd,
         maxDrawdown |-> Higher(IF prev = None THEN 0 ELSE prev.maxDrawdown, dd),
         wins        |-> Wins(rows),
         losses      |-> Losses(rows),
         breaker     |-> Breaks(peak, balance)]

MgrInit ==
    /\ snapshot = None
    /\ mgr = "sleep" /\ fetched = {} /\ metrics = None

\* Mutant: the query returns one page.
FetchClosedPage ==
    /\ mgr = "sleep"
    /\ fetched' = IF Cardinality(ClosedRows) > 2
                  THEN ClosedRows \ {CHOOSE p \in ClosedRows : TRUE} ELSE ClosedRows
    /\ mgr' = "load"
    /\ UNCHANGED <<positions, snapshot, metrics>>

\* fetch_closed_positions
FetchClosed ==
    /\ mgr = "sleep"
    /\ fetched' = ClosedRows
    /\ mgr' = "load"
    /\ UNCHANGED <<positions, snapshot, metrics>>

\* Mutant: the closed positions are queried a second time for the counts.
LoadPreviousAgain ==
    /\ mgr = "load"
    /\ metrics' = [Metrics(fetched, snapshot) EXCEPT !.wins   = Wins(ClosedRows),
                                                     !.losses = Losses(ClosedRows)]
    /\ fetched' = {}
    /\ mgr' = "save"
    /\ UNCHANGED <<positions, snapshot>>

\* fetch_latest_portfolio and the computation
LoadPrevious ==
    /\ mgr = "load"
    /\ metrics' = Metrics(fetched, snapshot)
    /\ fetched' = {}
    /\ mgr' = "save"
    /\ UNCHANGED <<positions, snapshot>>

\* save_portfolio_snapshot
SaveSnapshot ==
    /\ mgr = "save"
    /\ snapshot' = metrics
    /\ metrics' = None
    /\ mgr' = "sleep"
    /\ UNCHANGED <<positions, fetched>>

\* What run() or a restart leaves of a snapshot that was cut short.
MgrReset == mgr' = "sleep" /\ fetched' = {} /\ metrics' = None

\* A failed query: run() logs it and sleeps.  The INSERT may have committed.
SnapshotFails ==
    /\ mgr # "sleep"
    /\ MgrReset
    /\ snapshot' \in {snapshot} \cup IF mgr = "save" THEN {metrics} ELSE {}
    /\ UNCHANGED positions

MgrStep == FetchClosed \/ LoadPrevious \/ SaveSnapshot

\* The monitor's close_position, at any moment between two queries.
RowCloses(p, x) ==
    /\ status[p] = "open"
    /\ status' = [status EXCEPT ![p] = "closed"]
    /\ pnl' = [pnl EXCEPT ![p] = x]
    /\ UNCHANGED <<snapshot, mgrVars>>

AloneInit ==
    /\ status = [p \in Position |-> "open"]
    /\ pnl = [p \in Position |-> None]
    /\ MgrInit

AloneNext == MgrStep \/ SnapshotFails \/ \E p \in Position, x \in Amount : RowCloses(p, x)

AloneSpec == AloneInit /\ [][AloneNext]_aloneVars

\* The timer of run() fires for ever, and a query that is tried again and again
\* is not refused for ever.  Nothing else is owed: no row need close.
AloneFairSpec ==
    AloneSpec /\ WF_aloneVars(FetchClosed) /\ SF_aloneVars(LoadPrevious) /\ SF_aloneVars(SaveSnapshot)
-----------------------------------------------------------------------------
(* Properties.                                                             *)

\* The manager's variables keep their types.
MgrTypeOK ==
    /\ snapshot \in SnapshotType \cup {None}
    /\ mgr \in {"sleep", "load", "save"}
    /\ fetched \subseteq Position
    /\ metrics \in SnapshotType \cup {None}

\* The peak and the maximum drawdown survive restarts and failed snapshots and
\* never fall, although each is carried through a rounded decimal string.
HighWaterMarks ==
    [][snapshot # None =>
          /\ snapshot' # None
          /\ snapshot'.peak >= snapshot.peak
          /\ snapshot'.maxDrawdown >= snapshot.maxDrawdown]_snapshot

\* The gate looks at the flag and at the stored drawdown.  The stored number
\* alone never lets through what the flag, computed before rounding, blocks.
BreakerAgreesWithDrawdown ==
    snapshot # None =>
        /\ snapshot.breaker => snapshot.drawdown >= MaxDrawdown
        /\ snapshot.drawdown > MaxDrawdown => snapshot.breaker
        /\ snapshot.maxDrawdown >= snapshot.drawdown

\* A stored snapshot is the state of the account at one moment: its PnL and its
\* counts are those of one set of closed rows, none counted in one figure only.
SnapshotIsConsistent ==
    snapshot # None => \E rows \in SUBSET ClosedRows :
        /\ snapshot.balance = Cents(InitialBalance + TotalPnL(rows))
        /\ snapshot.wins + snapshot.losses = Cardinality({p \in rows : pnl[p] # 0})

\* Once rows stop closing, the stored balance becomes and stays the one of
\* every closed row: no close is missed because a snapshot was under way.
UpToDate ==
    snapshot # None /\ snapshot.balance = Cents(InitialBalance + TotalPnL(ClosedRows))
SnapshotCatchesUp == <>[]UpToDate
=============================================================================
