------------------------- MODULE TradingCoreProofs -------------------------
(***************************************************************************)
(* Proofs about TradingCore and the PortfolioManager it contains, for any  *)
(* rows, symbols, PnLs, limits, rounding and number of decisions.          *)
(*                                                                         *)
(* The account: a snapshot, stored or about to be, was computed from one   *)
(* set of closed rows (FromClosedRows), its figures agree with each other  *)
(* (Sound) and its marks are at least those of the snapshot before it.     *)
(* Closed rows do not change, so this outlives every later close.  The     *)
(* total of the PnLs is a fold; that it exists, is an integer and depends  *)
(* on its own rows only is proved from smallest counterexamples.           *)
(*                                                                         *)
(* The loop: the gate refuses a snapshot with too much lost, so what it    *)
(* lets through leaves a balance to stake, and the peak that bounds an     *)
(* order never falls.  While the breaker is active and one order has       *)
(* already got through, the loop is not about to place another, and the    *)
(* copy of the snapshot it may hold is one the gate refuses.               *)
(***************************************************************************)
EXTENDS TradingCore, SequenceTheorems, FiniteSetTheorems, WellFoundedInduction, TLAPS

(* Sums. *)

\* A sum over a set as the fold defines it: g[s] for every subset s.
Chosen(s) == CHOOSE x \in s : TRUE
SumStep(f, g, s) == IF s = {} THEN 0 ELSE f[Chosen(s)] + g[s \ {Chosen(s)}]
IsSum(f, g, S) == g = [s \in SUBSET S |-> SumStep(f, g, s)]
SumOver(f, S) == (CHOOSE g : IsSum(f, g, S))[S]

\* The total PnL, unfolded, in a state and in the next one.
LEMMA TotalIsSum ==
    \A rows : /\ TotalPnL(rows) = SumOver(pnl, rows)
              /\ TotalPnL(rows)' = SumOver(pnl', rows)
BY DEF TotalPnL, MapThenSumSet, MapThenFoldSet, SumOver, IsSum, SumStep, Chosen

LEMMA ChosenIsIn == \A s : s # {} => Chosen(s) \in s
BY DEF Chosen

\* A set of naturals that is not empty has a least member.
LEMMA LeastNatural ==
    ASSUME NEW T, T \subseteq Nat, T # {}
    PROVE  \E n \in T : \A m \in T : n <= m
<1>1. PICK n \in T : \A m \in T : ~ (<<m, n>> \in OpToRel(<, Nat))
  BY NatLessThanWellFounded, WFMin
<1>2. ASSUME NEW m \in T PROVE n <= m
  <2>1. ~ (m < n)
    BY <1>1 DEF OpToRel
  <2> QED
    BY <2>1
<1> QED
  BY <1>2

\* g is the sum on the subsets of S with at most n members.
Small(S, n) == {s \in SUBSET S : Cardinality(s) <= n}
SumsUpTo(f, g, S, n) ==
    /\ g \in [Small(S, n) -> Int]
    /\ \A s \in Small(S, n) : g[s] = SumStep(f, g, s)

\* A sum for the sets with at most n members gives one for those with n + 1.
LEMMA SumExtends ==
    ASSUME NEW S, IsFiniteSet(S), NEW f, \A x \in S : f[x] \in Int,
           NEW n \in Nat, NEW g, SumsUpTo(f, g, S, n)
    PROVE  \E h : SumsUpTo(f, h, S, n + 1)
<1> DEFINE h == [s \in Small(S, n + 1) |-> SumStep(f, g, s)]
<1>1. ASSUME NEW s \in Small(S, n + 1), s # {}
      PROVE  s \ {Chosen(s)} \in Small(S, n) /\ Chosen(s) \in S
  <2>1. s \subseteq S /\ Cardinality(s) <= n + 1 /\ Chosen(s) \in s
    BY <1>1, ChosenIsIn DEF Small
  <2>2. IsFiniteSet(s) /\ Cardinality(s) \in Nat
    BY <2>1, FS_Subset, FS_CardinalityType
  <2>3. Cardinality(s \ {Chosen(s)}) = Cardinality(s) - 1
    BY <2>1, <2>2, FS_RemoveElement
  <2> QED
    BY <2>1, <2>2, <2>3 DEF Small
<1>2. ASSUME NEW s \in Small(S, n + 1) PROVE SumStep(f, g, s) \in Int
  <2>1. CASE s = {}
    BY <2>1 DEF SumStep
  <2>2. CASE s # {}
    <3>1. f[Chosen(s)] \in Int /\ g[s \ {Chosen(s)}] \in Int
      BY <1>1, <2>2 DEF SumsUpTo
    <3> QED
      BY <3>1, <2>2 DEF SumStep
  <2> QED
    BY <2>1, <2>2
<1>3. h \in [Small(S, n + 1) -> Int]
  BY <1>2
<1>4. ASSUME NEW s \in Small(S, n) PROVE s \in Small(S, n + 1) /\ h[s] = g[s]
  <2>1. Cardinality(s) \in Nat
    BY FS_Subset, FS_CardinalityType DEF Small
  <2>2. s \in Small(S, n + 1)
    BY <2>1 DEF Small
  <2> QED
    BY <2>2 DEF SumsUpTo
<1>5. ASSUME NEW s \in Small(S, n + 1) PROVE h[s] = SumStep(f, h, s)
  <2>1. CASE s = {}
    BY <2>1 DEF SumStep
  <2>2. CASE s # {}
    <3>1. h[s \ {Chosen(s)}] = g[s \ {Chosen(s)}]
      BY <1>1, <1>4, <2>2
    <3>2. h[s] = SumStep(f, g, s)
      OBVIOUS
    <3> HIDE DEF h
    <3> QED
      BY <3>1, <3>2, <2>2 DEF SumStep
  <2> QED
    BY <2>1, <2>2
<1> HIDE DEF h
<1> QED
  BY <1>3, <1>5 DEF SumsUpTo

\* The fold over a finite set has a value: the least n without one is not 0,
\* and is not the successor of one that has.
LEMMA SumExists ==
    ASSUME NEW S, IsFiniteSet(S), NEW f, \A x \in S : f[x] \in Int
    PROVE  \E g \in [SUBSET S -> Int] : IsSum(f, g, S)
<1> DEFINE Bad == {n \in Nat : ~ \E g : SumsUpTo(f, g, S, n)}
<1>1. \E g : SumsUpTo(f, g, S, 0)
  <2> DEFINE g == [s \in Small(S, 0) |-> 0]
  <2>1. ASSUME NEW s \in Small(S, 0) PROVE s = {}
    BY FS_Subset, FS_CardinalityType, FS_EmptySet DEF Small
  <2>2. SumsUpTo(f, g, S, 0)
    BY <2>1 DEF SumsUpTo, SumStep
  <2> QED
    BY <2>2
<1>2. Bad = {}
  <2> SUFFICES ASSUME Bad # {} PROVE FALSE
    OBVIOUS
  <2>1. PICK n \in Bad : \A m \in Bad : n <= m
    BY LeastNatural
  <2>2. n \in Nat /\ n # 0
    BY <1>1
  <2>3. n - 1 \in Nat /\ n - 1 \notin Bad
    BY <2>1, <2>2
  <2>4. PICK g : SumsUpTo(f, g, S, n - 1)
    BY <2>3
  <2>5. \E h : SumsUpTo(f, h, S, (n - 1) + 1)
    BY <2>3, <2>4, SumExtends
  <2>6. (n - 1) + 1 = n
    BY <2>2
  <2> QED
    BY <2>5, <2>6
<1>3. Cardinality(S) \in Nat
  BY FS_CardinalityType
<1>4. PICK g : SumsUpTo(f, g, S, Cardinality(S))
  BY <1>2, <1>3
<1>5. Small(S, Cardinality(S)) = SUBSET S
  BY FS_Subset DEF Small
<1>6. g \in [SUBSET S -> Int] /\ \A s \in SUBSET S : g[s] = SumStep(f, g, s)
  BY <1>4, <1>5 DEF SumsUpTo
<1>7. g = [s \in SUBSET S |-> SumStep(f, g, s)]
  BY <1>6
<1> QED
  BY <1>6, <1>7 DEF IsSum

\* It has one value: there is no smallest set on which two sums differ.
LEMMA SumUnique ==
    ASSUME NEW S, IsFiniteSet(S), NEW f, NEW g, NEW h, IsSum(f, g, S), IsSum(f, h, S)
    PROVE  g = h
<1> DEFINE Diff == {s \in SUBSET S : g[s] # h[s]}
<1>1. /\ \A s \in SUBSET S : g[s] = SumStep(f, g, s)
      /\ \A s \in SUBSET S : h[s] = SumStep(f, h, s)
  <2>1. ASSUME NEW k, IsSum(f, k, S), NEW s \in SUBSET S PROVE k[s] = SumStep(f, k, s)
    <3>1. k = [t \in SUBSET S |-> SumStep(f, k, t)]
      BY <2>1 DEF IsSum
    <3>2. [t \in SUBSET S |-> SumStep(f, k, t)][s] = SumStep(f, k, s)
      OBVIOUS
    <3> QED
      BY <3>1, <3>2, Zenon
  <2> QED
    BY <2>1
<1>2. CASE Diff # {}
  <2>0. Diff \subseteq FiniteSubsetsOf(S)
    BY FS_FiniteSubsetsOfFinite
  <2>1. PICK s \in Diff : \A t \in Diff : ~ (<<t, s>> \in StrictSubsetOrdering(S))
    BY <1>2, <2>0, FS_StrictSubsetOrderingWellFounded, WFMin
  <2>2. s # {}
    BY <1>1 DEF SumStep
  <2>3. Chosen(s) \in s /\ s \ {Chosen(s)} \in SUBSET S
    BY <2>2, ChosenIsIn
  <2>4. <<s \ {Chosen(s)}, s>> \in StrictSubsetOrdering(S)
    BY <2>3 DEF StrictSubsetOrdering
  <2>5. g[s \ {Chosen(s)}] = h[s \ {Chosen(s)}]
    BY <2>1, <2>3, <2>4
  <2>6. g[s] = h[s]
    BY <1>1, <2>2, <2>5 DEF SumStep
  <2> QED
    BY <2>6
<1>3. CASE Diff = {}
  BY <1>3 DEF IsSum
<1> QED
  BY <1>2, <1>3

\* A sum of integers is an integer.
LEMMA SumIsInt ==
    ASSUME NEW S, IsFiniteSet(S), NEW f, \A x \in S : f[x] \in Int
    PROVE  SumOver(f, S) \in Int
<1>1. PICK g \in [SUBSET S -> Int] : IsSum(f, g, S)
  BY SumExists
<1>2. IsSum(f, CHOOSE h : IsSum(f, h, S), S)
  BY <1>1
<1>3. (CHOOSE h : IsSum(f, h, S)) = g
  BY <1>1, <1>2, SumUnique
<1> QED
  BY <1>3 DEF SumOver

\* A sum depends on what is summed and on nothing else.
LEMMA SumDependsOnRows ==
    ASSUME NEW S, IsFiniteSet(S), NEW f, NEW h, \A x \in S : f[x] \in Int /\ f[x] = h[x]
    PROVE  SumOver(f, S) = SumOver(h, S)
<1>1. PICK g \in [SUBSET S -> Int] : IsSum(f, g, S)
  BY SumExists
<1>2. \A s \in SUBSET S : SumStep(f, g, s) = SumStep(h, g, s)
  BY ChosenIsIn DEF SumStep
<1>3. IsSum(h, g, S)
  BY <1>1, <1>2 DEF IsSum
<1>4. IsSum(f, CHOOSE k : IsSum(f, k, S), S) /\ IsSum(h, CHOOSE k : IsSum(h, k, S), S)
  BY <1>1, <1>3
<1>5. (CHOOSE k : IsSum(f, k, S)) = g /\ (CHOOSE k : IsSum(h, k, S)) = g
  BY <1>1, <1>3, <1>4, SumUnique
<1> QED
  BY <1>5 DEF SumOver

-----------------------------------------------------------------------------
(* Rounding, the drawdown and the breaker. *)

\* Quotients and remainders: a is between two multiples of b.
LEMMA Quotient ==
    ASSUME NEW a \in Int, NEW b \in Nat \ {0}
    PROVE  a \div b \in Int /\ b * (a \div b) <= a /\ a < b * (a \div b) + b
OBVIOUS

LEMMA TimesMonotone ==
    ASSUME NEW a \in Int, NEW b \in Int, NEW c \in Nat, a <= b
    PROVE  c * a <= c * b
OBVIOUS

LEMMA TimesCancels ==
    ASSUME NEW a \in Int, NEW b \in Int, NEW c \in Nat \ {0}, c * a < c * b
    PROVE  a < b
OBVIOUS

\* Rounding to cents keeps the order of amounts ...
LEMMA CentsMonotone ==
    ASSUME NEW x \in Int, NEW y \in Int, x <= y
    PROVE  Cents(x) <= Cents(y) 
<1> DEFINE h == Cent \div 2
<1> DEFINE p == (x + h) \div Cent
<1> DEFINE q == (y + h) \div Cent
<1>0. Cent \in Nat \ {0} /\ h \in Int
  BY MoneyAssumption, Quotient
<1>1. p \in Int /\ Cent * p <= x + h /\ x + h < Cent * p + Cent
  BY <1>0, Quotient
<1>2. q \in Int /\ Cent * q <= y + h /\ y + h < Cent * q + Cent
  BY <1>0, Quotient
<1>3. Cents(x) = p * Cent /\ Cents(y) = q * Cent
  BY DEF Cents, Rounded
<1> HIDE DEF h, p, q
<1>4. Cent * p < Cent * (q + 1)
  BY <1>0, <1>1, <1>2
<1>5. p <= q
  BY <1>0, <1>1, <1>2, <1>4, TimesCancels
<1> QED
  BY <1>0, <1>1, <1>2, <1>3, <1>5, TimesMonotone

\* ... leaves whole cents alone ...
LEMMA CentsFixed ==
    ASSUME NEW x \in Int
    PROVE  Cents(x * Cent) = x * Cent 
<1> DEFINE h == Cent \div 2
<1> DEFINE q == (x * Cent + h) \div Cent
<1>0. Cent \in Nat \ {0} /\ h \in Int /\ x * Cent \in Int
  BY MoneyAssumption, Quotient
<1>1. 0 <= h /\ h < Cent
  BY <1>0, Quotient
<1>2. q \in Int /\ Cent * q <= x * Cent + h /\ x * Cent + h < Cent * q + Cent
  BY <1>0, Quotient
<1>3. Cents(x * Cent) = q * Cent
  BY DEF Cents, Rounded
<1> HIDE DEF h, q
<1>4. Cent * q < Cent * (x + 1) /\ Cent * x < Cent * (q + 1)
  BY <1>0, <1>1, <1>2
<1>5. q = x
  BY <1>0, <1>2, <1>4, TimesCancels
<1> QED
  BY <1>3, <1>5

\* ... and yields whole cents.
LEMMA CentsIsMultiple ==
    ASSUME NEW x \in Int
    PROVE  \E k \in Int : Cents(x) = k * Cent
<1>1. Cent \in Nat \ {0} /\ Cent \div 2 \in Int
  BY MoneyAssumption, Quotient
<1>2. (x + Cent \div 2) \div Cent \in Int
  BY <1>1, Quotient
<1> QED
  BY <1>2 DEF Cents, Rounded

\* The drawdown, rounded, and the breaker, not rounded, agree except at the limit.
LEMMA DrawdownAndBreaker ==
    ASSUME NEW peak \in Nat \ {0}, NEW balance \in Int, balance <= peak
    PROVE  /\ Drawdown(peak, balance) \in Int
           /\ Breaks(peak, balance) => Drawdown(peak, balance) >= MaxDrawdown
           /\ Drawdown(peak, balance) > MaxDrawdown => Breaks(peak, balance)
<1> DEFINE L == Loss(peak, balance)
<1> DEFINE d == (2 * L + peak) \div (2 * peak)
<1>1. L \in Nat /\ 2 * L + peak \in Int /\ 2 * peak \in Nat \ {0}
  BY DEF Loss
<1>2. d \in Int /\ (2 * peak) * d <= 2 * L + peak /\ 2 * L + peak < (2 * peak) * d + 2 * peak
  <2> HIDE DEF L
  <2> QED
    BY <1>1, Quotient
<1>3. Drawdown(peak, balance) = d /\ (Breaks(peak, balance) <=> L >= MaxDrawdown * peak)
  BY DEF Drawdown, Breaks
<1> HIDE DEF L, d
<1>0. MaxDrawdown \in Nat
  BY MoneyAssumption
<1>4. ASSUME L >= MaxDrawdown * peak PROVE d >= MaxDrawdown
  <2>1. (2 * peak) * MaxDrawdown < (2 * peak) * (d + 1)
    BY <1>0, <1>1, <1>2, <1>4
  <2> QED
    BY <2>1, <1>0, <1>2, TimesCancels
<1>5. ASSUME d > MaxDrawdown PROVE L >= MaxDrawdown * peak
  <2>1. (2 * peak) * (MaxDrawdown + 1) <= (2 * peak) * d
    BY <1>0, <1>2, <1>5, TimesMonotone
  <2> QED
    BY <2>1, <1>0, <1>1, <1>2
<1> QED
  BY <1>2, <1>3, <1>4, <1>5

\* While the breaker is off, a cent is left of the balance.
LEMMA BalanceIsLeft ==
    ASSUME NEW peak \in Nat \ {0}, NEW balance \in Int, InitialBalance <= peak,
           ~ Breaks(peak, balance)
    PROVE  Cents(balance) >= Cent
<1>0. MaxDrawdown \in Nat /\ Cent \in Nat \ {0} /\ InitialBalance \in Nat \ {0}
  BY MoneyAssumption
<1>1. (peak - balance) * 10000 < MaxDrawdown * peak
  BY <1>0 DEF Breaks, Loss
<1>2. (10000 - MaxDrawdown) * peak < 10000 * balance
  BY <1>0, <1>1
<1>3. 10000 * Cent <= (10000 - MaxDrawdown) * InitialBalance
  BY CoreAssumption
<1>4. 10000 - MaxDrawdown \in Nat
  <2>1. ASSUME 10000 - MaxDrawdown < 0 PROVE FALSE
    <3>1. InitialBalance * (10000 - MaxDrawdown) <= InitialBalance * 0
      BY <1>0, <2>1, TimesMonotone
    <3> QED
      BY <3>1, <1>0, <1>3
  <2> QED
    BY <2>1, <1>0
<1>5. (10000 - MaxDrawdown) * InitialBalance <= (10000 - MaxDrawdown) * peak
  BY <1>0, <1>4, TimesMonotone
<1>6. Cent <= balance
  <2>1. 10000 * Cent < 10000 * balance
    BY <1>0, <1>2, <1>3, <1>4, <1>5
  <2> QED
    BY <2>1, <1>0
<1>7. Cents(1 * Cent) = 1 * Cent
  BY CentsFixed
<1>8. Cents(Cent) <= Cents(balance)
  BY <1>0, <1>6, CentsMonotone
<1> QED
  BY <1>0, <1>7, <1>8

-----------------------------------------------------------------------------
(* The account. *)

\* The positions table, of which finitely many rows are closed.
RowsInv ==
    /\ status \in [Position -> {"absent", "open", "closed"}]
    /\ pnl \in [Position -> Amount \cup {None}]
    /\ IsFiniteSet(ClosedRows)
    /\ \A p \in ClosedRows : pnl[p] \in Amount

\* The figures of a snapshot agree with each other.
Sound(s) ==
    /\ s \in SnapshotType
    /\ s.breaker => s.drawdown >= MaxDrawdown
    /\ s.drawdown > MaxDrawdown => s.breaker
    /\ s.maxDrawdown >= s.drawdown
    /\ InitialBalance <= s.peak /\ s.balance <= s.peak
    /\ \E k \in Int : s.peak = k * Cent
    /\ ~s.breaker => s.balance >= Cent

\* A snapshot is the state of the account over one set of closed rows.
FromRows(s, rows) ==
    /\ s.balance = Cents(InitialBalance + TotalPnL(rows))
    /\ s.wins + s.losses = Cardinality({p \in rows : pnl[p] # 0})
FromClosedRows(s) == \E rows \in SUBSET ClosedRows : FromRows(s, rows)

AtLeast(s, prev) == s.peak >= prev.peak /\ s.maxDrawdown >= prev.maxDrawdown

AccountInv ==
    /\ RowsInv
    /\ mgr \in {"sleep", "load", "save"}
    /\ fetched \subseteq ClosedRows
    /\ snapshot # None => Sound(snapshot) /\ FromClosedRows(snapshot)
    /\ mgr = "save" => metrics # None
    /\ mgr # "save" => metrics = None
    /\ metrics # None =>
          /\ Sound(metrics) /\ FromClosedRows(metrics)
          /\ snapshot # None => AtLeast(metrics, snapshot)

\* Wins and losses are disjoint, and together the rows whose PnL is not zero.
LEMMA WinsAndLosses ==
    ASSUME NEW rows, IsFiniteSet(rows), \A p \in rows : pnl[p] \in Int
    PROVE  /\ Wins(rows) \in Nat /\ Losses(rows) \in Nat
           /\ Wins(rows) + Losses(rows) = Cardinality({p \in rows : pnl[p] # 0})
<1> DEFINE W == {p \in rows : pnl[p] > 0}
<1> DEFINE L == {p \in rows : pnl[p] < 0}
<1>1. IsFiniteSet(W) /\ IsFiniteSet(L)
  BY FS_Subset
<1>2. W \cup L = {p \in rows : pnl[p] # 0} /\ W \cap L = {}
  OBVIOUS
<1>3. Cardinality(W) \in Nat /\ Cardinality(L) \in Nat /\ Cardinality(W \cap L) = 0
  BY <1>1, <1>2, FS_CardinalityType, FS_EmptySet
<1>4. Cardinality(W \cup L) = Cardinality(W) + Cardinality(L) - Cardinality(W \cap L)
  BY <1>1, FS_Union
<1>5. Wins(rows) = Cardinality(W) /\ Losses(rows) = Cardinality(L)
  BY DEF Wins, Losses
<1> HIDE DEF W, L
<1>6. Cardinality(W \cup L) = Cardinality(W) + Cardinality(L)
  BY <1>3, <1>4
<1> QED
  BY <1>2, <1>3, <1>5, <1>6

\* Over closed rows the total is an integer.
LEMMA TotalIsInt ==
    ASSUME RowsInv, NEW rows \in SUBSET ClosedRows
    PROVE  TotalPnL(rows) \in Int /\ IsFiniteSet(rows) /\ \A p \in rows : pnl[p] \in Int
<1>1. IsFiniteSet(rows)
  BY FS_Subset DEF RowsInv
<1>2. \A p \in rows : pnl[p] \in Int
  <2>1. Amount \subseteq Int
    BY MoneyAssumption
  <2>2. \A p \in rows : pnl[p] \in Amount
    BY DEF RowsInv
  <2> QED
    BY <2>1, <2>2
<1> QED
  BY <1>1, <1>2, SumIsInt, TotalIsSum

\* What snapshot() computes is sound whatever set of closed rows it was given.
LEMMA MetricsAreSound ==
    ASSUME RowsInv, NEW rows \in SUBSET ClosedRows,
           NEW prev, prev # None => Sound(prev)
    PROVE  /\ Sound(Metrics(rows, prev))
           /\ FromRows(Metrics(rows, prev), rows)
           /\ prev # None => AtLeast(Metrics(rows, prev), prev)
           /\ Metrics(rows, prev) # None
<1> DEFINE balance == InitialBalance + TotalPnL(rows)
<1> DEFINE peak == Peak(prev, balance)
<1> DEFINE dd == Drawdown(peak, balance)
<1> DEFINE before == IF prev = None THEN InitialBalance ELSE prev.peak
<1> DEFINE worst == IF prev = None THEN 0 ELSE prev.maxDrawdown
<1> DEFINE m == Metrics(rows, prev)
<1>0. InitialBalance \in Nat \ {0} /\ Cent \in Nat \ {0}
  BY MoneyAssumption
<1>1. TotalPnL(rows) \in Int /\ balance \in Int
  BY <1>0, TotalIsInt
<1>2. before \in Int /\ worst \in Int /\ InitialBalance <= before
  BY <1>0 DEF Sound, SnapshotType
<1>3. \E k \in Int : before = k * Cent
  <2>1. CASE prev = None
    <3>1. InitialBalance = (InitialBalance \div Cent) * Cent /\ InitialBalance \div Cent \in Int
      BY MoneyAssumption, Quotient
    <3> QED
      BY <2>1, <3>1
  <2>2. CASE prev # None
    BY <2>2 DEF Sound
  <2> QED
    BY <2>1, <2>2
<1>4. peak = Higher(before, balance)
  BY DEF Peak
<1>5. m = [balance |-> Cents(balance), peak |-> Cents(peak), drawdown |-> dd,
           maxDrawdown |-> Higher(worst, dd), wins |-> Wins(rows),
           losses |-> Losses(rows), breaker |-> Breaks(peak, balance)]
  BY DEF Metrics
<1>6. Wins(rows) \in Nat /\ Losses(rows) \in Nat
      /\ Wins(rows) + Losses(rows) = Cardinality({p \in rows : pnl[p] # 0})
  BY TotalIsInt, WinsAndLosses
<1> HIDE DEF balance, before, worst, m
<1>7. peak \in Nat \ {0} /\ before <= peak /\ balance <= peak /\ InitialBalance <= peak
  BY <1>0, <1>1, <1>2, <1>4 DEF Higher
<1> HIDE DEF peak
<1>8. /\ dd \in Int
      /\ Breaks(peak, balance) => dd >= MaxDrawdown
      /\ dd > MaxDrawdown => Breaks(peak, balance)
  BY <1>1, <1>7, DrawdownAndBreaker
<1> HIDE DEF dd
<1>9. Higher(worst, dd) \in Int /\ Higher(worst, dd) >= dd /\ Higher(worst, dd) >= worst
  BY <1>2, <1>8 DEF Higher
<1>10. Cents(balance) \in Int /\ Cents(peak) \in Int
       /\ \E k \in Int : Cents(peak) = k * Cent
  <2>1. \A x \in Int : \E k \in Int : Cents(x) = k * Cent
    BY CentsIsMultiple
  <2>2. \A x \in Int : Cents(x) \in Int
    BY <1>0, <2>1
  <2>3. peak \in Int
    BY <1>7
  <2> QED
    BY <1>1, <2>1, <2>2, <2>3, Zenon
<1>11. Cents(balance) <= Cents(peak)
  BY <1>1, <1>7, CentsMonotone
<1>12. before <= Cents(peak)
  <2>1. Cents(before) = before
    BY <1>3, CentsFixed
  <2> QED
    BY <1>2, <1>7, <2>1, CentsMonotone
<1>13. ~ Breaks(peak, balance) => Cents(balance) >= Cent
  BY <1>1, <1>7, BalanceIsLeft
<1>14. Breaks(peak, balance) \in BOOLEAN
  BY DEF Breaks
<1>15. m \in SnapshotType
  BY <1>5, <1>6, <1>8, <1>9, <1>10, <1>14 DEF SnapshotType
<1>16. Sound(m)
  <2>1. InitialBalance <= Cents(peak)
    BY <1>0, <1>2, <1>10, <1>12
  <2> QED
    BY <1>5, <1>8, <1>9, <1>10, <1>11, <1>13, <1>15, <2>1 DEF Sound
<1>17. FromRows(m, rows)
  BY <1>5, <1>6 DEF FromRows, balance
<1>18. prev # None => AtLeast(m, prev)
  BY <1>5, <1>9, <1>12 DEF AtLeast, before, worst
<1>19. m # None
  BY <1>15, MoneyAssumption
<1> QED
  BY <1>16, <1>17, <1>18, <1>19 DEF m

\* Closed rows do not change, so what was computed from them stays true of them.
LEMMA FromRowsStays ==
    ASSUME RowsInv, NEW s, FromClosedRows(s),
           ClosedRows \subseteq ClosedRows',
           \A p \in ClosedRows : pnl'[p] = pnl[p]
    PROVE  \E rows \in SUBSET ClosedRows' :
              /\ s.balance = Cents(InitialBalance + TotalPnL(rows)')
              /\ s.wins + s.losses = Cardinality({p \in rows : pnl'[p] # 0})
<1>1. PICK rows \in SUBSET ClosedRows : FromRows(s, rows)
  BY DEF FromClosedRows
<1>2. IsFiniteSet(rows) /\ \A p \in rows : pnl[p] \in Int /\ pnl[p] = pnl'[p]
  BY TotalIsInt
<1>3. SumOver(pnl, rows) = SumOver(pnl', rows)
  BY <1>2, SumDependsOnRows
<1>4. TotalPnL(rows)' = TotalPnL(rows)
  BY <1>3, TotalIsSum
<1>5. {p \in rows : pnl'[p] # 0} = {p \in rows : pnl[p] # 0}
  BY <1>2
<1> QED
  BY <1>1, <1>4, <1>5 DEF FromRows

\* What a step of the table may do: rows close, and closed rows do not change.
RowsMove ==
    /\ RowsInv'
    /\ ClosedRows \subseteq ClosedRows'
    /\ \A p \in ClosedRows : pnl'[p] = pnl[p]

\* The rows that are closed stay finitely many, and a closed row has its PnL.
LEMMA CloseMovesRows ==
    ASSUME RowsInv, NEW p \in Position, NEW x \in Amount, status[p] = "open",
           status' = [status EXCEPT ![p] = "closed"],
           pnl' = [pnl EXCEPT ![p] = x]
    PROVE  RowsMove
<1>1. ClosedRows' = ClosedRows \cup {p}
  BY DEF RowsInv, ClosedRows
<1>2. IsFiniteSet(ClosedRows')
  BY <1>1, FS_AddElement DEF RowsInv
<1>3. p \notin ClosedRows
  BY DEF ClosedRows
<1>4. \A q \in Position : q # p => pnl'[q] = pnl[q]
  BY DEF RowsInv
<1>5. pnl'[p] = x
  BY DEF RowsInv
<1>6. \A q \in ClosedRows : pnl'[q] = pnl[q]
  BY <1>3, <1>4 DEF ClosedRows
<1>7. \A q \in ClosedRows' : pnl'[q] \in Amount
  BY <1>1, <1>5, <1>6 DEF RowsInv
<1>8. /\ status' \in [Position -> {"absent", "open", "closed"}]
      /\ pnl' \in [Position -> Amount \cup {None}]
  BY DEF RowsInv
<1> QED
  BY <1>1, <1>2, <1>6, <1>7, <1>8 DEF RowsMove, RowsInv

\* A row that opens, or no row at all.
LEMMA OpenMovesRows ==
    ASSUME RowsInv, UNCHANGED pnl,
           \/ UNCHANGED status
           \/ \E p \in Position : status[p] = "absent" /\ status' = [status EXCEPT ![p] = "open"]
    PROVE  RowsMove
<1>1. ClosedRows' = ClosedRows
  BY DEF RowsInv, ClosedRows
<1>2. status' \in [Position -> {"absent", "open", "closed"}]
  BY DEF RowsInv
<1> QED
  BY <1>1, <1>2 DEF RowsMove, RowsInv

\* A step that moves rows and leaves the manager alone keeps all that was
\* computed from closed rows.
LEMMA RowsMoveKeepsAccount ==
    ASSUME AccountInv, RowsMove, UNCHANGED <<snapshot, mgr, fetched, metrics>>
    PROVE  AccountInv'
<1>1. ASSUME NEW s, FromClosedRows(s)
      PROVE  \E rows \in SUBSET ClosedRows' :
                /\ s.balance = Cents(InitialBalance + TotalPnL(rows)')
                /\ s.wins + s.losses = Cardinality({p \in rows : pnl'[p] # 0})
  BY <1>1, FromRowsStays DEF AccountInv, RowsMove
<1>2. snapshot # None => FromClosedRows(snapshot)'
  <2> HAVE snapshot # None
  <2>1. FromClosedRows(snapshot)
    BY DEF AccountInv
  <2> QED
    BY <2>1, <1>1 DEF FromClosedRows, FromRows
<1>3. metrics # None => FromClosedRows(metrics)'
  <2> HAVE metrics # None
  <2>1. FromClosedRows(metrics)
    BY DEF AccountInv
  <2> QED
    BY <2>1, <1>1 DEF FromClosedRows, FromRows
<1>4. fetched' \subseteq ClosedRows' /\ RowsInv'
  BY DEF AccountInv, RowsMove
<1> QED
  BY <1>2, <1>3, <1>4 DEF AccountInv, Sound, AtLeast

\* The manager's own steps, a query that fails and a crash leave the rows alone.
LEMMA SameRows ==
    ASSUME RowsInv, UNCHANGED <<status, pnl>>
    PROVE  RowsInv' /\ ClosedRows' = ClosedRows
           /\ \A s : FromClosedRows(s)' <=> FromClosedRows(s)
<1>1. RowsInv' /\ ClosedRows' = ClosedRows
  BY DEF RowsInv, ClosedRows
<1>2. \A rows : TotalPnL(rows)' = TotalPnL(rows)
  BY TotalIsSum
<1> QED
  BY <1>1, <1>2 DEF FromClosedRows, FromRows

\* The three steps of snapshot() and their failures, with the marks they store.
LEMMA ManagerKeepsAccount ==
    ASSUME AccountInv, MgrStep \/ SnapshotFails
    PROVE  /\ AccountInv'
           /\ snapshot # None => snapshot' # None /\ AtLeast(snapshot', snapshot)
<1>0. UNCHANGED <<status, pnl>>
  BY DEF MgrStep, SnapshotFails, FetchClosed, LoadPrevious,
     SaveSnapshot, positions
<1>1. RowsInv' /\ ClosedRows' = ClosedRows
  BY <1>0, SameRows DEF AccountInv
<1>2. ASSUME NEW s PROVE FromClosedRows(s)' <=> FromClosedRows(s)
  BY <1>0, SameRows DEF AccountInv
<1>3. snapshot # None => AtLeast(snapshot, snapshot)
  BY DEF AccountInv, AtLeast, Sound, SnapshotType
<1>4. CASE FetchClosed
  BY <1>1, <1>2, <1>3, <1>4 DEF AccountInv, FetchClosed
<1>5. CASE LoadPrevious
  <2> DEFINE m == Metrics(fetched, snapshot)
  <2>1. Sound(m) /\ FromRows(m, fetched) /\ (snapshot # None => AtLeast(m, snapshot)) /\ m # None
    BY MetricsAreSound DEF AccountInv
  <2>2. /\ metrics' = m /\ fetched' = {} /\ mgr' = "save" /\ UNCHANGED snapshot
    BY <1>5 DEF LoadPrevious
  <2>3. FromClosedRows(m)
    BY <2>1 DEF AccountInv, FromClosedRows
  <2> HIDE DEF m
  <2> QED
    BY <1>1, <1>2, <1>3, <2>1, <2>2, <2>3 DEF AccountInv
<1>6. CASE SaveSnapshot \/ SnapshotFails
  <2>1. /\ mgr' = "sleep" /\ metrics' = None /\ fetched' \subseteq fetched
        /\ snapshot' \in {snapshot, metrics} /\ (snapshot' # snapshot => mgr = "save")
    BY <1>6 DEF SaveSnapshot, SnapshotFails, MgrReset
  <2>2. CASE snapshot' = snapshot
    BY <1>1, <1>2, <1>3, <2>1, <2>2 DEF AccountInv
  <2>3. CASE snapshot' = metrics /\ mgr = "save"
    <3>1. /\ metrics # None /\ Sound(metrics) /\ FromClosedRows(metrics)
          /\ snapshot # None => AtLeast(metrics, snapshot)
      BY <2>3 DEF AccountInv
    <3> QED
      BY <1>1, <1>2, <2>1, <2>3, <3>1 DEF AccountInv
  <2> QED
    BY <2>1, <2>2, <2>3
<1> QED
  BY <1>4, <1>5, <1>6 DEF MgrStep

\* A crash of the process, seen from the account.
LEMMA ResetKeepsAccount ==
    ASSUME AccountInv, MgrReset, UNCHANGED <<status, pnl, snapshot>>
    PROVE  AccountInv'
<1>1. RowsInv' /\ ClosedRows' = ClosedRows
  BY SameRows DEF AccountInv
<1>2. ASSUME NEW s PROVE FromClosedRows(s)' <=> FromClosedRows(s)
  BY SameRows DEF AccountInv
<1> QED
  BY <1>1, <1>2 DEF AccountInv, MgrReset

\* Before the first snapshot there is nothing to account for.
LEMMA InitAccount ==
    ASSUME status \in [Position -> {"absent", "open"}], pnl = [p \in Position |-> None],
           MgrInit
    PROVE  AccountInv
<1>1. ClosedRows = {}
  BY DEF ClosedRows
<1>2. RowsInv
  BY <1>1, FS_EmptySet DEF RowsInv
<1> QED
  BY <1>1, <1>2 DEF AccountInv, MgrInit

\* What the account's invariant says of the stored snapshot.
LEMMA AccountImplies ==
    ASSUME AccountInv
    PROVE  BreakerAgreesWithDrawdown /\ SnapshotIsConsistent
<1>1. BreakerAgreesWithDrawdown
  BY DEF AccountInv, Sound, BreakerAgreesWithDrawdown
<1>2. SnapshotIsConsistent
  BY DEF AccountInv, FromClosedRows, FromRows, SnapshotIsConsistent
<1> QED
  BY <1>1, <1>2

LEMMA ManagerInitAccount == AloneInit => AccountInv
BY InitAccount DEF AloneInit

\* The manager by itself, over rows that close in any order.
LEMMA ManagerSpecStep ==
    ASSUME AccountInv, [AloneNext]_aloneVars
    PROVE  /\ AccountInv'
           /\ snapshot # None => snapshot' # None /\ AtLeast(snapshot', snapshot)
<1>0. snapshot # None => AtLeast(snapshot, snapshot)
  BY DEF AccountInv, AtLeast, Sound, SnapshotType
<1>1. CASE MgrStep \/ SnapshotFails
  BY <1>1, ManagerKeepsAccount
<1>2. ASSUME NEW p \in Position, NEW x \in Amount, RowCloses(p, x)
      PROVE  AccountInv' /\ UNCHANGED snapshot
  <2>1. RowsMove
    BY <1>2, CloseMovesRows DEF AccountInv, RowCloses
  <2> QED
    BY <1>2, <2>1, RowsMoveKeepsAccount DEF RowCloses, mgrVars
<1>3. CASE UNCHANGED aloneVars
  <2>1. RowsMove
    BY <1>3, OpenMovesRows DEF AccountInv, aloneVars, positions
  <2> QED
    BY <1>0, <1>3, <2>1, RowsMoveKeepsAccount DEF aloneVars, mgrVars
<1> QED
  BY <1>0, <1>1, <1>2, <1>3 DEF AloneNext

\* The flag, computed before rounding, and the stored drawdown never contradict
\* each other about the limit (snapshot() and gate 3 of RiskGate.check), for any
\* amounts, balance, limit and unit of rounding.
THEOREM BreakerAgrees == AloneSpec => []BreakerAgreesWithDrawdown
BY ManagerInitAccount, ManagerSpecStep, AccountImplies, PTL DEF AloneSpec

\* However rows close between its queries, a stored snapshot is the state of the
\* account at one moment (fetch_closed_positions is read once).
THEOREM SnapshotsAreConsistent == AloneSpec => []SnapshotIsConsistent
BY ManagerInitAccount, ManagerSpecStep, AccountImplies, PTL DEF AloneSpec

\* The stored peak and maximum drawdown never fall, through rounding, failed
\* snapshots and restarts (the marks travel through the previous snapshot only).
THEOREM HighWaterMarksNeverFall == AloneSpec => HighWaterMarks
<1>1. AccountInv /\ [AloneNext]_aloneVars => [snapshot # None =>
          /\ snapshot' # None
          /\ snapshot'.peak >= snapshot.peak
          /\ snapshot'.maxDrawdown >= snapshot.maxDrawdown]_snapshot
  BY ManagerSpecStep DEF AtLeast
<1> QED
  BY ManagerInitAccount, ManagerSpecStep, <1>1, PTL DEF AloneSpec, HighWaterMarks

-----------------------------------------------------------------------------
(* The breaker and the orders under way. *)

IsSeq(s) == Len(s) \in Nat /\ s = [i \in 1 .. Len(s) |-> s[i]]

\* Which orders may still be under way once the breaker is active.
BreakerInv ==
    /\ IsSeq(book)
    /\ past \in Nat
    /\ ~Tripped => past = 0
    /\ Tripped =>
          \/ past = 0
          \/ /\ past = 1
             /\ loop \in {"wait", "portfolio", "positions", "save"}
             /\ loop = "positions" => DrawnDown(portfolio)

\* Appending an order makes the book one longer.
LEMMA AppendToSeq ==
    ASSUME NEW s, NEW e, IsSeq(s)
    PROVE  IsSeq(Append(s, e)) /\ Len(Append(s, e)) = Len(s) + 1
<1> DEFINE S == {s[i] : i \in 1 .. Len(s)} \cup {e}
<1>1. s \in Seq(S) /\ e \in S
  <2>1. s \in [1 .. Len(s) -> S] /\ Len(s) \in Nat
    BY DEF IsSeq
  <2> HIDE DEF S
  <2>2. s \in Seq(S)
    BY <2>1, SeqDef
  <2>3. e \in S
    BY DEF S
  <2> QED
    BY <2>2, <2>3
<1> HIDE DEF S
<1>2. Append(s, e) \in Seq(S) /\ Len(Append(s, e)) = Len(s) + 1
  BY <1>1, AppendProperties
<1>3. Append(s, e) \in [1 .. Len(Append(s, e)) -> S] /\ Len(Append(s, e)) \in Nat
  BY <1>2, LenProperties
<1> QED
  BY <1>2, <1>3 DEF IsSeq

\* A gate that reads a snapshot with an active breaker refuses every order.
LEMMA GateRefuses ==
    ASSUME NEW d, NEW n, DrawnDown(portfolio), d.action \in {"BUY", "SELL"}
    PROVE  Check(d, portfolio, n) # None
BY GateAssumption DEF Check, Rejection

LEMMA InitBreakerInv == Init => BreakerInv
<1> SUFFICES ASSUME Init PROVE BreakerInv
  OBVIOUS
<1>1. book = << >> /\ past = 0 /\ Len(book) = 0
  BY EmptySeq DEF Init, LoopInit
<1>2. IsSeq(book)
  BY <1>1 DEF IsSeq
<1> QED
  BY <1>1, <1>2 DEF BreakerInv

\* The manager's steps and the table's leave the loop and its orders alone.
LEMMA TableStepKeeps ==
    ASSUME BreakerInv, TableStep \/ UNCHANGED vars
    PROVE  BreakerInv'
BY DEF TableStep, vars, loopVars, loopLocal, ledger, BreakerInv, IsSeq, Tripped, DrawnDown

LEMMA ManagerStepKeeps ==
    ASSUME BreakerInv, ManagerStep
    PROVE  BreakerInv'
<1>1. /\ UNCHANGED <<loop, portfolio, book>>
      /\ past' = IF Tripped' THEN past + Len(book') - Len(book) ELSE 0
  BY DEF ManagerStep, Sampling, loopVars, loopLocal, ledger, CountPastBreaker
<1>2. IsSeq(book') /\ past \in Nat /\ past' = IF Tripped' THEN past ELSE 0
  BY <1>1 DEF BreakerInv, IsSeq
<1>3. Tripped \/ past = 0
  BY DEF BreakerInv
<1>4. DrawnDown(portfolio)' = DrawnDown(portfolio)
  BY <1>1 DEF DrawnDown
<1>5. CASE Tripped /\ Tripped'
  BY <1>1, <1>2, <1>4, <1>5 DEF BreakerInv
<1>6. CASE past' = 0
  BY <1>2, <1>6 DEF BreakerInv
<1> QED
  BY <1>2, <1>3, <1>5, <1>6

LEMMA CrashKeepsBreakerInv ==
    ASSUME BreakerInv, Crash
    PROVE  BreakerInv'
<1>1. /\ loop' = "wait" /\ UNCHANGED <<snapshot, book, past>>
  BY DEF Crash, Await, ledger
<1> QED
  BY <1>1 DEF BreakerInv, IsSeq, Tripped

\* What a step of the loop does to the book: a step that places an order goes
\* from "place" to another place, and "place" is only entered through the gate.
LEMMA TradeStepKeeps ==
    ASSUME BreakerInv, TradeStep
    PROVE  BreakerInv'
<1>0. past' = IF Tripped' THEN past + Len(book') - Len(book) ELSE 0
  BY DEF TradeStep, CountPastBreaker
<1>1. UNCHANGED snapshot /\ Tripped' = Tripped
  BY DEF TradeStep, LoopStep, Decide, ReadPortfolio, ReadPositions, PlaceDecisionOrder,
     PlaceDecisionOrderFails, SaveDecisionOrder, LoopFails, shared, Tripped
<1>2. CASE UNCHANGED book
  <2>1. IsSeq(book') /\ past \in Nat /\ past' = past
    BY <1>0, <1>1, <1>2 DEF BreakerInv, IsSeq
  <2>2. CASE ~Tripped \/ past = 0
    BY <1>1, <2>1, <2>2 DEF BreakerInv
  <2>3. CASE Tripped /\ past = 1
    <3>1. loop # "place"
      BY <2>3 DEF BreakerInv
    <3>2. CASE ReadPortfolio
      <4>1. loop' = "positions" /\ portfolio' = snapshot /\ snapshot' = snapshot
        BY <3>2, <1>1 DEF ReadPortfolio
      <4>2. DrawnDown(portfolio)'
        BY <4>1, <2>3 DEF DrawnDown, Tripped
      <4> QED
        BY <4>1, <4>2, <2>1, <2>3, <1>1 DEF BreakerInv
    <3>3. CASE ReadPositions
      <4>1. DrawnDown(portfolio)
        BY <3>3, <2>3 DEF BreakerInv, ReadPositions
      <4>2. loop' = "wait"
        BY <3>3, <4>1, GateRefuses DEF ReadPositions, Actionable, Await
      <4> QED
        BY <4>2, <2>1, <2>3, <1>1 DEF BreakerInv
    <3>4. CASE loop' \in {"wait", "portfolio", "save"}
      BY <3>4, <2>1, <2>3, <1>1 DEF BreakerInv
    <3> QED
      BY <3>1, <3>2, <3>3, <3>4 DEF TradeStep, LoopStep, Decide, PlaceDecisionOrder,
         PlaceDecisionOrderFails, SaveDecisionOrder, LoopFails, Await
  <2> QED
    BY <2>2, <2>3 DEF BreakerInv
<1>3. CASE PlaceDecisionOrder \/ PlaceDecisionOrderFails
  <2>1. loop = "place" /\ loop' \in {"wait", "save"} /\ book' \in {book, Append(book, order)}
    BY <1>3 DEF PlaceDecisionOrder, PlaceDecisionOrderFails, Await
  <2>2. IsSeq(book) /\ past = 0
    BY <2>1 DEF BreakerInv
  <2>3. IsSeq(book') /\ Len(book) \in Nat /\ Len(book') \in {Len(book), Len(book) + 1}
    BY <2>1, <2>2, AppendToSeq DEF IsSeq
  <2>4. past' \in {0, 1} /\ (~Tripped' => past' = 0)
    BY <1>0, <2>2, <2>3
  <2> QED
    BY <2>1, <2>3, <2>4 DEF BreakerInv
<1> QED
  BY <1>2, <1>3 DEF TradeStep, LoopStep, Decide, ReadPortfolio, ReadPositions,
     SaveDecisionOrder, LoopFails, ledger

\* At most one order reaches the exchange after a snapshot with an active
\* breaker is stored: the decision that had read the one before (the two reads
\* and the gate of indicator_and_decision_loop, RiskGate.check gate 3).
THEOREM AtMostOneOrderPastBreaker == Spec => []OneOrderPastBreaker
<1>1. BreakerInv /\ [Next]_vars => BreakerInv'
  BY TableStepKeeps, ManagerStepKeeps, CrashKeepsBreakerInv, TradeStepKeeps DEF Next
<1>2. BreakerInv => OneOrderPastBreaker
  BY DEF BreakerInv, OneOrderPastBreaker
<1> QED
  BY InitBreakerInv, <1>1, <1>2, PTL DEF Spec

-----------------------------------------------------------------------------
(* The sizes of orders. *)

\* What the size of an order is measured against.
Cap == IF snapshot = None THEN DefaultBalance ELSE snapshot.peak
Sized(o) == o.value > 0 /\ o.value <= SizePercent * Cap

\* What the loop holds: a copy of a snapshot that was stored, and an order that
\* the gate let through and that is sized by a balance that was there.
LoopInv ==
    /\ loop \in {"wait", "portfolio", "positions", "place", "save"}
    /\ loop # "wait" => decision \in DecisionType
    /\ decision \in DecisionType \cup {None}
    /\ portfolio # None =>
          Sound(portfolio) /\ snapshot # None /\ portfolio.peak <= snapshot.peak
    /\ order \in OrderType \cup {None}
    /\ loop = "place" => order \in OrderType /\ Sized(order)
    /\ decisions \in 0 .. MaxDecisions /\ saved \in Nat
    /\ book \in Seq(OrderType)
    /\ \A i \in DOMAIN book : Sized(book[i])

CoreInv == AccountInv /\ BreakerInv /\ LoopInv /\ attempts \in [Position -> Nat]

\* The bound is a natural number.
LEMMA CapIsNat == AccountInv => Cap \in Nat /\ SizePercent \in 1 .. 100
BY LoopAssumption, CoreAssumption, MoneyAssumption DEF AccountInv, Sound, SnapshotType, Cap

\* The highest balance stored never falls, so an order that was small enough stays so.
LEMMA SizedStays ==
    ASSUME AccountInv, AccountInv',
           snapshot # None => snapshot' # None /\ AtLeast(snapshot', snapshot),
           NEW o, o.value \in Int, Sized(o)
    PROVE  o.value > 0 /\ o.value <= SizePercent * Cap'
<1>1. Cap \in Nat /\ Cap' \in Nat /\ SizePercent \in Nat
  <2>1. Cap' \in Nat
    BY LoopAssumption, CoreAssumption, MoneyAssumption DEF AccountInv, Sound, SnapshotType, Cap
  <2> QED
    BY <2>1, CapIsNat
<1>2. Cap <= Cap'
  <2>1. CASE snapshot # None
    BY <2>1 DEF Cap, AtLeast, AccountInv, Sound, SnapshotType
  <2>2. CASE snapshot = None /\ snapshot' # None
    <3>1. InitialBalance <= snapshot'.peak /\ snapshot'.peak \in Int
      BY <2>2 DEF AccountInv, Sound, SnapshotType
    <3> QED
      BY <2>2, <3>1, CoreAssumption, MoneyAssumption, LoopAssumption DEF Cap
  <2>3. CASE snapshot = None /\ snapshot' = None
    BY <2>3, LoopAssumption DEF Cap
  <2> QED
    BY <2>1, <2>2, <2>3
<1>3. \A v \in Int, a, b, c \in Nat : a <= b /\ v <= c * a => v <= c * b
  <2> SUFFICES ASSUME NEW v \in Int, NEW a \in Nat, NEW b \in Nat, NEW c \in Nat, a <= b, v <= c * a
               PROVE  v <= c * b
    OBVIOUS
  <2>1. c * a <= c * b /\ c * a \in Int /\ c * b \in Int
    BY TimesMonotone
  <2> QED
    BY <2>1
<1>4. o.value <= SizePercent * Cap'
  BY <1>1, <1>2, <1>3, Zenon DEF Sized
<1> QED
  BY <1>4 DEF Sized

\* A step that leaves the loop alone, whatever it stores.
LEMMA OthersKeepLoop ==
    ASSUME AccountInv, AccountInv', LoopInv,
           snapshot # None => snapshot' # None /\ AtLeast(snapshot', snapshot),
           UNCHANGED loopVars
    PROVE  LoopInv'
<1>1. UNCHANGED <<loop, decision, portfolio, order, decisions, book, saved>>
  BY DEF loopVars, loopLocal, ledger
<1>2. ASSUME NEW o, o \in OrderType, Sized(o) PROVE o.value > 0 /\ o.value <= SizePercent * Cap'
  BY <1>2, SizedStays DEF OrderType
<1>3. \A i \in DOMAIN book : book[i] \in OrderType /\ Sized(book[i])
  BY DEF LoopInv
<1>4. \A i \in DOMAIN book' : Sized(book[i])'
  BY <1>1, <1>2, <1>3 DEF Sized
<1>5. loop = "place" => order \in OrderType /\ Sized(order)'
  BY <1>1, <1>2 DEF LoopInv, Sized
<1>6. portfolio # None => Sound(portfolio) /\ snapshot' # None /\ portfolio.peak <= snapshot'.peak
  <2> HAVE portfolio # None
  <2>1. Sound(portfolio) /\ snapshot # None /\ portfolio.peak <= snapshot.peak
    BY DEF LoopInv
  <2>2. snapshot'.peak >= snapshot.peak /\ snapshot' # None
    BY <2>1 DEF AtLeast
  <2>3. portfolio.peak \in Int /\ snapshot.peak \in Int /\ snapshot'.peak \in Int
    BY <2>1, <2>2 DEF AccountInv, Sound, SnapshotType
  <2> QED
    BY <2>1, <2>2, <2>3
<1> QED
  BY <1>1, <1>4, <1>5, <1>6 DEF LoopInv

\* The loop goes back to its queue, by itself or in a crash, with at most the
\* order in hand added to the book.
LEMMA AwaitKeepsLoop ==
    ASSUME LoopInv, Await, UNCHANGED <<snapshot, decisions>>,
           \/ book' = book
           \/ book' = Append(book, order) /\ loop = "place",
           saved' \in {saved, saved + 1}
    PROVE  LoopInv'
<1>1. saved' \in Nat
  BY DEF LoopInv
<1>2. book' \in Seq(OrderType) /\ \A i \in DOMAIN book' : Sized(book'[i])
  <2>1. CASE book' = book
    BY <2>1 DEF LoopInv
  <2>2. CASE book' = Append(book, order) /\ loop = "place"
    BY <2>2, AppendProperties DEF LoopInv
  <2> QED
    BY <2>1, <2>2
<1>3. Cap' = Cap
  BY DEF Cap
<1>4. \A i \in DOMAIN book' : Sized(book[i])'
  BY <1>2, <1>3 DEF Sized
<1> QED
  BY <1>1, <1>2, <1>4 DEF LoopInv, Await

\* The gate lets a decision through only while something is left to stake.
LEMMA GateLeavesBalance ==
    ASSUME AccountInv, LoopInv, loop = "positions", NEW n,
           Check(decision, portfolio, n) = None, Actionable
    PROVE  Intent \in OrderType /\ Sized(Intent)
<1> DEFINE balance == IF portfolio = None THEN DefaultBalance ELSE portfolio.balance
<1>1. ~ DrawnDown(portfolio)
  BY GateRefuses DEF Actionable
<1>2. balance \in Int /\ balance > 0 /\ balance <= Cap
  <2>1. CASE portfolio = None
    <3>1. InitialBalance <= Cap \/ Cap = DefaultBalance
      BY DEF Cap, AccountInv, Sound
    <3> QED
      BY <2>1, <3>1, CapIsNat, CoreAssumption, MoneyAssumption, LoopAssumption
  <2>2. CASE portfolio # None
    <3>1. Sound(portfolio) /\ snapshot # None /\ portfolio.peak <= snapshot.peak
      BY <2>2 DEF LoopInv
    <3>2. ~ portfolio.breaker
      BY <1>1, <2>2 DEF DrawnDown
    <3>3. portfolio.balance \in Int /\ portfolio.peak \in Int /\ Cap \in Int
      BY <3>1, CapIsNat DEF Sound, SnapshotType
    <3>4. portfolio.balance >= Cent /\ portfolio.balance <= portfolio.peak
      BY <3>1, <3>2 DEF Sound
    <3> QED
      BY <2>2, <3>1, <3>3, <3>4, CoreAssumption, MoneyAssumption DEF Cap
  <2> QED
    BY <2>1, <2>2
<1>3. Intent = [symbol |-> decision.symbol, side |-> decision.action, value |-> balance * SizePercent]
  BY LoopAssumption DEF Intent
<1> HIDE DEF balance
<1>4. Cap \in Nat /\ SizePercent \in Nat \ {0}
  BY CapIsNat
<1>5. balance * SizePercent \in Int /\ balance * SizePercent > 0 /\ balance * SizePercent <= SizePercent * Cap
  <2>1. SizePercent * balance <= SizePercent * Cap
    BY <1>2, <1>4, TimesMonotone
  <2>2. SizePercent * 1 <= SizePercent * balance
    BY <1>2, <1>4, TimesMonotone
  <2> QED
    BY <1>2, <1>4, <2>1, <2>2
<1>6. decision.symbol \in Symbol /\ decision.action \in {"BUY", "SELL"}
  BY DEF LoopInv, DecisionType, Actionable
<1> QED
  BY <1>3, <1>5, <1>6 DEF OrderType, Sized

\* The loop's own steps: an order is made only behind the gate.
LEMMA LoopKeepsLoop ==
    ASSUME AccountInv, LoopInv, LoopStep
    PROVE  LoopInv'
<1>0. UNCHANGED snapshot /\ Cap' = Cap
  BY DEF LoopStep, Decide, ReadPortfolio, ReadPositions, PlaceDecisionOrder,
     PlaceDecisionOrderFails, SaveDecisionOrder, LoopFails, shared, Cap
<1>1. ASSUME NEW s \in Symbol, NEW a \in Action, NEW c \in Confidence, Decide(s, a, c)
      PROVE  LoopInv'
  <2>1. decision' \in DecisionType
    BY <1>1 DEF Decide, DecisionType
  <2>2. decisions' \in 0 .. MaxDecisions
    BY <1>1, LoopAssumption DEF Decide, LoopInv
  <2> QED
    BY <1>0, <1>1, <2>1, <2>2 DEF Decide, LoopInv, Sized, ledger
<1>2. CASE ReadPortfolio
  <2>1. portfolio' # None => Sound(portfolio') /\ portfolio'.peak <= snapshot.peak /\ snapshot # None
    BY <1>2 DEF ReadPortfolio, AccountInv, Sound, SnapshotType
  <2> QED
    BY <1>0, <1>2, <2>1 DEF ReadPortfolio, LoopInv, Sized, ledger
<1>3. CASE ReadPositions
  <2>1. CASE Await
    BY <1>0, <1>3, <2>1, AwaitKeepsLoop DEF ReadPositions, ledger
  <2>2. CASE ~Await
    <3>1. /\ order' = Intent /\ loop' = "place" /\ UNCHANGED <<decision, portfolio, decisions, ledger>>
          /\ Check(decision, portfolio, Cardinality(OpenOf(decision.symbol))) = None
          /\ Actionable /\ loop = "positions"
      BY <1>3, <2>2 DEF ReadPositions
    <3>2. Intent \in OrderType /\ Sized(Intent)
      BY <3>1, GateLeavesBalance
    <3>3. order' \in OrderType /\ order'.value > 0 /\ order'.value <= SizePercent * Cap
      BY <3>1, <3>2 DEF Sized
    <3> QED
      BY <1>0, <3>1, <3>3 DEF LoopInv, Sized, ledger
  <2> QED
    BY <2>1, <2>2
<1>4. CASE PlaceDecisionOrder
  <2>1. /\ loop = "place" /\ book' = Append(book, order) /\ loop' = "save"
        /\ UNCHANGED <<decision, portfolio, order, decisions, saved>>
    BY <1>4 DEF PlaceDecisionOrder
  <2>2. book' \in Seq(OrderType) /\ \A i \in DOMAIN book' : Sized(book'[i])
    BY <2>1, AppendProperties DEF LoopInv
  <2>3. \A i \in DOMAIN book' : Sized(book[i])'
    BY <1>0, <2>2 DEF Sized
  <2> QED
    BY <1>0, <2>1, <2>2, <2>3 DEF LoopInv
<1>5. CASE PlaceDecisionOrderFails
  BY <1>0, <1>5, AwaitKeepsLoop DEF PlaceDecisionOrderFails
<1>6. CASE SaveDecisionOrder
  BY <1>0, <1>6, AwaitKeepsLoop DEF SaveDecisionOrder
<1>7. CASE LoopFails
  BY <1>0, <1>7, AwaitKeepsLoop DEF LoopFails, ledger
<1> QED
  BY <1>1, <1>2, <1>3, <1>4, <1>5, <1>6, <1>7 DEF LoopStep

\* The invariant holds at first, and every step of every task keeps it.
LEMMA InitCore == Init => CoreInv
<1> SUFFICES ASSUME Init PROVE CoreInv
  OBVIOUS
<1>1. AccountInv
  BY InitAccount DEF Init, Table!Init
<1>2. BreakerInv
  BY InitBreakerInv
<1>3. LoopInv
  BY EmptySeq, LoopAssumption DEF Init, LoopInit, LoopInv
<1> QED
  BY <1>1, <1>2, <1>3 DEF CoreInv, Init, Table!Init

\* What a step does to the account, and that the marks do not fall.
LEMMA StepKeepsAccount ==
    ASSUME CoreInv, [Next]_vars
    PROVE  /\ AccountInv'
           /\ snapshot # None => snapshot' # None /\ AtLeast(snapshot', snapshot)
<1>0. AccountInv /\ (snapshot # None => AtLeast(snapshot, snapshot))
  BY DEF CoreInv, AccountInv, AtLeast, Sound, SnapshotType
<1>1. CASE TableStep
  <2>1. RowsMove
    <3>1. ASSUME NEW p \in Position, Table!Open(p) PROVE RowsMove
      BY <1>0, <3>1, OpenMovesRows DEF AccountInv, Table!Open
    <3>2. ASSUME NEW p \in Position, Table!Attempt(p) PROVE RowsMove
      BY <1>0, <3>2, OpenMovesRows DEF AccountInv, Table!Attempt
    <3>3. ASSUME NEW p \in Position, NEW x \in Amount, Table!Close(p, x) PROVE RowsMove
      BY <1>0, <3>3, CloseMovesRows DEF AccountInv, Table!Close
    <3> QED
      BY <1>1, <3>1, <3>2, <3>3 DEF TableStep, Table!Next
  <2> QED
    BY <1>0, <1>1, <2>1, RowsMoveKeepsAccount DEF TableStep, mgrVars
<1>2. CASE ManagerStep
  BY <1>0, <1>2, ManagerKeepsAccount DEF ManagerStep, Sampling
<1>3. CASE TradeStep \/ UNCHANGED vars
  <2>1. UNCHANGED <<status, pnl, snapshot, mgr, fetched, metrics>>
    BY <1>3 DEF TradeStep, LoopStep, Decide, ReadPortfolio, ReadPositions, PlaceDecisionOrder,
       PlaceDecisionOrderFails, SaveDecisionOrder, LoopFails, shared, vars, tableVars, mgrVars
  <2>2. RowsMove
    BY <1>0, <2>1, OpenMovesRows DEF AccountInv
  <2> QED
    BY <1>0, <2>1, <2>2, RowsMoveKeepsAccount
<1>4. CASE Crash
  BY <1>0, <1>4, ResetKeepsAccount DEF Crash, tableVars
<1> QED
  BY <1>1, <1>2, <1>3, <1>4 DEF Next

\* What a step does to the loop, which relies on the account.
LEMMA StepKeepsLoop ==
    ASSUME CoreInv, [Next]_vars
    PROVE  LoopInv'
<1>0. /\ AccountInv /\ AccountInv' /\ LoopInv
      /\ snapshot # None => snapshot' # None /\ AtLeast(snapshot', snapshot)
  BY StepKeepsAccount DEF CoreInv
<1>1. CASE TableStep \/ ManagerStep \/ UNCHANGED vars
  <2>1. UNCHANGED loopVars
    BY <1>1 DEF TableStep, ManagerStep, Sampling, vars
  <2> QED
    BY <1>0, <2>1, OthersKeepLoop
<1>2. CASE TradeStep
  BY <1>0, <1>2, LoopKeepsLoop DEF TradeStep
<1>3. CASE Crash
  BY <1>0, <1>3, AwaitKeepsLoop DEF Crash, ledger
<1> QED
  BY <1>1, <1>2, <1>3 DEF Next

LEMMA StepKeepsCore == CoreInv /\ [Next]_vars => CoreInv'
<1> SUFFICES ASSUME CoreInv, [Next]_vars PROVE CoreInv'
  OBVIOUS
<1>1. AccountInv' /\ LoopInv'
  BY StepKeepsAccount, StepKeepsLoop
<1>2. BreakerInv'
  BY TableStepKeeps, ManagerStepKeeps, CrashKeepsBreakerInv, TradeStepKeeps DEF CoreInv, Next
<1>3. attempts' \in [Position -> Nat]
  <2>1. CASE UNCHANGED attempts
    BY <2>1 DEF CoreInv
  <2>2. CASE TableStep
    BY <2>2 DEF CoreInv, TableStep, Table!Next, Table!Open, Table!Attempt, Table!Close
  <2> QED
    BY <2>1, <2>2 DEF Next, ManagerStep, Sampling, TradeStep, Crash, vars, tableVars
<1> QED
  BY <1>1, <1>2, <1>3 DEF CoreInv

\* The variables of the tasks of main.py that trade keep their types.
THEOREM CoreTypeCorrect == Spec => []TypeOK
<1>1. CoreInv => TypeOK
  BY DEF CoreInv, AccountInv, RowsInv, BreakerInv, LoopInv, TypeOK, MgrTypeOK, Sound, ClosedRows
<1> QED
  BY InitCore, StepKeepsCore, <1>1, PTL DEF Spec

\* No order is empty, negative or larger than the size limit allows for the
\* highest balance ever stored (the sizing in indicator_and_decision_loop, with
\* gate 3 of RiskGate.check and the peak of snapshot()).
THEOREM OrdersStaySized == Spec => []OrdersAreSized
<1>1. CoreInv => OrdersAreSized
  BY DEF CoreInv, LoopInv, Sized, Cap, OrdersAreSized
<1> QED
  BY InitCore, StepKeepsCore, <1>1, PTL DEF Spec

\* The account stays sound among the other tasks of main.py: with the decision
\* loop reading the snapshot and crashes that take the manager's state.
THEOREM AccountHoldsInCore ==
    Spec => /\ [](BreakerAgreesWithDrawdown /\ SnapshotIsConsistent)
            /\ HighWaterMarks
<1>1. CoreInv => BreakerAgreesWithDrawdown /\ SnapshotIsConsistent
  BY AccountImplies DEF CoreInv
<1>2. CoreInv /\ [Next]_vars => [snapshot # None =>
          /\ snapshot' # None
          /\ snapshot'.peak >= snapshot.peak
          /\ snapshot'.maxDrawdown >= snapshot.maxDrawdown]_snapshot
  BY StepKeepsAccount DEF AtLeast
<1> QED
  BY InitCore, StepKeepsCore, <1>1, <1>2, PTL DEF Spec, HighWaterMarks
=============================================================================
