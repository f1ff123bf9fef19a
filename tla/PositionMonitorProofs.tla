----------------------- MODULE PositionMonitorProofs -----------------------
(***************************************************************************)
(* Proofs about PositionMonitor, for any rows, symbols, prices, contracts  *)
(* and number of faults.  One inductive invariant, IInv, carries them all: *)
(*   - TypeOK;                                                             *)
(*   - HandInv, what the monitor holds at each place it is suspended;      *)
(*   - BatchInv, the local copies still to visit are copies of open rows;  *)
(*   - AttemptInv, how many closing orders a row may have cost so far;     *)
(*   - CloseJustified.                                                     *)
(***************************************************************************)
EXTENDS PositionMonitor, TLAPS

InHand == {"place", "save", "close"}

\* From the read of the price to the end of the visit the monitor holds a row
\* of the batch; from the decision to close on, the reason is the one the exit
\* rules give for that row at that price.
HandInv ==
    /\ pc \in {"sleep", "scan"} => cur = None
    /\ pc \in InHand \cup {"update"} => cur \in DOMAIN batch /\ px \in Price
    /\ pc \in InHand => why \in Reason /\ why = ExitReason(batch[cur], px)

\* Every row of the batch is still open and its copy is up to date, but for
\* the new stop that is about to be saved.
BatchInv ==
    \A p \in DOMAIN batch :
        /\ row[p].status = "open"
        /\ batch[p].status = "open"
        /\ batch[p].terms = row[p].terms
        /\ pc # "update" \/ p # cur => batch[p] = row[p]

\* A row has terms from the moment it is opened.
TermsInv == \A p \in Position : row[p].status # "absent" => row[p].terms \in Terms

\* Each closing order but the first was preceded by a fault.
Extra(p) == IF row[p].status = "closed" \/ (p = cur /\ pc \in InHand) THEN 1 ELSE 0
AttemptInv == \A p \in Position : attempts[p] <= faults + Extra(p)

IInv == TypeOK /\ HandInv /\ BatchInv /\ TermsInv /\ AttemptInv /\ CloseJustified

-----------------------------------------------------------------------------
(* Facts about the operators.                                              *)

\* An exit is decided for one of the three reasons the code names.
LEMMA ExitReasonType ==
    ASSUME NEW pos, NEW x
    PROVE  ExitReason(pos, x) \in Reason \cup {None}
BY DEF ExitReason, Reason

\* The exit rules look at the terms and the stop of a row only.
LEMMA ExitReasonOfCopy ==
    ASSUME NEW a, NEW b, NEW x, a.terms = b.terms, a.trail = b.trail
    PROVE  ExitReason(a, x) = ExitReason(b, x)
BY DEF ExitReason, HitsTakeProfit, HitsStopLoss, HitsTrailing

\* The realized PnL depends on the terms of the row only.
LEMMA PnLOfCopy ==
    ASSUME NEW a, NEW b, NEW x, a.terms = b.terms
    PROVE  PnL(a, x) = PnL(b, x)
BY DEF PnL

\* A realized PnL is a number.
LEMMA PnLType ==
    ASSUME NEW pos \in Row, pos.terms \in Terms, NEW x \in Price
    PROVE  PnL(pos, x) \in Int
<1>1. x \in Int
  BY PriceAssumption
<1>2. pos.terms.entry \in Int /\ pos.terms.qty \in Int
  BY TermsAssumption DEF TermsType
<1> QED
  BY <1>1, <1>2 DEF PnL

\* A ratcheted stop is a number.
LEMMA CandidateType ==
    ASSUME NEW pos \in Row, pos.terms \in Terms, NEW x \in Price, Ratchets(pos, x)
    PROVE  Candidate(pos, x) \in Int
<1>1. x \in Int
  BY PriceAssumption
<1>2. pos.terms.dist \in Int
  BY TermsAssumption DEF TermsType, Ratchets
<1> QED
  BY <1>1, <1>2 DEF Candidate

\* The best price seen is a price.
LEMMA BestType ==
    ASSUME NEW side, NEW a \in Price \cup {None}, NEW b \in Price
    PROVE  Best(side, a, b) \in Price \cup {None}
BY DEF Best

-----------------------------------------------------------------------------
(* The inductive invariant.                                                *)

LEMMA InitIInv == Init => IInv
<1> SUFFICES ASSUME Init PROVE IInv
  OBVIOUS
<1> USE DEF Init
<1>0. AbsentRow \in Row
  BY DEF AbsentRow, Row
<1>1. TypeOK
  BY <1>0, FaultsAssumption DEF TypeOK
<1>2. HandInv
  BY DEF HandInv, InHand
<1>3. BatchInv
  BY DEF BatchInv
<1>4. TermsInv
  BY DEF TermsInv, AbsentRow
<1>5. AttemptInv
  <2> SUFFICES ASSUME NEW p \in Position
               PROVE  attempts[p] <= faults + Extra(p)
    BY DEF AttemptInv
  <2> QED
    BY DEF Extra
<1>6. CloseJustified
  BY DEF CloseJustified, AbsentRow
<1> QED
  BY <1>1, <1>2, <1>3, <1>4, <1>5, <1>6 DEF IInv

\* A step that leaves the table, the task and the orders alone keeps
\* everything but the typing of what it changes.
LEMMA FrameKeeps ==
    ASSUME IInv, UNCHANGED <<row, seen, local, orders>>, faults' \in {faults, faults + 1},
           faults' \in 0 .. MaxFaults, quote' \in [Symbol -> Price \cup {None}],
           running' \in BOOLEAN
    PROVE  IInv'
<1> USE DEF IInv, local, orders
<1>1. TypeOK'
  BY DEF TypeOK
<1>2. HandInv'
  BY DEF HandInv
<1>3. BatchInv'
  BY DEF BatchInv
<1>4. TermsInv'
  BY DEF TermsInv
<1>5. AttemptInv'
  <2>1. \A p \in Position : Extra(p)' = Extra(p) /\ Extra(p) \in {0, 1}
    BY DEF Extra
  <2>2. attempts \in [Position -> Nat] /\ faults \in Int
    BY DEF TypeOK
  <2> QED
    BY <2>1, <2>2 DEF AttemptInv
<1>6. CloseJustified'
  BY DEF CloseJustified
<1> QED
  BY <1>1, <1>2, <1>3, <1>4, <1>5, <1>6

LEMMA QuietStepKeeps ==
    ASSUME IInv,
           \/ \E s \in Symbol : ExpireTicker(s) \/ \E x \in Price : CacheTicker(s, x)
           \/ Stop \/ Start
    PROVE  IInv'
<1>1. /\ UNCHANGED <<row, seen, local, orders, faults>>
      /\ quote' \in [Symbol -> Price \cup {None}]
      /\ running' \in BOOLEAN
  <2>1. CASE \E s \in Symbol : ExpireTicker(s) \/ \E x \in Price : CacheTicker(s, x)
    BY <2>1 DEF ExpireTicker, CacheTicker, table, IInv, TypeOK
  <2>2. CASE Stop \/ Start
    BY <2>2 DEF Stop, Start, table, IInv, TypeOK
  <2> QED
    BY <2>1, <2>2
<1>2. faults' \in 0 .. MaxFaults /\ faults' = faults
  BY <1>1 DEF IInv, TypeOK
<1> QED
  BY <1>1, <1>2, FrameKeeps

LEMMA OpenPositionKeeps ==
    ASSUME IInv, NEW p \in Position, NEW t \in Terms, OpenPosition(p, t)
    PROVE  IInv'
<1> DEFINE new == [AbsentRow EXCEPT !.status = "open", !.terms = t, !.trail = t.trail]
<1> USE DEF IInv
<1>0. /\ row' = [row EXCEPT ![p] = new] /\ row \in [Position -> Row]
      /\ row[p].status = "absent"
      /\ UNCHANGED <<seen, quote, running, pc, batch, cur, px, why, orders, faults>>
  BY DEF OpenPosition, local, TypeOK
<1>a. new \in Row /\ new.status = "open" /\ new.terms = t
  <2>1. t.trail \in Int \cup {None}
    BY TermsAssumption DEF TermsType
  <2> QED
    BY <2>1 DEF AbsentRow, Row
<1>b. row'[p] = new /\ \A q \in Position \ {p} : row'[q] = row[q]
  BY <1>0
<1>c. row' \in [Position -> Row]
  BY <1>0, <1>a
<1> HIDE DEF new
<1>1. TypeOK'
  BY <1>0, <1>c DEF TypeOK, orders
<1>2. HandInv'
  BY <1>0 DEF HandInv
<1>3. BatchInv'
  <2>1. p \notin DOMAIN batch /\ DOMAIN batch \subseteq Position
    BY <1>0 DEF BatchInv, TypeOK
  <2> QED
    BY <1>0, <1>b, <2>1 DEF BatchInv
<1>4. TermsInv'
  BY <1>a, <1>b DEF TermsInv
<1>5. AttemptInv'
  <2>1. \A q \in Position : Extra(q)' = Extra(q)
    BY <1>0, <1>a, <1>b DEF Extra
  <2> QED
    BY <1>0, <2>1 DEF AttemptInv, orders
<1>6. CloseJustified'
  BY <1>a, <1>b DEF CloseJustified
<1> QED
  BY <1>1, <1>2, <1>3, <1>4, <1>5, <1>6

LEMMA FetchOpenKeeps ==
    ASSUME IInv, FetchOpen
    PROVE  IInv'
<1> USE DEF IInv
<1>0. /\ pc = "sleep" /\ pc' = "scan" /\ batch' = [p \in OpenRows |-> row[p]]
      /\ UNCHANGED <<row, seen, quote, running, cur, px, why, orders, faults>>
  BY DEF FetchOpen, table
<1>1. TypeOK'
  BY <1>0 DEF TypeOK, orders, OpenRows
<1>2. HandInv'
  BY <1>0 DEF HandInv, InHand
<1>3. BatchInv'
  BY <1>0 DEF BatchInv, OpenRows
<1>4. TermsInv'
  BY <1>0 DEF TermsInv
<1>5. AttemptInv'
  <2>1. \A p \in Position : Extra(p)' = Extra(p)
    BY <1>0 DEF Extra, InHand
  <2> QED
    BY <1>0, <2>1 DEF AttemptInv, orders
<1>6. CloseJustified'
  BY <1>0 DEF CloseJustified
<1> QED
  BY <1>1, <1>2, <1>3, <1>4, <1>5, <1>6

\* The end of a visit: nothing is in hand and the batch has lost the row.
LEMMA FinishFacts ==
    ASSUME TypeOK, NEW p \in Position, Finish(p)
    PROVE  /\ HandInv' /\ cur' = None /\ px' = None /\ why' = None
           /\ pc' \in {"sleep", "scan"}
           /\ DOMAIN batch' = DOMAIN batch \ {p}
           /\ \A q \in DOMAIN batch' : batch'[q] = batch[q]
           /\ batch' \in [DOMAIN batch' -> Row] /\ DOMAIN batch' \subseteq Position
<1>1. /\ cur' = None /\ px' = None /\ why' = None /\ pc' \in {"sleep", "scan"}
      /\ batch' = [q \in DOMAIN batch \ {p} |-> batch[q]]
  BY DEF Finish
<1>2. HandInv'
  BY <1>1 DEF HandInv, InHand
<1> QED
  BY <1>1, <1>2 DEF TypeOK

\* Writing the local copy back, or not, changes the stop of an open row only.
LEMMA WriteBackFacts ==
    ASSUME IInv, NEW p \in DOMAIN batch,
           row' = [row EXCEPT ![p] = batch[p]] \/ UNCHANGED row
    PROVE  /\ row' \in [Position -> Row] /\ TermsInv' /\ CloseJustified'
           /\ \A q \in Position : row'[q].status = row[q].status
           /\ \A q \in DOMAIN batch : row'[q].status = "open" /\ row'[q].terms = row[q].terms
           /\ \A q \in Position \ {p} : row'[q] = row[q]
<1> USE DEF IInv
<1>1. /\ p \in Position /\ batch[p] \in Row /\ batch[p].status = "open"
      /\ row[p].status = "open" /\ batch[p].terms = row[p].terms
      /\ row \in [Position -> Row] /\ DOMAIN batch \subseteq Position
  BY DEF TypeOK, BatchInv
<1>2. \A q \in Position \ {p} : row'[q] = row[q]
  BY <1>1
<1>3. row'[p].status = "open" /\ row'[p].terms = row[p].terms
  BY <1>1
<1>4. \A q \in DOMAIN batch : row'[q].status = "open" /\ row'[q].terms = row[q].terms
  BY <1>1, <1>2, <1>3 DEF BatchInv
<1>5. TermsInv'
  BY <1>1, <1>2, <1>3 DEF TermsInv
<1>6. CloseJustified'
  BY <1>2, <1>3 DEF CloseJustified
<1> QED
  BY <1>1, <1>2, <1>3, <1>4, <1>5, <1>6

\* A visit that ends before anything is in hand to be closed.
LEMMA SkipKeeps ==
    ASSUME IInv, NEW p \in DOMAIN batch, Finish(p), pc \in {"scan", "update"},
           pc = "update" => p = cur,
           row' = [row EXCEPT ![p] = batch[p]] \/ UNCHANGED row,
           UNCHANGED <<quote, running, orders>>,
           seen' \in [Position -> Price \cup {None}],
           faults' \in {faults, faults + 1}, faults' \in 0 .. MaxFaults
    PROVE  IInv'
<1> USE DEF IInv
<1>0. /\ HandInv' /\ cur' = None /\ px' = None /\ why' = None
      /\ pc' \in {"sleep", "scan"}
      /\ DOMAIN batch' = DOMAIN batch \ {p}
      /\ \A q \in DOMAIN batch' : batch'[q] = batch[q]
      /\ batch' \in [DOMAIN batch' -> Row] /\ DOMAIN batch' \subseteq Position
  <2>1. p \in Position
    BY DEF TypeOK
  <2> QED
    BY <2>1, FinishFacts
<1>1. /\ row' \in [Position -> Row] /\ TermsInv' /\ CloseJustified'
      /\ \A q \in Position : row'[q].status = row[q].status
      /\ \A q \in DOMAIN batch : row'[q].status = "open" /\ row'[q].terms = row[q].terms
      /\ \A q \in Position \ {p} : row'[q] = row[q]
  BY WriteBackFacts
<1>2. TypeOK'
  BY <1>0, <1>1 DEF TypeOK, orders
<1>3. BatchInv'
  BY <1>0, <1>1 DEF BatchInv, HandInv
<1>4. AttemptInv'
  <2>1. \A q \in Position : Extra(q)' = Extra(q) /\ Extra(q) \in {0, 1}
    BY <1>0, <1>1 DEF Extra, InHand
  <2>2. attempts \in [Position -> Nat] /\ faults \in Int
    BY DEF TypeOK
  <2> QED
    BY <2>1, <2>2 DEF AttemptInv, orders
<1> QED
  BY <1>0, <1>1, <1>2, <1>3, <1>4

LEMMA SkipNoPriceKeeps ==
    ASSUME IInv, NEW p \in Position, SkipNoPrice(p)
    PROVE  IInv'
<1>1. /\ Finish(p) /\ pc = "scan" /\ p \in DOMAIN batch
      /\ UNCHANGED <<row, seen, quote, running, orders, faults>>
  BY DEF SkipNoPrice, table
<1>2. seen' \in [Position -> Price \cup {None}] /\ faults' \in 0 .. MaxFaults
  BY <1>1 DEF IInv, TypeOK
<1> QED
  BY <1>1, <1>2, SkipKeeps

LEMMA FaultType ==
    ASSUME TypeOK, Fault
    PROVE  faults' = faults + 1 /\ faults' \in 0 .. MaxFaults
BY FaultsAssumption DEF Fault, TypeOK

LEMMA ReadPriceFailsKeeps ==
    ASSUME IInv, NEW p \in Position, ReadPriceFails(p)
    PROVE  IInv'
<1>1. /\ Finish(p) /\ pc = "scan" /\ p \in DOMAIN batch /\ Fault
      /\ UNCHANGED <<row, seen, quote, running, orders>>
  BY DEF ReadPriceFails, table
<1>2. seen' \in [Position -> Price \cup {None}]
  BY <1>1 DEF IInv, TypeOK
<1>3. faults' = faults + 1 /\ faults' \in 0 .. MaxFaults
  BY <1>1, FaultType DEF IInv
<1> QED
  BY <1>1, <1>2, <1>3, SkipKeeps

\* An exit is decided for the row p at the price x: the row was written back
\* or was up to date, and is now the row in hand.
LEMMA DecideKeeps ==
    ASSUME IInv, NEW p \in DOMAIN batch, NEW x \in Price, pc \in {"scan", "update"},
           pc = "update" => p = cur,
           row' = [row EXCEPT ![p] = batch[p]],
           ExitReason(batch[p], x) # None,
           pc' = "place", batch' = batch, cur' = p, px' = x,
           why' = ExitReason(batch[p], x),
           attempts' = [attempts EXCEPT ![p] = @ + 1],
           UNCHANGED <<accepted, recorded, quote, running, faults>>,
           seen' \in [Position -> Price \cup {None}]
    PROVE  IInv'
<1> USE DEF IInv
<1>0. /\ p \in Position /\ row[p].status = "open" /\ DOMAIN batch \subseteq Position
      /\ why' \in Reason /\ attempts \in [Position -> Nat] /\ faults \in Int
      /\ row'[p] = batch[p]
  BY ExitReasonType DEF TypeOK, BatchInv
<1>1. /\ row' \in [Position -> Row] /\ TermsInv' /\ CloseJustified'
      /\ \A q \in Position : row'[q].status = row[q].status
      /\ \A q \in DOMAIN batch : row'[q].status = "open" /\ row'[q].terms = row[q].terms
      /\ \A q \in Position \ {p} : row'[q] = row[q]
  BY WriteBackFacts
<1>2. TypeOK'
  BY <1>0, <1>1 DEF TypeOK
<1>3. HandInv'
  BY <1>0 DEF HandInv, InHand
<1>4. BatchInv'
  BY <1>0, <1>1 DEF BatchInv, HandInv
<1>5. AttemptInv'
  <2>1. Extra(p) = 0 /\ Extra(p)' = 1
    BY <1>0, <1>1 DEF Extra, InHand
  <2>2. \A q \in Position \ {p} : Extra(q)' = Extra(q)
    BY <1>0, <1>1 DEF Extra, InHand
  <2>3. attempts'[p] = attempts[p] + 1 /\ \A q \in Position \ {p} : attempts'[q] = attempts[q]
    BY <1>0
  <2>4. \A q \in Position : attempts[q] \in Nat
    BY <1>0
  <2>5. attempts'[p] <= faults' + Extra(p)'
    BY <1>0, <2>1, <2>3, <2>4 DEF AttemptInv
  <2>6. ASSUME NEW q \in Position \ {p} PROVE attempts'[q] <= faults' + Extra(q)'
    BY <2>2, <2>3 DEF AttemptInv
  <2> QED
    BY <2>5, <2>6 DEF AttemptInv
<1> QED
  BY <1>1, <1>2, <1>3, <1>4, <1>5

LEMMA EvaluateKeeps ==
    ASSUME IInv, NEW p \in DOMAIN batch, NEW x \in Price, pc \in {"scan", "update"},
           pc = "update" => p = cur,
           row' = [row EXCEPT ![p] = batch[p]],
           Evaluate(p, batch[p], x),
           UNCHANGED <<quote, running, faults>>,
           seen' \in [Position -> Price \cup {None}]
    PROVE  IInv'
<1>1. CASE ExitReason(batch[p], x) = None
  <2>1. Finish(p) /\ UNCHANGED orders
    BY <1>1 DEF Evaluate, CallExecute
  <2>2. faults' = faults /\ faults' \in 0 .. MaxFaults
    BY DEF IInv, TypeOK
  <2> QED
    BY <2>1, <2>2, SkipKeeps
<1>2. CASE ExitReason(batch[p], x) # None
  <2>1. /\ pc' = "place" /\ batch' = [batch EXCEPT ![p] = batch[p]]
        /\ cur' = p /\ px' = x /\ why' = ExitReason(batch[p], x)
        /\ attempts' = [attempts EXCEPT ![p] = @ + 1]
        /\ UNCHANGED <<accepted, recorded>>
    BY <1>2 DEF Evaluate, CallExecute
  <2>2. batch' = batch
    BY <2>1 DEF IInv, TypeOK
  <2> QED
    BY <1>2, <2>1, <2>2, DecideKeeps
<1> QED
  BY <1>1, <1>2

LEMMA ReadPriceKeeps ==
    ASSUME IInv, NEW p \in Position, ReadPrice(p)
    PROVE  IInv'
<1> DEFINE x == quote[SymbolOf[p]]
<1> USE DEF IInv
<1>0. /\ pc = "scan" /\ p \in DOMAIN batch /\ x \in Price
      /\ UNCHANGED <<row, quote, running, faults>>
      /\ batch[p] = row[p] /\ batch[p] \in Row /\ batch[p].terms \in Terms
      /\ row[p].status = "open"
  BY SymbolAssumption DEF ReadPrice, TypeOK, BatchInv, TermsInv, HandInv
<1>a. seen' \in [Position -> Price \cup {None}]
  <2>1. seen' = [seen EXCEPT ![p] = Best(batch[p].terms.side, @, x)]
    BY DEF ReadPrice
  <2>2. Best(batch[p].terms.side, seen[p], x) \in Price \cup {None}
    BY <1>0, BestType DEF TypeOK
  <2> QED
    BY <2>1, <2>2 DEF TypeOK
<1>1. CASE Ratchets(batch[p], x)
  <2>0. /\ pc' = "update" /\ batch' = [batch EXCEPT ![p].trail = Candidate(batch[p], x)]
        /\ cur' = p /\ px' = x /\ UNCHANGED <<why, orders>>
    BY <1>1 DEF ReadPrice
  <2>1. Candidate(batch[p], x) \in Int
    BY <1>0, <1>1, CandidateType
  <2> HIDE DEF x
  <2>2. /\ batch'[p] = [batch[p] EXCEPT !.trail = Candidate(batch[p], x)]
        /\ DOMAIN batch' = DOMAIN batch
        /\ \A q \in DOMAIN batch \ {p} : batch'[q] = batch[q]
    BY <1>0, <2>0 DEF TypeOK
  <2>3. batch'[p] \in Row /\ batch'[p].status = "open" /\ batch'[p].terms = row[p].terms
    BY <1>0, <2>1, <2>2 DEF Row
  <2>4. TypeOK'
    <3>1. batch' \in [DOMAIN batch' -> Row]
      BY <1>0, <2>0, <2>1, <2>2, <2>3 DEF TypeOK
    <3> QED
      BY <1>0, <1>a, <2>0, <2>2, <3>1 DEF TypeOK, orders
  <2>5. HandInv'
    BY <1>0, <2>0, <2>2 DEF HandInv, InHand
  <2>6. BatchInv'
    BY <1>0, <2>0, <2>2, <2>3 DEF BatchInv, HandInv
  <2>7. TermsInv'
    BY <1>0 DEF TermsInv
  <2>8. AttemptInv'
    <3>1. \A q \in Position : Extra(q)' = Extra(q)
      BY <1>0, <2>0 DEF Extra, InHand
    <3> QED
      BY <1>0, <2>0, <3>1 DEF AttemptInv, orders
  <2>9. CloseJustified'
    BY <1>0 DEF CloseJustified
  <2> QED
    BY <2>4, <2>5, <2>6, <2>7, <2>8, <2>9
<1>2. CASE ~Ratchets(batch[p], x)
  <2>1. Evaluate(p, batch[p], x)
    BY <1>2 DEF ReadPrice
  <2>2. row' = [row EXCEPT ![p] = batch[p]]
    BY <1>0 DEF TypeOK
  <2> QED
    BY <1>0, <1>a, <2>1, <2>2, EvaluateKeeps
<1> QED
  BY <1>1, <1>2

LEMMA SaveTrailingKeeps ==
    ASSUME IInv, SaveTrailing
    PROVE  IInv'
<1>1. pc = "update" /\ cur \in DOMAIN batch /\ px \in Price
  BY DEF SaveTrailing, IInv, HandInv
<1>2. /\ row' = [row EXCEPT ![cur] = batch[cur]] /\ Evaluate(cur, batch[cur], px)
      /\ UNCHANGED <<seen, quote, running, faults>>
  BY DEF SaveTrailing, WriteBack
<1>3. seen' \in [Position -> Price \cup {None}]
  BY <1>2 DEF IInv, TypeOK
<1> QED
  BY <1>1, <1>2, <1>3, EvaluateKeeps

LEMMA SaveTrailingFailsKeeps ==
    ASSUME IInv, SaveTrailingFails
    PROVE  IInv'
<1>1. pc = "update" /\ cur \in DOMAIN batch
  BY DEF SaveTrailingFails, IInv, HandInv
<1>2. /\ row' = [row EXCEPT ![cur] = batch[cur]] \/ UNCHANGED row
      /\ Fault /\ Finish(cur) /\ UNCHANGED <<seen, quote, running, orders>>
  BY DEF SaveTrailingFails, WriteBack
<1>3. faults' = faults + 1 /\ faults' \in 0 .. MaxFaults
  BY <1>2, FaultType DEF IInv
<1>4. seen' \in [Position -> Price \cup {None}]
  BY <1>2 DEF IInv, TypeOK
<1> QED
  BY <1>1, <1>2, <1>3, <1>4, SkipKeeps

\* Between the decision and the close write only the orders change.
LEMMA OrderStepKeeps ==
    ASSUME IInv, PlaceOrder \/ PlaceOrderFails \/ SaveOrder \/ SaveOrderFails
    PROVE  IInv'
<1> USE DEF IInv
<1>0. /\ pc \in InHand /\ pc' \in InHand /\ cur \in Position
      /\ UNCHANGED <<row, seen, quote, running, batch, cur, px, why, attempts, faults>>
  BY DEF PlaceOrder, PlaceOrderFails, SaveOrder, SaveOrderFails, InHand, table, orders,
         HandInv, TypeOK
<1>1. accepted' \in [Position -> Nat] /\ recorded' \in [Position -> Nat]
  BY <1>0 DEF PlaceOrder, PlaceOrderFails, SaveOrder, SaveOrderFails, orders, TypeOK
<1>2. TypeOK'
  BY <1>0, <1>1 DEF TypeOK, InHand
<1>3. HandInv'
  BY <1>0 DEF HandInv, InHand
<1>4. BatchInv'
  BY <1>0 DEF BatchInv, InHand
<1>5. TermsInv'
  BY <1>0 DEF TermsInv
<1>6. AttemptInv'
  <2>1. \A q \in Position : Extra(q)' = Extra(q)
    BY <1>0 DEF Extra
  <2> QED
    BY <1>0, <2>1 DEF AttemptInv
<1>7. CloseJustified'
  BY <1>0 DEF CloseJustified
<1> QED
  BY <1>2, <1>3, <1>4, <1>5, <1>6, <1>7

\* The close write leaves a row that the exit rules justify.
LEMMA MarkClosedFacts ==
    ASSUME IInv, pc = "close", MarkClosed
    PROVE  /\ row' \in [Position -> Row] /\ row'[cur].status = "closed"
           /\ \A q \in Position \ {cur} : row'[q] = row[q]
           /\ TermsInv' /\ CloseJustified'
<1> USE DEF IInv
<1>0. /\ cur \in DOMAIN batch /\ cur \in Position /\ px \in Price /\ px \in Int
      /\ why \in Reason /\ why = ExitReason(batch[cur], px)
      /\ batch[cur] = row[cur] /\ row[cur] \in Row /\ row[cur].terms \in Terms
      /\ row \in [Position -> Row]
  BY PriceAssumption DEF HandInv, InHand, BatchInv, TermsInv, TypeOK
<1>1. PnL(batch[cur], px) \in Int
  BY <1>0, PnLType
<1> DEFINE new == [row[cur] EXCEPT !.status = "closed", !.exit = px,
                                   !.pnl = PnL(batch[cur], px), !.reason = why]
<1>2. row' = [row EXCEPT ![cur] = new]
  BY <1>0 DEF MarkClosed
<1>3. /\ new \in Row /\ new.status = "closed" /\ new.exit = px /\ new.reason = why
      /\ new.pnl = PnL(batch[cur], px)
      /\ new.terms = row[cur].terms /\ new.trail = row[cur].trail
  BY <1>0, <1>1 DEF Row
<1>4. row'[cur] = new /\ \A q \in Position \ {cur} : row'[q] = row[q]
  BY <1>0, <1>2
<1>5. row' \in [Position -> Row]
  BY <1>0, <1>2, <1>3
<1> HIDE DEF new
<1>6. TermsInv'
  BY <1>0, <1>3, <1>4 DEF TermsInv
<1>7. ExitReason(row'[cur], px) = why /\ PnL(row'[cur], px) = PnL(batch[cur], px)
  BY <1>0, <1>3, <1>4, ExitReasonOfCopy, PnLOfCopy
<1>8. CloseJustified'
  BY <1>3, <1>4, <1>7 DEF CloseJustified
<1> QED
  BY <1>3, <1>4, <1>5, <1>6, <1>8

\* The visit of a row in hand ends: either it is closed, or a fault makes up
\* for the order that was asked for.
LEMMA CloseKeeps ==
    ASSUME IInv, pc = "close", Finish(cur), UNCHANGED <<seen, quote, running, orders>>,
           faults' \in 0 .. MaxFaults,
           \/ MarkClosed /\ faults' \in {faults, faults + 1}
           \/ UNCHANGED row /\ faults' = faults + 1
    PROVE  IInv'
<1> USE DEF IInv
<1>a. cur \in DOMAIN batch /\ cur \in Position
  BY DEF HandInv, InHand, TypeOK
<1>0. /\ HandInv' /\ cur' = None /\ px' = None /\ why' = None
      /\ pc' \in {"sleep", "scan"}
      /\ DOMAIN batch' = DOMAIN batch \ {cur}
      /\ \A q \in DOMAIN batch' : batch'[q] = batch[q]
      /\ batch' \in [DOMAIN batch' -> Row] /\ DOMAIN batch' \subseteq Position
  BY <1>a, FinishFacts
<1>1. /\ row' \in [Position -> Row] /\ TermsInv' /\ CloseJustified'
      /\ \A q \in Position \ {cur} : row'[q] = row[q]
  <2>1. CASE MarkClosed
    BY <2>1, MarkClosedFacts
  <2>2. CASE UNCHANGED row
    BY <2>2 DEF TypeOK, TermsInv, CloseJustified
  <2> QED
    BY <2>1, <2>2
<1>2. TypeOK'
  BY <1>0, <1>1 DEF TypeOK, orders
<1>3. BatchInv'
  BY <1>0, <1>1 DEF BatchInv
<1>4. AttemptInv'
  <2>0. \A q \in Position : attempts'[q] = attempts[q] /\ attempts[q] \in Nat
    BY DEF orders, TypeOK
  <2>1. faults \in Int
    BY DEF TypeOK
  <2>2. ASSUME NEW q \in Position, q = cur PROVE attempts'[q] <= faults' + Extra(q)'
    <3>1. attempts[q] <= faults + 1
      BY <2>2, <2>0, <2>1 DEF AttemptInv, Extra, InHand
    <3>2. CASE MarkClosed /\ faults' \in {faults, faults + 1}
      <4>1. Extra(q)' = 1
        BY <2>2, <3>2, MarkClosedFacts DEF Extra
      <4> QED
        BY <3>1, <3>2, <4>1, <2>0, <2>1
    <3>3. CASE UNCHANGED row /\ faults' = faults + 1
      <4>1. Extra(q)' \in {0, 1}
        BY DEF Extra
      <4> QED
        BY <3>1, <3>3, <4>1, <2>0, <2>1
    <3> QED
      BY <3>2, <3>3
  <2>3. ASSUME NEW q \in Position \ {cur} PROVE attempts'[q] <= faults' + Extra(q)'
    <3>1. Extra(q)' = Extra(q) /\ Extra(q) \in {0, 1}
      BY <1>0, <1>1 DEF Extra, InHand
    <3> QED
      BY <3>1, <2>0, <2>1 DEF AttemptInv
  <2> QED
    BY <2>2, <2>3 DEF AttemptInv
<1> QED
  BY <1>0, <1>1, <1>2, <1>3, <1>4

LEMMA CloseRowKeeps ==
    ASSUME IInv, CloseRow \/ CloseRowFails
    PROVE  IInv'
<1>1. /\ pc = "close" /\ Finish(cur) /\ UNCHANGED <<seen, quote, running, orders>>
  BY DEF CloseRow, CloseRowFails
<1>2. CASE CloseRow
  <2>1. MarkClosed /\ faults' = faults /\ faults' \in 0 .. MaxFaults
    BY <1>2 DEF CloseRow, IInv, TypeOK
  <2> QED
    BY <1>1, <2>1, CloseKeeps
<1>3. CASE CloseRowFails
  <2>1. (MarkClosed \/ UNCHANGED row) /\ Fault
    BY <1>3 DEF CloseRowFails
  <2>2. faults' = faults + 1 /\ faults' \in 0 .. MaxFaults
    BY <2>1, FaultType DEF IInv
  <2> QED
    BY <1>1, <2>1, <2>2, CloseKeeps
<1> QED
  BY <1>2, <1>3

LEMMA CrashKeeps ==
    ASSUME IInv, Crash
    PROVE  IInv'
<1> USE DEF IInv
<1>0. /\ running' = FALSE /\ pc' = "sleep" /\ batch' = [p \in {} |-> AbsentRow]
      /\ cur' = None /\ px' = None /\ why' = None
      /\ UNCHANGED <<row, seen, quote, orders>>
      /\ faults' = faults + 1 /\ faults' \in 0 .. MaxFaults
  BY FaultType DEF Crash, table
<1>1. TypeOK'
  BY <1>0 DEF TypeOK, orders
<1>2. HandInv'
  BY <1>0 DEF HandInv, InHand
<1>3. BatchInv'
  BY <1>0 DEF BatchInv
<1>4. TermsInv'
  BY <1>0 DEF TermsInv
<1>5. AttemptInv'
  <2>1. \A q \in Position : Extra(q) \in {0, 1} /\ Extra(q)' \in {0, 1} /\ Extra(q) <= Extra(q)' + 1
    BY <1>0 DEF Extra, InHand
  <2>2. attempts \in [Position -> Nat] /\ faults \in Int
    BY DEF TypeOK
  <2> QED
    BY <1>0, <2>1, <2>2 DEF AttemptInv, orders
<1>6. CloseJustified'
  BY <1>0 DEF CloseJustified
<1> QED
  BY <1>1, <1>2, <1>3, <1>4, <1>5, <1>6

LEMMA NextKeepsIInv == IInv /\ [Next]_vars => IInv'
<1> SUFFICES ASSUME IInv, [Next]_vars PROVE IInv'
  OBVIOUS
<1>1. CASE Cycle
  BY <1>1, FetchOpenKeeps, SkipNoPriceKeeps, ReadPriceKeeps, SaveTrailingKeeps,
     OrderStepKeeps, CloseRowKeeps DEF Cycle
<1>2. CASE Faulty
  BY <1>2, ReadPriceFailsKeeps, SaveTrailingFailsKeeps, CloseRowKeeps, CrashKeeps DEF Faulty
<1>3. CASE Environment
  BY <1>3, OpenPositionKeeps, QuietStepKeeps DEF Environment
<1>4. CASE UNCHANGED vars
  <2>1. /\ UNCHANGED <<row, seen, local, orders, faults, quote, running>>
    BY <1>4 DEF vars, table
  <2>2. /\ faults' \in 0 .. MaxFaults /\ quote' \in [Symbol -> Price \cup {None}]
        /\ running' \in BOOLEAN
    BY <2>1 DEF IInv, TypeOK
  <2> QED
    BY <2>1, <2>2, FrameKeeps
<1> QED
  BY <1>1, <1>2, <1>3, <1>4 DEF Next

LEMMA InvariantHolds == Spec => []IInv
BY InitIInv, NextKeepsIInv, PTL DEF Spec

-----------------------------------------------------------------------------
(* The theorems.                                                           *)

\* Every variable of the monitor keeps its type, the local copies included.
THEOREM TypeCorrect == Spec => []TypeOK
BY InvariantHolds, PTL DEF IInv

\* However the calls fail and whenever the process dies, a row costs at most
\* one closing order plus one per fault (_close_position).
THEOREM AtMostOneExtraOrderPerFault == Spec => []DuplicatesNeedFaults
<1>1. IInv => DuplicatesNeedFaults
  <2> SUFFICES ASSUME IInv, NEW p \in Position PROVE attempts[p] <= 1 + faults
    BY DEF DuplicatesNeedFaults
  <2>1. Extra(p) \in {0, 1} /\ attempts[p] \in Nat /\ faults \in Int
    BY DEF Extra, IInv, TypeOK
  <2> QED
    BY <2>1 DEF IInv, AttemptInv
<1> QED
  BY <1>1, InvariantHolds, PTL

\* Every recorded close is the one the exit rules give for the row as the
\* table holds it at the recorded price (close_position, _evaluate_exit).
THEOREM ClosesAreJustified == Spec => []CloseJustified
BY InvariantHolds, PTL DEF IInv


-----------------------------------------------------------------------------
(* Steps.  StepInv is what IInv does not say and the step theorems need: a  *)
(* row not yet closed has no PnL, neither in the table nor in its copy; a   *)
(* row in hand has cost an order; a stop about to be saved is not worse     *)
(* than the one it replaces.                                                *)

StepInv ==
    /\ \A p \in Position : row[p].status # "closed" => row[p].pnl = None
    /\ \A p \in DOMAIN batch : batch[p].pnl = None
    /\ pc \in InHand => attempts[cur] > 0
    /\ pc = "update" =>
          /\ batch[cur].trail # None
          /\ row[cur].trail # None =>
                AtLeast(row[cur].terms.side, batch[cur].trail, row[cur].trail)

\* How a step can change the table.
RowStep ==
    \/ UNCHANGED row
    \/ \E p \in Position, t \in Terms :
          /\ row[p].status = "absent"
          /\ row' = [row EXCEPT ![p] = [AbsentRow EXCEPT !.status = "open", !.terms = t,
                                                         !.trail = t.trail]]
    \/ pc = "update" /\ WriteBack
    \/ pc = "close" /\ MarkClosed

LEMMA NextIsRowStep ==
    ASSUME [Next]_vars
    PROVE  RowStep
<1>1. CASE Cycle
  BY <1>1 DEF Cycle, RowStep, FetchOpen, SkipNoPrice, ReadPrice, SaveTrailing, PlaceOrder,
     PlaceOrderFails, SaveOrder, SaveOrderFails, CloseRow, table
<1>2. CASE Faulty
  BY <1>2 DEF Faulty, RowStep, ReadPriceFails, SaveTrailingFails, CloseRowFails, Crash, table
<1>3. CASE Environment
  BY <1>3 DEF Environment, RowStep, OpenPosition, ExpireTicker, CacheTicker, Stop, Start, table
<1>4. CASE UNCHANGED vars
  BY <1>4 DEF vars, table, RowStep
<1> QED
  BY <1>1, <1>2, <1>3, <1>4 DEF Next

\* How a step can change the orders asked for and taken.
OrderStep ==
    \/ UNCHANGED <<attempts, accepted>>
    \/ \E p \in DOMAIN batch :
          /\ pc \in {"scan", "update"} /\ UNCHANGED accepted
          /\ attempts' = [attempts EXCEPT ![p] = @ + 1]
          /\ pc' = "place" /\ cur' = p
    \/ pc = "place" /\ UNCHANGED attempts /\ accepted' = [accepted EXCEPT ![cur] = @ + 1]

LEMMA NextIsOrderStep ==
    ASSUME IInv, [Next]_vars
    PROVE  OrderStep
<1>1. CASE \E p \in Position : ReadPrice(p)
  <2>1. PICK p \in Position : ReadPrice(p)
    BY <1>1
  <2> QED
    BY <2>1 DEF ReadPrice, Evaluate, CallExecute, OrderStep, orders
<1>2. CASE SaveTrailing
  BY <1>2 DEF SaveTrailing, Evaluate, CallExecute, OrderStep, orders, IInv, HandInv
<1>3. CASE FetchOpen \/ (\E p \in Position : SkipNoPrice(p)) \/ PlaceOrder \/ PlaceOrderFails
           \/ SaveOrder \/ SaveOrderFails \/ CloseRow
  BY <1>3 DEF FetchOpen, SkipNoPrice, PlaceOrder, PlaceOrderFails, SaveOrder, SaveOrderFails,
     CloseRow, OrderStep, orders
<1>4. CASE Faulty
  BY <1>4 DEF Faulty, OrderStep, ReadPriceFails, SaveTrailingFails, CloseRowFails, Crash, orders
<1>5. CASE Environment
  BY <1>5 DEF Environment, OrderStep, OpenPosition, ExpireTicker, CacheTicker, Stop, Start, orders
<1>6. CASE UNCHANGED vars
  BY <1>6 DEF vars, orders, OrderStep
<1> QED
  BY <1>1, <1>2, <1>3, <1>4, <1>5, <1>6 DEF Next, Cycle

\* A closed row is never written again: every write the monitor makes is to a
\* row of its batch, and those are open.
LEMMA ClosedIsFinalStep ==
    ASSUME IInv, [Next]_vars, NEW p \in Position, row[p].status = "closed"
    PROVE  row'[p] = row[p]
<1>1. RowStep
  BY NextIsRowStep
<1>2. row \in [Position -> Row] /\ (pc \in {"update", "close"} => cur # p)
  BY DEF IInv, TypeOK, HandInv, InHand, BatchInv
<1> QED
  BY <1>1, <1>2 DEF RowStep, WriteBack, MarkClosed

\* No write of a stale local copy ever reopens or rewrites a closed row
\* (update_position and close_position do not filter on the status).
THEOREM ClosedRowsAreFinal == Spec => ClosedIsFinal
<1>1. IInv /\ [Next]_vars =>
        [\A p \in Position : row[p].status = "closed" => row'[p] = row[p]]_vars
  BY ClosedIsFinalStep
<1> QED
  BY <1>1, InvariantHolds, PTL DEF Spec, ClosedIsFinal

\* The exchange is never asked to close a row that the table holds as closed
\* (_close_position, with a batch read before the awaits of earlier rows).
THEOREM NoOrdersForClosedRows == Spec => NoOrderForClosed
<1>1. ASSUME IInv, [Next]_vars, NEW p \in Position,
             attempts'[p] # attempts[p] \/ accepted'[p] # accepted[p]
      PROVE  row[p].status = "open"
  <2>1. OrderStep
    BY <1>1, NextIsOrderStep
  <2>2. /\ attempts \in [Position -> Nat] /\ accepted \in [Position -> Nat]
        /\ DOMAIN batch \subseteq Position /\ \A q \in DOMAIN batch : row[q].status = "open"
        /\ pc = "place" => cur \in DOMAIN batch
    BY <1>1 DEF IInv, TypeOK, BatchInv, HandInv, InHand
  <2> QED
    BY <1>1, <2>1, <2>2 DEF OrderStep
<1>2. IInv /\ [Next]_vars =>
        [\A p \in Position :
            attempts'[p] # attempts[p] \/ accepted'[p] # accepted[p] =>
                row[p].status = "open"]_vars
  BY <1>1
<1> QED
  BY <1>2, InvariantHolds, PTL DEF Spec, NoOrderForClosed


\* A row about to be ratcheted gets a better stop than it has.
LEMMA RatchetFacts ==
    ASSUME NEW pos \in Row, pos.terms \in Terms, NEW x \in Price, Ratchets(pos, x)
    PROVE  /\ Candidate(pos, x) # None
           /\ pos.trail # None => AtLeast(pos.terms.side, Candidate(pos, x), pos.trail)
BY CandidateType, NoneAssumption DEF Ratchets, Better

LEMMA InitStepInv == Init => StepInv
BY DEF Init, StepInv, AbsentRow, InHand

\* How a step can change what the task holds.
TaskStep ==
    \/ UNCHANGED <<pc, batch, cur>>
    \/ pc' = "scan" /\ batch' = [p \in OpenRows |-> row[p]]
    \/ pc' \in {"sleep", "scan"} /\ \E p \in Position : batch' = [q \in DOMAIN batch \ {p} |-> batch[q]]
    \/ pc' = "sleep" /\ batch' = [p \in {} |-> AbsentRow]
    \/ \E p \in DOMAIN batch, x \in Price :
          /\ pc' = "update" /\ cur' = p /\ UNCHANGED row
          /\ batch[p] = row[p] /\ batch[p].terms \in Terms /\ Ratchets(batch[p], x)
          /\ batch' = [batch EXCEPT ![p].trail = Candidate(batch[p], x)]
    \/ \E p \in DOMAIN batch :
          /\ pc' = "place" /\ cur' = p /\ UNCHANGED batch
          /\ attempts' = [attempts EXCEPT ![p] = @ + 1]
    \/ pc \in InHand /\ pc' \in InHand /\ UNCHANGED <<batch, cur>>

LEMMA EvaluateIsTaskStep ==
    ASSUME IInv, NEW p \in DOMAIN batch, NEW x, Evaluate(p, batch[p], x)
    PROVE  TaskStep
<1>1. p \in Position /\ [batch EXCEPT ![p] = batch[p]] = batch
  BY DEF IInv, TypeOK
<1> QED
  BY <1>1 DEF Evaluate, CallExecute, Finish, TaskStep

LEMMA NextIsTaskStep ==
    ASSUME IInv, [Next]_vars
    PROVE  TaskStep
<1>1. CASE \E p \in Position : ReadPrice(p)
  <2>1. PICK p \in Position : ReadPrice(p)
    BY <1>1
  <2> DEFINE x == quote[SymbolOf[p]]
  <2>2. /\ pc = "scan" /\ p \in DOMAIN batch /\ x \in Price /\ UNCHANGED row
        /\ batch[p] = row[p] /\ batch[p].terms \in Terms
    BY <2>1, SymbolAssumption DEF ReadPrice, IInv, TypeOK, BatchInv, TermsInv, HandInv
  <2>3. CASE Ratchets(batch[p], x)
    <3>1. /\ pc' = "update" /\ batch' = [batch EXCEPT ![p].trail = Candidate(batch[p], x)]
          /\ cur' = p
      BY <2>1, <2>3 DEF ReadPrice
    <3> QED
      BY <2>2, <2>3, <3>1 DEF TaskStep
  <2>4. CASE ~Ratchets(batch[p], x)
    <3>1. Evaluate(p, batch[p], x)
      BY <2>1, <2>4 DEF ReadPrice
    <3> QED
      BY <2>2, <3>1, EvaluateIsTaskStep
  <2> QED
    BY <2>3, <2>4
<1>2. CASE SaveTrailing
  BY <1>2, EvaluateIsTaskStep DEF SaveTrailing, IInv, HandInv
<1>3. CASE FetchOpen
  BY <1>3 DEF FetchOpen, TaskStep
<1>4. CASE \E p \in Position : SkipNoPrice(p) \/ ReadPriceFails(p)
  BY <1>4 DEF SkipNoPrice, ReadPriceFails, Finish, TaskStep
<1>5. CASE PlaceOrder \/ PlaceOrderFails \/ SaveOrder \/ SaveOrderFails
  BY <1>5 DEF PlaceOrder, PlaceOrderFails, SaveOrder, SaveOrderFails, InHand, TaskStep
<1>6. CASE CloseRow \/ CloseRowFails \/ SaveTrailingFails
  <2>1. Finish(cur) /\ cur \in Position
    BY <1>6 DEF CloseRow, CloseRowFails, SaveTrailingFails, IInv, HandInv, InHand, TypeOK
  <2> QED
    BY <2>1 DEF Finish, TaskStep
<1>7. CASE Crash
  BY <1>7 DEF Crash, TaskStep
<1>8. CASE Environment
  BY <1>8 DEF Environment, OpenPosition, ExpireTicker, CacheTicker, Stop, Start, local, TaskStep
<1>9. CASE UNCHANGED vars
  BY <1>9 DEF vars, local, TaskStep
<1> QED
  BY <1>1, <1>2, <1>3, <1>4, <1>5, <1>6, <1>7, <1>8, <1>9 DEF Next, Cycle, Faulty

LEMMA NextKeepsStepInv ==
    ASSUME IInv, StepInv, [Next]_vars
    PROVE  StepInv'
<1> USE DEF StepInv
<1>0. RowStep /\ OrderStep /\ TaskStep
  BY NextIsRowStep, NextIsOrderStep, NextIsTaskStep
<1>a. /\ row \in [Position -> Row] /\ DOMAIN batch \subseteq Position
      /\ attempts \in [Position -> Nat] /\ batch \in [DOMAIN batch -> Row]
      /\ pc \in InHand \cup {"update"} => cur \in DOMAIN batch
      /\ \A p \in DOMAIN batch : row[p].status = "open"
  BY DEF IInv, TypeOK, HandInv, BatchInv
<1>1. (\A p \in Position : row[p].status # "closed" => row[p].pnl = None)'
  <2>1. CASE pc = "close" /\ MarkClosed
    <3>1. row'[cur].status = "closed" /\ \A q \in Position \ {cur} : row'[q] = row[q]
      BY <2>1, MarkClosedFacts
    <3> QED
      BY <3>1
  <2>2. CASE pc = "update" /\ WriteBack
    BY <2>2, <1>a DEF WriteBack
  <2>3. ASSUME NEW p \in Position, NEW t \in Terms,
               row' = [row EXCEPT ![p] = [AbsentRow EXCEPT !.status = "open", !.terms = t,
                                                           !.trail = t.trail]]
        PROVE  (\A q \in Position : row[q].status # "closed" => row[q].pnl = None)'
    BY <2>3, <1>a DEF AbsentRow
  <2>4. CASE UNCHANGED row
    BY <2>4
  <2> QED
    BY <1>0, <2>1, <2>2, <2>3, <2>4 DEF RowStep
<1>2. (\A p \in DOMAIN batch : batch[p].pnl = None)'
  <2>1. CASE \E p \in DOMAIN batch, x \in Price :
                batch' = [batch EXCEPT ![p].trail = Candidate(batch[p], x)]
    BY <2>1, <1>a
  <2>2. CASE batch' = [p \in OpenRows |-> row[p]]
    BY <2>2 DEF OpenRows
  <2>3. CASE UNCHANGED batch \/ batch' = [p \in {} |-> AbsentRow]
              \/ \E p \in Position : batch' = [q \in DOMAIN batch \ {p} |-> batch[q]]
    BY <2>3
  <2> QED
    BY <1>0, <2>1, <2>2, <2>3 DEF TaskStep
<1>3. (pc \in InHand => attempts[cur] > 0)'
  BY <1>0, <1>a DEF TaskStep, OrderStep, InHand
<1>4. (pc = "update" =>
          /\ batch[cur].trail # None
          /\ row[cur].trail # None =>
                AtLeast(row[cur].terms.side, batch[cur].trail, row[cur].trail))'
  <2>1. CASE \E p \in DOMAIN batch, x \in Price :
                /\ pc' = "update" /\ cur' = p /\ UNCHANGED row
                /\ batch[p] = row[p] /\ batch[p].terms \in Terms /\ Ratchets(batch[p], x)
                /\ batch' = [batch EXCEPT ![p].trail = Candidate(batch[p], x)]
    <3>1. PICK p \in DOMAIN batch, x \in Price :
                /\ pc' = "update" /\ cur' = p /\ UNCHANGED row
                /\ batch[p] = row[p] /\ batch[p].terms \in Terms /\ Ratchets(batch[p], x)
                /\ batch' = [batch EXCEPT ![p].trail = Candidate(batch[p], x)]
      BY <2>1
    <3>2. /\ Candidate(batch[p], x) # None
          /\ row[p].trail # None =>
                AtLeast(row[p].terms.side, Candidate(batch[p], x), row[p].trail)
      BY <3>1, <1>a, RatchetFacts
    <3>3. batch'[cur'].trail = Candidate(batch[p], x) /\ row'[cur'] = row[p]
      BY <3>1, <1>a DEF Row
    <3> QED
      BY <3>2, <3>3 DEF AtLeast
  <2>2. CASE UNCHANGED <<pc, batch, cur>>
    <3>1. SUFFICES ASSUME pc = "update"
                   PROVE  row'[cur] = row[cur] \/ row'[cur] = batch[cur]
      BY <2>2, <3>1, <1>a DEF AtLeast, IInv, BatchInv, TypeOK, Row
    <3> QED
      BY <1>0, <1>a, <3>1 DEF RowStep, WriteBack, InHand
  <2>3. CASE pc' # "update"
    BY <2>3
  <2> QED
    BY <1>0, <2>1, <2>2, <2>3 DEF TaskStep, InHand
<1> QED
  BY <1>1, <1>2, <1>3, <1>4


LEMMA StepInvariantHolds == Spec => [](IInv /\ StepInv)
<1>1. Init => IInv /\ StepInv
  BY InitIInv, InitStepInv
<1>2. (IInv /\ StepInv) /\ [Next]_vars => (IInv /\ StepInv)'
  BY NextKeepsIInv, NextKeepsStepInv
<1> QED
  BY <1>1, <1>2, PTL DEF Spec

\* The stop saved for a row never moves against it and is never dropped
\* (_update_trailing_stop, update_position, close_position).
THEOREM TrailingStopsRatchet == Spec => TrailingRatchets
<1>1. ASSUME IInv, StepInv, [Next]_vars, NEW p \in Position,
             row[p].status # "absent", row[p].trail # None
      PROVE  row'[p].trail # None /\ AtLeast(row[p].terms.side, row'[p].trail, row[p].trail)
  <2>0. /\ row \in [Position -> Row] /\ row[p].trail \in Int
        /\ pc \in {"update", "close"} => cur \in Position
    BY <1>1 DEF IInv, TypeOK, HandInv, InHand, Row
  <2>1. CASE row'[p].trail = row[p].trail
    BY <2>1, <2>0, <1>1 DEF AtLeast
  <2>2. CASE pc = "update" /\ WriteBack /\ p = cur
    <3>1. row'[p] = batch[cur]
      BY <2>0, <2>2 DEF WriteBack
    <3> QED
      BY <3>1, <2>2, <1>1 DEF StepInv
  <2>3. CASE row'[p] = row[p]
    BY <2>3, <2>1
  <2>4. CASE pc = "close" /\ MarkClosed /\ p = cur
    <3>1. row'[p].trail = row[p].trail
      BY <2>0, <2>4 DEF MarkClosed, Row
    <3> QED
      BY <3>1, <2>1
  <2>5. RowStep
    BY <1>1, NextIsRowStep
  <2> QED
    BY <1>1, <2>0, <2>2, <2>3, <2>4, <2>5 DEF RowStep, WriteBack, MarkClosed
<1>2. (IInv /\ StepInv) /\ [Next]_vars =>
        [\A p \in Position : row[p].status # "absent" /\ row[p].trail # None =>
            /\ row'[p].trail # None
            /\ AtLeast(row[p].terms.side, row'[p].trail, row[p].trail)]_vars
  BY <1>1
<1> QED
  BY <1>2, StepInvariantHolds, PTL DEF Spec, TrailingRatchets

-----------------------------------------------------------------------------
(* The monitor implements PositionLifecycle.                               *)

\* A step that leaves the orders and the row statuses and PnLs alone.
LEMMA StatusesOnly ==
    ASSUME row \in [Position -> Row], UNCHANGED attempts,
           \A p \in Position : row'[p].status = row[p].status /\ row'[p].pnl = row[p].pnl
    PROVE  UNCHANGED Lifecycle!vars
BY DEF Lifecycle!vars

\* A step that changes the status, or the PnL, of one row.
LEMMA OneStatus ==
    ASSUME NEW p \in Position, NEW s, row'[p].status = s,
           \A q \in Position \ {p} : row'[q] = row[q]
    PROVE  [q \in Position |-> row'[q].status] =
           [[q \in Position |-> row[q].status] EXCEPT ![p] = s]
OBVIOUS

LEMMA OnePnL ==
    ASSUME NEW p \in Position, NEW x, row'[p].pnl = x,
           \A q \in Position \ {p} : row'[q] = row[q]
    PROVE  [q \in Position |-> row'[q].pnl] =
           [[q \in Position |-> row[q].pnl] EXCEPT ![p] = x]
OBVIOUS

LEMMA OpenRefines ==
    ASSUME IInv, StepInv, NEW p \in Position, NEW t \in Terms, OpenPosition(p, t)
    PROVE  Lifecycle!Open(p)
<1> DEFINE new == [AbsentRow EXCEPT !.status = "open", !.terms = t, !.trail = t.trail]
<1>1. /\ row \in [Position -> Row] /\ row[p].status = "absent" /\ row[p].pnl = None
      /\ row' = [row EXCEPT ![p] = new] /\ UNCHANGED attempts
  BY DEF OpenPosition, orders, IInv, TypeOK, StepInv
<1>2. new.status = "open" /\ new.pnl = None
  BY DEF AbsentRow
<1> HIDE DEF new
<1>3. /\ row'[p].status = "open" /\ row'[p].pnl = row[p].pnl
      /\ \A q \in Position \ {p} : row'[q] = row[q]
  BY <1>1, <1>2
<1>4. [q \in Position |-> row'[q].status] =
      [[q \in Position |-> row[q].status] EXCEPT ![p] = "open"]
  BY <1>3, OneStatus
<1>5. [q \in Position |-> row'[q].pnl] = [q \in Position |-> row[q].pnl]
  BY <1>3
<1> QED
  BY <1>1, <1>4, <1>5 DEF Lifecycle!Open

LEMMA AttemptRefines ==
    ASSUME IInv, NEW p \in DOMAIN batch, attempts' = [attempts EXCEPT ![p] = @ + 1],
           \A q \in Position : row'[q].status = row[q].status /\ row'[q].pnl = row[q].pnl
    PROVE  Lifecycle!Attempt(p)
BY DEF IInv, TypeOK, BatchInv, Lifecycle!Attempt

LEMMA CloseRefines ==
    ASSUME IInv, StepInv, pc = "close", MarkClosed, UNCHANGED attempts
    PROVE  \E p \in Position : \E x \in {PnL([terms |-> t], y) : t \in Terms, y \in Price} :
               Lifecycle!Close(p, x)
<1>0. /\ cur \in Position /\ px \in Price /\ row[cur].status = "open" /\ attempts[cur] > 0
      /\ batch[cur].terms \in Terms /\ row \in [Position -> Row]
  BY DEF IInv, StepInv, HandInv, InHand, BatchInv, TermsInv, TypeOK
<1>1. PnL(batch[cur], px) \in {PnL([terms |-> t], y) : t \in Terms, y \in Price}
  <2>1. PnL(batch[cur], px) = PnL([terms |-> batch[cur].terms], px)
    BY PnLOfCopy
  <2> QED
    BY <1>0, <2>1
<1>2. PICK p \in Position : p = cur
  BY <1>0
<1>3. PICK x \in {PnL([terms |-> t], y) : t \in Terms, y \in Price} : x = PnL(batch[cur], px)
  BY <1>1
<1>4. /\ row'[p].status = "closed" /\ row'[p].pnl = x
      /\ \A q \in Position \ {p} : row'[q] = row[q]
  BY <1>0, <1>2, <1>3 DEF MarkClosed, Row
<1>5. [q \in Position |-> row'[q].status] =
      [[q \in Position |-> row[q].status] EXCEPT ![p] = "closed"]
  BY <1>4, OneStatus
<1>6. [q \in Position |-> row'[q].pnl] =
      [[q \in Position |-> row[q].pnl] EXCEPT ![p] = x]
  BY <1>4, OnePnL
<1>7. Lifecycle!Close(p, x)
  BY <1>0, <1>2, <1>5, <1>6 DEF Lifecycle!Close
<1> QED
  BY <1>7

LEMMA NextRefines ==
    ASSUME IInv, StepInv, [Next]_vars
    PROVE  [Lifecycle!Next]_(Lifecycle!vars)
<1>0. row \in [Position -> Row] /\ DOMAIN batch \subseteq Position
  BY DEF IInv, TypeOK
<1>1. CASE \E p \in Position, t \in Terms : OpenPosition(p, t)
  BY <1>1, OpenRefines DEF Lifecycle!Next
<1>2. CASE (CloseRow \/ CloseRowFails) /\ MarkClosed
  <2>1. pc = "close" /\ UNCHANGED attempts
    BY <1>2 DEF CloseRow, CloseRowFails, orders
  <2> QED
    BY <1>2, <2>1, CloseRefines DEF Lifecycle!Next
<1>3. CASE /\ \A q \in Position : row'[q].status = row[q].status /\ row'[q].pnl = row[q].pnl
           /\ OrderStep
  <2>1. CASE UNCHANGED attempts
    BY <1>0, <1>3, <2>1, StatusesOnly
  <2>2. CASE \E p \in DOMAIN batch : attempts' = [attempts EXCEPT ![p] = @ + 1]
    <3>1. PICK p \in DOMAIN batch : attempts' = [attempts EXCEPT ![p] = @ + 1]
      BY <2>2
    <3>2. Lifecycle!Attempt(p) /\ p \in Position
      BY <1>0, <1>3, <3>1, AttemptRefines
    <3> QED
      BY <3>2 DEF Lifecycle!Next
  <2> QED
    BY <1>3, <2>1, <2>2 DEF OrderStep
<1>4. CASE UNCHANGED row \/ (pc = "update" /\ WriteBack)
  <2>1. \A q \in Position : row'[q].status = row[q].status /\ row'[q].pnl = row[q].pnl
    <3>1. CASE UNCHANGED row
      BY <3>1
    <3>2. CASE pc = "update" /\ WriteBack
      BY <3>2, <1>0 DEF WriteBack, IInv, HandInv, BatchInv, StepInv
    <3> QED
      BY <1>4, <3>1, <3>2
  <2> QED
    BY <1>3, <2>1, NextIsOrderStep
<1>5. \/ \E p \in Position, t \in Terms : OpenPosition(p, t)
      \/ (CloseRow \/ CloseRowFails) /\ MarkClosed
      \/ UNCHANGED row \/ (pc = "update" /\ WriteBack)
  <2>1. CASE Cycle
    BY <2>1 DEF Cycle, FetchOpen, SkipNoPrice, ReadPrice, SaveTrailing, PlaceOrder,
       PlaceOrderFails, SaveOrder, SaveOrderFails, CloseRow, table
  <2>2. CASE Faulty
    BY <2>2 DEF Faulty, ReadPriceFails, SaveTrailingFails, CloseRowFails, Crash, table
  <2>3. CASE Environment
    BY <2>3 DEF Environment, ExpireTicker, CacheTicker, Stop, Start, table
  <2>4. CASE UNCHANGED vars
    BY <2>4 DEF vars, table
  <2> QED
    BY <2>1, <2>2, <2>3, <2>4 DEF Next
<1> QED
  BY <1>1, <1>2, <1>4, <1>5

\* The monitor and the executor keep the life cycle the rest of the agent
\* counts on: opened once, closed once after at least one closing order, with
\* no order after the close.
THEOREM MonitorImplementsLifecycle == Spec => ImplementsLifecycle
<1>1. Init => Lifecycle!Init
  BY DEF Init, Lifecycle!Init, AbsentRow
<1>2. (IInv /\ StepInv) /\ [Next]_vars => [Lifecycle!Next]_(Lifecycle!vars)
  BY NextRefines
<1> QED
  BY <1>1, <1>2, StepInvariantHolds, PTL DEF Spec, ImplementsLifecycle, Lifecycle!Spec

-----------------------------------------------------------------------------
(* The trailing stop follows the best price read.                          *)

\* The stop the monitor holds for a row: the one about to be saved, if any.
Held(p) == IF pc = "update" /\ p = cur THEN batch[p].trail ELSE row[p].trail

\* A stop is not tighter than the distance to the best price read allows.
Tight(p, stop) ==
    stop # None =>
        \/ stop = row[p].terms.trail
        \/ seen[p] # None /\ AtLeast(row[p].terms.side, Candidate(row[p], seen[p]), stop)

\* Nor is it looser.
Current(p, stop) ==
    seen[p] # None =>
        stop # None /\ AtLeast(row[p].terms.side, stop, Candidate(row[p], seen[p]))

Tracked(p) ==
    row[p].status = "open" /\ row[p].terms.dist # None =>
        /\ Tight(p, row[p].trail) /\ Tight(p, Held(p))
        /\ faults = 0 => Current(p, Held(p))

\* Both are true of the stop in hand, and the first of the saved one too; no
\* price was read for a row before it was there.
TrackInv ==
    \A p \in Position : Tracked(p) /\ (row[p].status = "absent" => seen[p] = None)

\* The best price is at least as good as both it was chosen from, and is one
\* of them.
LEMMA BestFacts ==
    ASSUME NEW pos \in Row, pos.terms \in Terms, pos.terms.dist # None,
           NEW a \in Price \cup {None}, NEW x \in Price
    PROVE  LET b == Best(pos.terms.side, a, x)
           IN  /\ b \in Price /\ (b = a \/ b = x)
               /\ AtLeast(pos.terms.side, Candidate(pos, b), Candidate(pos, x))
               /\ a # None => AtLeast(pos.terms.side, Candidate(pos, b), Candidate(pos, a))
               /\ b # x => a # None /\ b = a
<1>1. pos.terms.side \in Side /\ pos.terms.dist \in Int
  BY TermsAssumption DEF TermsType
<1>2. x \in Int /\ (a # None => a \in Int) /\ x # None
  BY PriceAssumption, NoneAssumption
<1> QED
  BY <1>1, <1>2 DEF Best, Better, AtLeast, Candidate, Side

\* AtLeast is transitive on numbers.
LEMMA AtLeastTrans ==
    ASSUME NEW side, NEW a \in Int, NEW b \in Int, NEW c \in Int,
           AtLeast(side, a, b), AtLeast(side, b, c)
    PROVE  AtLeast(side, a, c)
BY DEF AtLeast

\* A step that reads no price for a row, and at most saves its held stop.
LEMMA TrackedKeeps ==
    ASSUME NEW p \in Position, Tracked(p), row[p].status = "open",
           row'[p].terms = row[p].terms, seen'[p] = seen[p],
           row'[p].trail = row[p].trail \/ row'[p].trail = Held(p),
           Held(p)' = Held(p) \/ (Held(p)' = row'[p].trail /\ faults' # 0),
           faults' = faults \/ faults' # 0
    PROVE  Tracked(p)'
BY DEF Tracked, Tight, Current, AtLeast, Candidate

\* A step that leaves a row, its best price and its held stop alone.
LEMMA SameRowKeeps ==
    ASSUME TrackInv, NEW p \in Position, row'[p] = row[p], seen'[p] = seen[p],
           Held(p)' = Held(p), faults' = faults \/ faults' # 0
    PROVE  Tracked(p)' /\ (row'[p].status = "absent" => seen'[p] = None)
BY DEF TrackInv, Tracked, Tight, Current, AtLeast, Candidate

\* A price is read for a row of the batch.
LEMMA ReadPriceTracks ==
    ASSUME IInv, TrackInv, NEW p \in Position, ReadPrice(p)
    PROVE  TrackInv'
<1> DEFINE x == quote[SymbolOf[p]]
           b == seen'[p]
<1>1. /\ pc = "scan" /\ p \in DOMAIN batch /\ x \in Price /\ UNCHANGED <<row, quote, faults>>
      /\ batch[p] = row[p] /\ row[p].status = "open" /\ row[p].terms \in Terms
      /\ row[p] \in Row /\ row[p].trail \in Int \cup {None} /\ cur = None
      /\ seen \in [Position -> Price \cup {None}] /\ batch \in [DOMAIN batch -> Row]
  <2>1. /\ pc = "scan" /\ p \in DOMAIN batch /\ x # None
        /\ UNCHANGED <<row, quote, faults>>
    BY DEF ReadPrice
  <2>2. /\ row \in [Position -> Row] /\ x \in Price \cup {None}
        /\ seen \in [Position -> Price \cup {None}] /\ batch \in [DOMAIN batch -> Row]
    BY SymbolAssumption DEF IInv, TypeOK
  <2>3. batch[p] = row[p] /\ row[p].status = "open" /\ row[p].terms \in Terms /\ cur = None
    BY <2>1 DEF IInv, BatchInv, TermsInv, HandInv
  <2> QED
    BY <2>1, <2>2, <2>3 DEF Row
<1>2. seen' = [seen EXCEPT ![p] = Best(row[p].terms.side, @, x)]
  BY <1>1 DEF ReadPrice
<1>3. \/ /\ Ratchets(row[p], x) /\ pc' = "update" /\ cur' = p
         /\ batch' = [batch EXCEPT ![p].trail = Candidate(row[p], x)]
      \/ ~Ratchets(row[p], x) /\ pc' # "update"
  BY <1>1 DEF ReadPrice, Evaluate, Finish, CallExecute
<1>4. ASSUME NEW q \in Position, q # p
      PROVE  Tracked(q)' /\ (row'[q].status = "absent" => seen'[q] = None)
  <2>1. Held(q)' = Held(q) /\ seen'[q] = seen[q]
    BY <1>1, <1>2, <1>3, <1>4 DEF Held
  <2> QED
    BY <1>1, <2>1 DEF Tracked, Tight, Current, AtLeast, Candidate, TrackInv
<1>5. SUFFICES ASSUME row[p].terms.dist # None
               PROVE  Tracked(p)'
  BY <1>1, <1>4, <1>5 DEF TrackInv, Tracked
<1>6. b = Best(row[p].terms.side, seen[p], x)
  BY <1>1, <1>2
<1>7. /\ b \in Price /\ (b = seen[p] \/ b = x)
      /\ AtLeast(row[p].terms.side, Candidate(row[p], b), Candidate(row[p], x))
      /\ seen[p] # None =>
            AtLeast(row[p].terms.side, Candidate(row[p], b), Candidate(row[p], seen[p]))
      /\ b # x => seen[p] # None /\ b = seen[p]
  <2>1. /\ row[p] \in Row /\ row[p].terms \in Terms
        /\ seen[p] \in Price \cup {None} /\ x \in Price
    BY <1>1
  <2> HIDE DEF x, b
  <2> QED
    BY <1>5, <1>6, <2>1, BestFacts
<1>8. /\ b \in Int /\ b # None /\ x \in Int /\ row[p].terms.dist \in Int
      /\ seen[p] # None => seen[p] \in Int
  BY <1>1, <1>5, <1>7, PriceAssumption, NoneAssumption, TermsAssumption DEF TermsType
<1>9. /\ \A y \in Int : Candidate(row[p], y) \in Int
      /\ \A y \in Int : Candidate(row[p], y) # None
  BY <1>8, NoneAssumption DEF Candidate
<1>10. Held(p) = row[p].trail /\ Tight(p, row[p].trail) /\ (faults = 0 => Current(p, row[p].trail))
  BY <1>1, <1>5 DEF Held, TrackInv, Tracked
<1>11. Tight(p, row[p].trail)'
  <2>1. SUFFICES ASSUME row[p].trail # None, row[p].trail # row[p].terms.trail
                 PROVE  AtLeast(row[p].terms.side, Candidate(row[p], b), row[p].trail)
    BY <1>1, <1>8 DEF Tight
  <2>2. seen[p] # None /\ AtLeast(row[p].terms.side, Candidate(row[p], seen[p]), row[p].trail)
    BY <1>10, <2>1 DEF Tight
  <2> QED
    BY <1>1, <1>7, <1>8, <1>9, <2>1, <2>2, AtLeastTrans
<1>12. CASE Ratchets(row[p], x)
  <2> DEFINE c == Candidate(row[p], x)
  <2>1. Held(p)' = c
    BY <1>1, <1>3, <1>12 DEF Held, Row
  <2>2. Tight(p, c)'
    BY <1>1, <1>7, <1>8 DEF Tight
  <2>3. ASSUME faults = 0
        PROVE  AtLeast(row[p].terms.side, c, Candidate(row[p], b))
    <3>1. CASE b = x
      BY <3>1, <1>8, <1>9 DEF AtLeast
    <3>2. CASE b # x
      <4>1. /\ b = seen[p] /\ row[p].trail \in Int
            /\ AtLeast(row[p].terms.side, row[p].trail, Candidate(row[p], b))
        BY <1>1, <1>7, <1>10, <2>3, <3>2 DEF Current
      <4>2. AtLeast(row[p].terms.side, c, row[p].trail)
        BY <1>12, <4>1, NoneAssumption DEF Ratchets, Better
      <4> QED
        BY <1>8, <1>9, <4>1, <4>2, AtLeastTrans
    <3> QED
      BY <3>1, <3>2
  <2> QED
    BY <1>1, <1>9, <1>8, <1>11, <2>1, <2>2, <2>3 DEF Tracked, Current
<1>13. CASE ~Ratchets(row[p], x)
  <2>1. Held(p)' = row[p].trail
    BY <1>1, <1>3, <1>13 DEF Held
  <2>2. row[p].trail \in Int /\ AtLeast(row[p].terms.side, row[p].trail, Candidate(row[p], x))
    BY <1>1, <1>5, <1>8, <1>9, <1>13 DEF Ratchets, Better, AtLeast
  <2>3. ASSUME faults = 0
        PROVE  AtLeast(row[p].terms.side, row[p].trail, Candidate(row[p], b))
    BY <1>7, <1>10, <2>2, <2>3 DEF Current
  <2> QED
    BY <1>1, <1>11, <2>1, <2>2, <2>3, NoneAssumption DEF Tracked, Current
<1> QED
  BY <1>12, <1>13

\* Every other step leaves the best prices alone; what it does to the rows and
\* to the stops held is one of four things.
LEMMA NextTracks ==
    ASSUME IInv, TrackInv, [Next]_vars
    PROVE  TrackInv'
<1>0. /\ row \in [Position -> Row] /\ DOMAIN batch \subseteq Position
      /\ seen \in [Position -> Price \cup {None}]
      /\ pc \in InHand \cup {"update"} => cur \in DOMAIN batch
      /\ \A q \in DOMAIN batch : row[q].status = "open" /\ batch[q].status = "open"
                              /\ batch[q].terms = row[q].terms
  BY DEF IInv, TypeOK, HandInv, BatchInv
<1>a. faults \in Nat
  BY FaultsAssumption DEF IInv, TypeOK
<1>b. Fault => faults' # 0
  BY <1>a DEF Fault
<1>1. CASE \E p \in Position : ReadPrice(p)
  BY <1>1, ReadPriceTracks
\* The rows stay as they are, and so do the stops held.
<1>2. ASSUME UNCHANGED <<row, seen>>, faults' = faults \/ faults' # 0,
             \/ pc # "update" /\ pc' # "update"
             \/ UNCHANGED <<pc, batch, cur>>
             \/ faults' # 0 /\ pc' # "update"
      PROVE  TrackInv'
  <2>1. ASSUME NEW p \in Position
        PROVE  Held(p)' = Held(p) \/ (Held(p)' = row'[p].trail /\ faults' # 0)
    BY <1>2 DEF Held
  <2>2. ASSUME NEW p \in Position, row[p].status = "open"
        PROVE  Tracked(p)'
    BY <1>2, <2>1, <2>2, TrackedKeeps, ZenonT(30) DEF TrackInv
  <2> QED
    BY <1>2, <2>2 DEF TrackInv, Tracked
\* The stop held for a row is saved.
<1>3. ASSUME pc = "update", WriteBack, UNCHANGED seen, pc' # "update",
             faults' = faults \/ faults' # 0
      PROVE  TrackInv'
  <2>1. /\ cur \in Position /\ row'[cur] = batch[cur] /\ row[cur].status = "open"
        /\ \A q \in Position \ {cur} : row'[q] = row[q]
    BY <1>0, <1>3 DEF WriteBack
  <2>2. ASSUME NEW p \in Position
        PROVE  /\ row'[p].status = row[p].status
               /\ row'[p].terms = row[p].terms
               /\ row'[p].trail = Held(p) /\ Held(p)' = Held(p)
    BY <1>0, <1>3, <2>1 DEF Held
  <2>3. ASSUME NEW p \in Position, row[p].status = "open"
        PROVE  Tracked(p)'
    BY <1>3, <2>2, <2>3, TrackedKeeps, ZenonT(30) DEF TrackInv
  <2> QED
    BY <1>3, <2>2, <2>3 DEF TrackInv, Tracked
\* A row is closed.
<1>4. ASSUME pc = "close", MarkClosed, UNCHANGED seen, pc' # "update",
             faults' = faults \/ faults' # 0
      PROVE  TrackInv'
  <2>1. /\ cur \in Position /\ row'[cur].status = "closed" /\ row[cur].status = "open"
        /\ \A q \in Position \ {cur} : row'[q] = row[q]
    BY <1>0, <1>4, MarkClosedFacts DEF InHand
  <2>2. ASSUME NEW p \in Position, p # cur
        PROVE  Tracked(p)' /\ (row'[p].status = "absent" => seen'[p] = None)
    <3>1. Held(p)' = Held(p) /\ row'[p] = row[p] /\ seen'[p] = seen[p]
      BY <1>4, <2>1, <2>2 DEF Held
    <3> QED
      BY <1>4, <3>1, SameRowKeeps
  <2> QED
    BY <2>1, <2>2 DEF TrackInv, Tracked
\* A row appears.
<1>5. ASSUME NEW p \in Position, NEW t \in Terms, OpenPosition(p, t)
      PROVE  TrackInv'
  <2>1. /\ row[p].status = "absent" /\ UNCHANGED <<seen, pc, batch, cur, faults>>
        /\ row'[p].status = "open" /\ row'[p].terms = t /\ row'[p].trail = t.trail
        /\ \A q \in Position \ {p} : row'[q] = row[q]
    BY <1>0, <1>5 DEF OpenPosition, local, AbsentRow
  <2>2. ASSUME NEW q \in Position, q # p
        PROVE  Tracked(q)' /\ (row'[q].status = "absent" => seen'[q] = None)
    <3>1. Held(q)' = Held(q) /\ row'[q] = row[q] /\ seen'[q] = seen[q]
      BY <2>1, <2>2 DEF Held
    <3> QED
      BY <2>1, <3>1, SameRowKeeps
  <2>3. Held(p)' = t.trail /\ seen'[p] = None
    BY <1>0, <2>1 DEF Held, TrackInv
  <2> QED
    BY <2>1, <2>2, <2>3 DEF TrackInv, Tracked, Tight, Current
<1>6. CASE SaveTrailing \/ SaveTrailingFails
  <2>1. pc = "update" /\ UNCHANGED seen /\ pc' # "update"
    BY <1>6 DEF SaveTrailing, SaveTrailingFails, Evaluate, CallExecute, Finish
  <2>2. CASE SaveTrailing
    <3>1. WriteBack /\ UNCHANGED faults
      BY <2>2 DEF SaveTrailing
    <3> QED
      BY <1>3, <2>1, <3>1
  <2>3. CASE SaveTrailingFails
    <3>1. WriteBack \/ UNCHANGED row
      BY <2>3 DEF SaveTrailingFails
    <3>2. Fault
      BY <2>3, Zenon DEF SaveTrailingFails
    <3> QED
      BY <1>b, <1>2, <1>3, <2>1, <3>1, <3>2
  <2> QED
    BY <1>6, <2>2, <2>3
<1>7. CASE CloseRow \/ CloseRowFails
  <2>1. pc = "close" /\ UNCHANGED seen /\ pc' # "update"
    BY <1>7 DEF CloseRow, CloseRowFails, Finish
  <2>2. CASE CloseRow
    <3>1. MarkClosed /\ UNCHANGED faults
      BY <2>2 DEF CloseRow
    <3> QED
      BY <1>4, <2>1, <3>1
  <2>3. CASE CloseRowFails
    <3>1. MarkClosed \/ UNCHANGED row
      BY <2>3 DEF CloseRowFails
    <3>2. Fault
      BY <2>3, Zenon DEF CloseRowFails
    <3> QED
      BY <1>b, <1>2, <1>4, <2>1, <3>1, <3>2
  <2> QED
    BY <1>7, <2>2, <2>3
<1>8. CASE \/ FetchOpen \/ (\E p \in Position : SkipNoPrice(p) \/ ReadPriceFails(p))
           \/ PlaceOrder \/ PlaceOrderFails \/ SaveOrder \/ SaveOrderFails
  <2>1. UNCHANGED <<row, seen>> /\ pc # "update" /\ pc' # "update"
    BY <1>8 DEF FetchOpen, SkipNoPrice, ReadPriceFails, PlaceOrder, PlaceOrderFails,
       SaveOrder, SaveOrderFails, Finish, table
  <2>2. UNCHANGED faults \/ Fault
    BY <1>8, Zenon DEF FetchOpen, SkipNoPrice, ReadPriceFails, PlaceOrder, PlaceOrderFails,
       SaveOrder, SaveOrderFails
  <2> QED
    BY <1>b, <1>2, <2>1, <2>2
<1>9. CASE Crash
  <2>1. UNCHANGED <<row, seen>> /\ pc' # "update"
    BY <1>9 DEF Crash, table
  <2>2. Fault
    BY <1>9, Zenon DEF Crash
  <2> QED
    BY <1>b, <1>2, <2>1, <2>2
<1>10. CASE \/ \E s \in Symbol : ExpireTicker(s) \/ \E x \in Price : CacheTicker(s, x)
            \/ Stop \/ Start \/ UNCHANGED vars
  <2>1. UNCHANGED <<row, seen, pc, batch, cur, faults>>
    BY <1>10 DEF ExpireTicker, CacheTicker, Stop, Start, table, local, vars
  <2> QED
    BY <1>2, <2>1
<1> QED
  BY <1>1, <1>5, <1>6, <1>7, <1>8, <1>9, <1>10 DEF Next, Cycle, Faulty, Environment

\* Between visits the saved stop is where the distance to the best price ever
\* read puts it: never tighter, and without a fault never looser
\* (_update_trailing_stop, update_position).
THEOREM TrailFollowsBest == Spec => []TrailTracksBest
<1>1. Init => TrackInv
  <2> SUFFICES ASSUME Init, NEW p \in Position
               PROVE  row[p].status = "absent" /\ seen[p] = None
    BY DEF TrackInv, Tracked
  <2> QED
    BY DEF Init, AbsentRow
<1>2. (IInv /\ TrackInv) /\ [Next]_vars => (IInv /\ TrackInv)'
  BY NextKeepsIInv, NextTracks
<1>3. IInv /\ TrackInv => TrailTracksBest
  <2> SUFFICES ASSUME IInv, TrackInv, NEW p \in OpenRows \ {cur},
                      row[p].terms.dist # None, seen[p] # None
               PROVE  /\ row[p].trail # None =>
                            \/ row[p].trail = row[p].terms.trail
                            \/ AtLeast(row[p].terms.side, Candidate(row[p], seen[p]),
                                       row[p].trail)
                      /\ faults = 0 =>
                            /\ row[p].trail # None
                            /\ AtLeast(row[p].terms.side, row[p].trail,
                                       Candidate(row[p], seen[p]))
    BY DEF TrailTracksBest
  <2>1. p \in Position /\ row[p].status = "open" /\ Held(p) = row[p].trail
    BY DEF OpenRows, Held
  <2> QED
    BY <2>1 DEF TrackInv, Tracked, Tight, Current
<1> QED
  BY <1>1, <1>2, <1>3, InitIInv, PTL DEF Spec
=============================================================================
