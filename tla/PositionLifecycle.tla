------------------------- MODULE PositionLifecycle -------------------------
(***************************************************************************)
(* What the rest of the agent may rely on about the positions table,       *)
(* without saying how the monitor does it.  A row is opened once, closed   *)
(* once with its realized PnL, and never changes after that.  A closing    *)
(* order goes to the exchange only while its row is open, and a row is     *)
(* closed only after at least one such attempt: an exit is delivered at    *)
(* least once, and a second delivery happens only before the close is      *)
(* recorded.                                                               *)
(***************************************************************************)
EXTENDS Integers

CONSTANTS
    Position,               \* ids of the rows of the positions table
    Amount,                 \* realized PnLs a close can record
    None

VARIABLES
    status,                 \* status[p]: the row's status, "absent" before it exists
    pnl,                    \* pnl[p]: realized_pnl, None until the row is closed
    attempts                \* attempts[p]: closing orders asked of the executor for p

vars == <<status, pnl, attempts>>

Init ==
    /\ status = [p \in Position |-> "absent"]
    /\ pnl = [p \in Position |-> None]
    /\ attempts = [p \in Position |-> 0]

Open(p) ==
    /\ status[p] = "absent"
    /\ status' = [status EXCEPT ![p] = "open"]
    /\ UNCHANGED <<pnl, attempts>>

Attempt(p) ==
    /\ status[p] = "open"
    /\ attempts' = [attempts EXCEPT ![p] = @ + 1]
    /\ UNCHANGED <<status, pnl>>

Close(p, x) ==
    /\ status[p] = "open"
    /\ attempts[p] > 0
    /\ status' = [status EXCEPT ![p] = "closed"]
    /\ pnl' = [pnl EXCEPT ![p] = x]
    /\ UNCHANGED attempts

Next ==
    \E p \in Position : Open(p) \/ Attempt(p) \/ \E x \in Amount : Close(p, x)

Spec == Init /\ [][Next]_vars
=============================================================================
