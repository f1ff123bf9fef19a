---------------------------- MODULE CandleFates ----------------------------
(***************************************************************************)
(* What the rest of the agent may rely on about closed candles, without    *)
(* the queues and tasks they pass through.  A connection delivers closes   *)
(* in the order of the candles; several connections may deliver the same   *)
(* one.  Each close that arrives is decided on or given up, once and for   *)
(* good.  Decisions are made on the oldest arrival that has no fate yet.   *)
(* One is given up when it arrives, when it is itself the oldest, or       *)
(* because it finds as many older ones ahead of it as may wait.            *)
(***************************************************************************)
EXTENDS Integers, Sequences, FiniteSets

CONSTANTS
    LastCandle,     \* bound: candles 1 .. LastCandle close
    MaxConnections, \* bound on the connections that deliver them
    MayWait         \* closes that may wait for a decision

VARIABLES
    arrivals,       \* the closes that arrived: the candle, the connection
    open,           \* the numbers of those that have no fate yet
    decisions,      \* those decided on, in that order
    givenUp         \* those given up

vars == <<arrivals, open, decisions, givenUp>>

Init ==
    /\ arrivals = << >>
    /\ open = {}
    /\ decisions = << >>
    /\ givenUp = {}

Older(n) == {m \in open : m < n}

Arrive(t, c) ==
    /\ \A n \in DOMAIN arrivals : arrivals[n].by = c => arrivals[n].t < t
    /\ arrivals' = Append(arrivals, [t |-> t, by |-> c])
    /\ \/ open' = open \cup {Len(arrivals) + 1} /\ UNCHANGED givenUp
       \/ givenUp' = givenUp \cup {Len(arrivals) + 1} /\ UNCHANGED open
    /\ UNCHANGED decisions

Decide(n) ==
    /\ n \in open /\ Older(n) = {}
    /\ decisions' = Append(decisions, n)
    /\ open' = open \ {n}
    /\ UNCHANGED <<arrivals, givenUp>>

GiveUp(n) ==
    /\ n \in open
    /\ Older(n) = {} \/ Cardinality(Older(n)) >= MayWait
    /\ givenUp' = givenUp \cup {n}
    /\ open' = open \ {n}
    /\ UNCHANGED <<arrivals, decisions>>

Next ==
    \/ \E t \in 1 .. LastCandle, c \in 1 .. MaxConnections : Arrive(t, c)
    \/ \E n \in open : Decide(n) \/ GiveUp(n)

Spec == Init /\ [][Next]_vars
=============================================================================
