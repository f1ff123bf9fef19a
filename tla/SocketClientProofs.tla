------------------------- MODULE SocketClientProofs -------------------------
(***************************************************************************)
(* Proofs about SocketClient: the client keeps one connection unless it is *)
(* mounted over a closing socket, never strands a mounted page and never   *)
(* says "open" without a socket.                                           *)
(*                                                                         *)
(* The inductive invariant says who owns what.  An unmounted client has    *)
(* neither a field nor a timer, and closes in silence; a mounted one has   *)
(* its flag down, so that a close event is answered with a timer.  Without *)
(* an overlapping mount every socket that is not closed is the one of the  *)
(* field, which is what makes a close event clear the right field.         *)
(***************************************************************************)
EXTENDS SocketClient, TLAPS

Used == {s \in Socket : ready[s] # "closed"}

Unmounted == ~mounted => socket = None /\ ~timer /\ (explicit \/ Used = {})
Mounted   == mounted => ~explicit

OneOwner ==
    ~overlapped =>
        /\ ~mounted => Live = {}
        /\ mounted => Used \subseteq {socket} /\ (timer => Used = {})

IInv ==
    /\ TypeOK
    /\ Unmounted
    /\ Mounted
    /\ OneOwner
    /\ NeverStranded
    /\ BadgeIsHonest

\* Facts about one new socket, whatever asked for it.
LEMMA OpenFacts ==
    ASSUME TypeOK, OpenConnection
    PROVE  /\ ready' \in [Socket -> {"closed", "connecting", "open", "closing"}]
           /\ socket' \in Socket \cup {None}
           /\ timer' \in BOOLEAN /\ attempt' \in Nat /\ state' \in State
           /\ drops' \in 0 .. MaxDrops
           /\ state' # "open"
           /\ \/ timer' /\ UNCHANGED <<ready, socket>>
              \/ /\ ~timer'
                 /\ socket' \in Socket
                 /\ ready' = [ready EXCEPT ![socket'] = "connecting"]
  <1>1. CASE \E s \in Socket : Create(s)
    BY <1>1, SocketAssumption DEF TypeOK, OpenConnection, Create, ScheduleReconnect, State
  <1>2. CASE ScheduleReconnect
    BY <1>2, SocketAssumption DEF TypeOK, OpenConnection, Create, ScheduleReconnect, State
  <1> QED  BY <1>1, <1>2 DEF OpenConnection

LEMMA Inductive == IInv /\ [Next]_vars => IInv'
  <1> SUFFICES ASSUME IInv, [Next]_vars PROVE IInv'
    OBVIOUS
  <1> USE SocketAssumption DEF IInv
  <1>1. CASE Mount
    <2>1. ~Connected
      BY <1>1 DEF Mount, Unmounted, Connected
    <2>2. explicit' = FALSE /\ OpenConnection /\ mounted' /\ ~mounted
      BY <1>1, <2>1 DEF Mount, ClearExplicit
    <2>3. TypeOK'
      <3>1. mounts' \in 0 .. MaxMounts
        BY <1>1 DEF Mount, TypeOK
      <3>2. overlapped' \in BOOLEAN
        BY <1>1 DEF Mount
      <3> QED  BY <2>2, <3>1, <3>2, OpenFacts DEF TypeOK
    <2>4. ~overlapped' => ~overlapped /\ Closing = {}
      BY <1>1 DEF Mount, TypeOK
    <2>5. ~overlapped' => Used = {}
      BY <2>2, <2>4 DEF OneOwner, Live, Closing, Used, TypeOK
    <2>6. OneOwner'
      BY <2>2, <2>5, OpenFacts DEF OneOwner, Used, TypeOK
    <2>7. NeverStranded'
      BY <2>2, OpenFacts DEF NeverStranded, Live, TypeOK
    <2> QED  BY <2>2, <2>3, <2>6, <2>7, OpenFacts DEF Unmounted, Mounted, BadgeIsHonest
  <1>2. CASE Unmount
    <2>1. TypeOK'
      BY <1>2 DEF Unmount, Disconnect, TypeOK, State
    <2>2. OneOwner'
      BY <1>2 DEF Unmount, Disconnect, OneOwner, Live, Used, TypeOK
    <2> QED  BY <1>2, <2>1, <2>2 DEF Unmount, Disconnect, Unmounted, Mounted,
                                     NeverStranded, BadgeIsHonest
  <1>3. CASE TimerFires
    <2>1. mounted /\ mounted' /\ ~explicit' /\ OpenConnection
      BY <1>3 DEF TimerFires, Unmounted, Mounted
    <2>2. TypeOK'
      BY <1>3, OpenFacts DEF TimerFires, TypeOK
    <2>3. OneOwner'
      BY <1>3, <2>1, OpenFacts DEF TimerFires, OneOwner, Used, TypeOK
    <2>4. NeverStranded'
      BY <2>1, OpenFacts DEF NeverStranded, Live, TypeOK
    <2> QED  BY <2>1, <2>2, <2>3, <2>4, OpenFacts DEF Unmounted, Mounted, BadgeIsHonest
  <1>4. ASSUME NEW s \in Socket, Opens(s) PROVE IInv'
    <2>1. TypeOK'
      BY <1>4 DEF Opens, TypeOK, State
    <2>2. Unmounted' /\ Mounted' /\ OneOwner'
      BY <1>4 DEF Opens, Unmounted, Mounted, OneOwner, Used, Live, TypeOK
    <2>3. NeverStranded' /\ BadgeIsHonest'
      BY <1>4 DEF Opens, NeverStranded, BadgeIsHonest, Live, TypeOK
    <2> QED  BY <2>1, <2>2, <2>3
  <1>5. ASSUME NEW s \in Socket, Drops(s) PROVE IInv'
    <2>1. TypeOK'
      BY <1>5 DEF Drops, client, TypeOK, State
    <2>2. Unmounted' /\ Mounted' /\ OneOwner'
      BY <1>5 DEF Drops, client, Unmounted, Mounted, OneOwner, Used, Live, TypeOK
    <2>3. NeverStranded' /\ BadgeIsHonest'
      BY <1>5 DEF Drops, client, NeverStranded, BadgeIsHonest, Closing, TypeOK
    <2> QED  BY <2>1, <2>2, <2>3
  <1>6. ASSUME NEW s \in Socket, CloseEvent(s) PROVE IInv'
    <2>1. TypeOK'
      <3>1. state' \in State /\ timer' \in BOOLEAN /\ attempt' \in Nat
        <4>1. CASE explicit
          BY <1>6, <4>1 DEF CloseEvent, CloseHandled, TypeOK, State
        <4>2. CASE ~explicit
          BY <1>6, <4>2 DEF CloseEvent, CloseHandled, ScheduleReconnect, TypeOK, State
        <4> QED  BY <4>1, <4>2
      <3> QED  BY <1>6, <3>1 DEF CloseEvent, TypeOK
    <2>2. s \in Used
      BY <1>6 DEF CloseEvent, Used
    <2>3. mounted => timer' /\ ~explicit
      BY <1>6 DEF CloseEvent, CloseHandled, ScheduleReconnect, Mounted
    <2>4. ~mounted => explicit /\ ~timer'
      BY <1>6, <2>2 DEF CloseEvent, CloseHandled, Unmounted
    <2>5. Unmounted' /\ Mounted' /\ NeverStranded'
      BY <1>6, <2>3, <2>4 DEF CloseEvent, Unmounted, Mounted, NeverStranded
    <2>6. OneOwner'
      <3>1. Live' \subseteq Live /\ Used' = Used \ {s}
        BY <1>6 DEF CloseEvent, Live, Used, TypeOK
      <3> QED  BY <1>6, <2>2, <3>1 DEF CloseEvent, OneOwner
    <2>7. BadgeIsHonest'
      BY <1>6 DEF CloseEvent, CloseHandled, ScheduleReconnect, BadgeIsHonest
    <2> QED  BY <2>1, <2>5, <2>6, <2>7
  <1>7. CASE UNCHANGED vars
    BY <1>7 DEF vars, client, TypeOK, Unmounted, Mounted, OneOwner, NeverStranded,
                BadgeIsHonest, Used, Live, Closing
  <1> QED  BY <1>1, <1>2, <1>3, <1>4, <1>5, <1>6, <1>7 DEF Next

THEOREM InvariantHolds == Spec => []IInv
  <1>1. Init => IInv
    <2> SUFFICES ASSUME Init PROVE IInv
      OBVIOUS
    <2>1. TypeOK
      <3>1. mounts \in 0 .. MaxMounts /\ drops \in 0 .. MaxDrops /\ attempt \in Nat
        BY SocketAssumption DEF Init
      <3>2. mounted \in BOOLEAN /\ explicit \in BOOLEAN /\ timer \in BOOLEAN
            /\ overlapped \in BOOLEAN
        BY DEF Init
      <3> QED  BY <3>1, <3>2 DEF Init, TypeOK, State
    <2>2. Used = {} /\ Live = {}
      BY DEF Init, Used, Live
    <2> QED  BY <2>1, <2>2 DEF Init, IInv, Unmounted, Mounted, OneOwner,
                               NeverStranded, BadgeIsHonest
  <1> QED  BY <1>1, Inductive, PTL DEF Spec

\* Every variable keeps its type.
THEOREM TypeCorrect == Spec => []TypeOK
  BY InvariantHolds, PTL DEF IInv

\* One connection, unless the page was mounted over a closing socket.
THEOREM OneConnectionHolds == Spec => []OneConnection
  <1>1. IInv => OneConnection
    BY DEF IInv, TypeOK, Unmounted, OneOwner, OneConnection, Used, Live
  <1> QED  BY <1>1, InvariantHolds, PTL

\* A mounted page always has a socket or a timer to wait for.
THEOREM MountedPageIsNeverStranded == Spec => []NeverStranded
  BY InvariantHolds, PTL DEF IInv

\* "open" is never said of a client without a socket.
THEOREM OpenMeansASocket == Spec => []BadgeIsHonest
  BY InvariantHolds, PTL DEF IInv
=============================================================================
