---------------------------- MODULE SocketClient ----------------------------
(***************************************************************************)
(* The dashboard's WebSocketClient (api/websocketClient.ts) under the page *)
(* that mounts and unmounts it (hooks/useWebSocketLifecycle.ts).  The      *)
(* browser runs one callback at a time: a call of the page, a timer or a   *)
(* socket event is one action.  close() only begins to close a socket; its *)
(* close event comes later, and every socket ever made keeps the handlers  *)
(* that write the client's fields.                                         *)
(***************************************************************************)
EXTENDS Naturals, FiniteSets

CONSTANTS
    Socket,         \* sockets that can exist at once; closed ones are used again
    MaxMounts,      \* bound on how often the page is mounted
    MaxDrops,       \* bound on the connections the network refuses or drops
    None

ASSUME SocketAssumption ==
    /\ None \notin Socket
    /\ MaxMounts \in Nat
    /\ MaxDrops \in Nat

VARIABLES
    mounted,        \* the page's effect is in place, its handlers subscribed
    ready,          \* readyState of each socket
    socket,         \* the field socket
    explicit,       \* isExplicitlyClosed
    timer,          \* reconnectTimer is armed
    attempt,        \* reconnectAttempt
    state,          \* currentState, which the mounted page shows
    overlapped,     \* the page was mounted while an earlier socket was closing
    mounts, drops

client == <<socket, explicit, timer, attempt, state>>
vars   == <<mounted, ready, client, overlapped, mounts, drops>>

Live    == {s \in Socket : ready[s] \in {"connecting", "open"}}
Closing == {s \in Socket : ready[s] = "closing"}

Init ==
    /\ mounted = FALSE
    /\ ready = [s \in Socket |-> "closed"]
    /\ socket = None
    /\ explicit = FALSE /\ timer = FALSE /\ attempt = 0
    /\ state = "closed"
    /\ overlapped = FALSE /\ mounts = 0 /\ drops = 0

-----------------------------------------------------------------------------
\* new WebSocket(url)
Create(s) ==
    /\ ready[s] = "closed"
    /\ ready' = [ready EXCEPT ![s] = "connecting"]
    /\ socket' = s

ScheduleReconnect ==
    /\ state' = "reconnecting"
    /\ attempt' = attempt + 1
    /\ timer' = TRUE

\* openConnection: a socket is created, or the constructor throws.
OpenConnection ==
    \/ /\ \E s \in Socket : Create(s)
       /\ state' = IF attempt > 0 THEN "reconnecting" ELSE "connecting"
       /\ timer' = FALSE
       /\ UNCHANGED <<attempt, drops>>
    \/ /\ drops < MaxDrops /\ drops' = drops + 1
       /\ ScheduleReconnect
       /\ UNCHANGED <<ready, socket>>

\* The socket of the field is CONNECTING or OPEN.
Connected == socket # None /\ ready[socket] \in {"connecting", "open"}

KeepExplicit  == UNCHANGED explicit \* mutant: connect() leaves the flag alone
ClearExplicit == explicit' = FALSE

\* The effect: subscribe, then connect().  Subscribing shows the state at once.
Mount ==
    /\ ~mounted
    /\ mounts < MaxMounts /\ mounts' = mounts + 1
    /\ mounted' = TRUE
    /\ overlapped' = (overlapped \/ Closing # {})
    /\ IF Connected
       THEN timer' = FALSE /\ UNCHANGED <<ready, socket, explicit, attempt, state, drops>>
       ELSE ClearExplicit /\ OpenConnection

\* Mutant: disconnect() lets the timer run.
DisconnectKeepsTimer ==
    /\ explicit' = TRUE
    /\ socket' = None
    /\ ready' = [s \in Socket |-> IF s = socket THEN "closing" ELSE ready[s]]
    /\ state' = "closed"
    /\ UNCHANGED timer

\* disconnect()
Disconnect ==
    /\ explicit' = TRUE
    /\ timer' = FALSE
    /\ socket' = None
    /\ ready' = [s \in Socket |-> IF s = socket THEN "closing" ELSE ready[s]]
    /\ state' = "closed"

\* The effect's cleanup.
Unmount ==
    /\ mounted
    /\ mounted' = FALSE
    /\ Disconnect
    /\ UNCHANGED <<attempt, overlapped, mounts, drops>>

TimerFires ==
    /\ timer
    /\ OpenConnection
    /\ UNCHANGED <<mounted, explicit, overlapped, mounts>>

-----------------------------------------------------------------------------
(* Socket events.                                                          *)

\* onopen
Opens(s) ==
    /\ ready[s] = "connecting"
    /\ ready' = [ready EXCEPT ![s] = "open"]
    /\ attempt' = 0
    /\ state' = "open"
    /\ UNCHANGED <<mounted, socket, explicit, timer, overlapped, mounts, drops>>

\* The server closes, the network fails, or nobody answers.
Drops(s) ==
    /\ ready[s] \in {"connecting", "open"}
    /\ drops < MaxDrops /\ drops' = drops + 1
    /\ ready' = [ready EXCEPT ![s] = "closing"]
    /\ UNCHANGED <<mounted, client, overlapped, mounts>>

\* Mutant: the badge is told of the close only when it was asked for.
CloseHandledQuietly ==
    IF explicit THEN state' = "closed" /\ UNCHANGED <<attempt, timer>>
    ELSE attempt' = attempt + 1 /\ timer' = TRUE /\ UNCHANGED state

\* What onclose does next.
CloseHandled ==
    IF explicit THEN state' = "closed" /\ UNCHANGED <<attempt, timer>>
    ELSE ScheduleReconnect

\* onclose: it clears the field, whichever socket the field holds.
CloseEvent(s) ==
    /\ ready[s] = "closing"
    /\ ready' = [ready EXCEPT ![s] = "closed"]
    /\ socket' = None
    /\ CloseHandled
    /\ UNCHANGED <<mounted, explicit, overlapped, mounts, drops>>

-----------------------------------------------------------------------------
Next ==
    \/ Mount \/ Unmount \/ TimerFires
    \/ \E s \in Socket : Opens(s) \/ Drops(s) \/ CloseEvent(s)

Spec == Init /\ [][Next]_vars

\* Timers fire, closing sockets close, and a socket the network does not drop
\* opens.
FairSpec ==
    /\ Spec
    /\ WF_vars(TimerFires)
    /\ \A s \in Socket : WF_vars(Opens(s)) /\ WF_vars(CloseEvent(s))
-----------------------------------------------------------------------------
(* Properties.                                                             *)

State == {"connecting", "open", "closed", "reconnecting"}

\* Every variable keeps its type.
TypeOK ==
    /\ mounted \in BOOLEAN
    /\ ready \in [Socket -> {"closed", "connecting", "open", "closing"}]
    /\ socket \in Socket \cup {None}
    /\ explicit \in BOOLEAN /\ timer \in BOOLEAN
    /\ attempt \in Nat
    /\ state \in State
    /\ overlapped \in BOOLEAN
    /\ mounts \in 0 .. MaxMounts /\ drops \in 0 .. MaxDrops

\* There is one connection, the one of the field, and none once the page is
\* gone, unless the page was mounted while an earlier socket was still
\* closing: only then can the close event of one socket make the client
\* forget another, which keeps delivering every message a second time.
OneConnection ==
    ~overlapped =>
        /\ Live \subseteq {socket}
        /\ timer => Live = {}
        /\ ~mounted => Live = {} /\ ~timer

\* A mounted page is never stranded: there is always a socket that may still
\* open, one whose close event is due, or a timer that will make another.
NeverStranded == mounted => timer \/ Live # {} \/ Closing # {}

\* The client does not say "open" without a socket that is open or whose close
\* event is still due.
BadgeIsHonest ==
    state = "open" => \E s \in Socket : ready[s] \in {"open", "closing"}

\* A page that stays mounted gets a connection, in the end, after any number of
\* refused and dropped ones.
ComesBack == mounted ~> (~mounted \/ \E s \in Socket : ready[s] = "open")

\* "connect() while OPEN returns early without creating a new socket"
\* (api/websocketClient.test.ts): the page's connect() makes no socket while
\* one of the client's is open.
ConnectMakesNoSecondSocket ==
    [][~mounted /\ mounted' /\ (\E s \in Socket : ready[s] = "open") =>
          Live' \subseteq Live]_vars
=============================================================================
