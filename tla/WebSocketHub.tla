---------------------------- MODULE WebSocketHub ----------------------------
(***************************************************************************)
(* WebSocketHub (api/websocket_hub.py) and the endpoint that registers its *)
(* sockets (api/handlers.py).  Publishers are tasks of the event loop that *)
(* await a broadcast: they snapshot the connections, then send to one      *)
(* socket after the other, suspended at every send.  The hub's lock is     *)
(* never held across an await, so it does not show.  A socket object is    *)
(* used for one connection.  A message is its kind and its number among    *)
(* the messages of that kind.  Tickers, whose rate is kept per symbol, are *)
(* those of one symbol.                                                    *)
(***************************************************************************)
EXTENDS Naturals, Sequences, FiniteSets

CONSTANTS
    Socket,         \* sockets, each good for one connection
    TickTask,       \* on_ticker tasks that can be under way at once
    ChannelCap,     \* messages a client may have unread before send_text waits
    Throttle,       \* the second between two tickers, in units of the clock
    Idle

Publisher == {"aggregator", "loop"} \cup TickTask
Message   == [kind : {"candle", "late", "decision", "ticker"}, n : Nat]
Broadcast == [msg : Message, todo : SUBSET Socket, dead : SUBSET Socket]

ASSUME HubAssumption ==
    /\ ChannelCap \in Nat \ {0}
    /\ Throttle \in Nat \ {0}
    /\ TickTask \cap {"aggregator", "loop"} = {}
    /\ Idle \notin Broadcast

VARIABLES
    peer,           \* the client's end: "new", "up" or "gone"
    endpoint,       \* the endpoint's task: "none", "accept", "serve" or "left"
    connections,    \* _connections
    sending,        \* each publisher's broadcast
    channel,        \* messages sent to a client and not read by it
    clock, lastEmit \* time.monotonic() and _last_ticker_emit

ends == <<peer, endpoint>>
tickers == <<clock, lastEmit>>
hubVars == <<ends, connections, sending, channel, tickers>>

HubInit ==
    /\ peer = [c \in Socket |-> "new"]
    /\ endpoint = [c \in Socket |-> "none"]
    /\ connections = {}
    /\ sending = [p \in Publisher |-> Idle]
    /\ channel = [c \in Socket |-> << >>]
    /\ clock = 0 /\ lastEmit = 0

-----------------------------------------------------------------------------
(* Sockets come and go.                                                    *)

Open(c) ==
    /\ peer[c] = "new"
    /\ peer' = [peer EXCEPT ![c] = "up"]
    /\ endpoint' = [endpoint EXCEPT ![c] = "accept"]
    /\ UNCHANGED <<connections, sending, channel, tickers>>

\* accept() returns and the socket is registered; if the client has gone it
\* may raise instead, and the endpoint returns.
Register(c) ==
    /\ endpoint[c] = "accept"
    /\ \/ /\ endpoint' = [endpoint EXCEPT ![c] = "serve"]
          /\ connections' = connections \cup {c}
       \/ /\ peer[c] = "gone"
          /\ endpoint' = [endpoint EXCEPT ![c] = "left"]
          /\ UNCHANGED connections
    /\ UNCHANGED <<peer, sending, channel, tickers>>

\* The connection ends, and what was not read is lost.
Vanish(c) ==
    /\ peer[c] = "up"
    /\ peer' = [peer EXCEPT ![c] = "gone"]
    /\ channel' = [channel EXCEPT ![c] = << >>]
    /\ UNCHANGED <<endpoint, connections, sending, tickers>>

\* receive_text() raises, and the finally clause forgets the socket.
Leave(c) ==
    /\ endpoint[c] = "serve" /\ peer[c] = "gone"
    /\ endpoint' = [endpoint EXCEPT ![c] = "left"]
    /\ connections' = connections \ {c}
    /\ UNCHANGED <<peer, sending, channel, tickers>>

-----------------------------------------------------------------------------
(* Broadcasts.                                                             *)

\* broadcast() up to its first await; with nobody connected it has none.
Begin(p, m) ==
    /\ sending[p] = Idle
    /\ sending' = IF connections = {} THEN sending
                  ELSE [sending EXCEPT ![p] = [msg |-> m, todo |-> connections, dead |-> {}]]

\* Mutant: a message that cannot be sent at once is left out.
Delivers(c, m) ==
    IF peer[c] = "up" /\ Len(channel[c]) < ChannelCap
    THEN channel' = [channel EXCEPT ![c] = Append(@, m)]
    ELSE UNCHANGED channel

\* A send that returns has passed the message on, or has not noticed that the
\* client is gone.
Sent(c, m) ==
    IF peer[c] = "up"
    THEN /\ Len(channel[c]) < ChannelCap
         /\ channel' = [channel EXCEPT ![c] = Append(@, m)]
    ELSE UNCHANGED channel

\* The next socket, or the end of the broadcast, which removes the sockets that
\* raised.
SendNext(p, c, raised) ==
    LET b    == sending[p]
        rest == b.todo \ {c}
        dead == IF raised THEN b.dead \cup {c} ELSE b.dead
    IN  IF rest = {}
        THEN /\ sending' = [sending EXCEPT ![p] = Idle]
             /\ connections' = connections \ dead
        ELSE /\ sending' = [sending EXCEPT ![p] = [b EXCEPT !.todo = rest, !.dead = dead]]
             /\ UNCHANGED connections

\* Mutant: a send that raises is tried again.
SendToRetrying(p, c) ==
    /\ sending[p] # Idle /\ c \in sending[p].todo
    /\ peer[c] = "up" /\ Sent(c, sending[p].msg)
    /\ SendNext(p, c, FALSE)
    /\ UNCHANGED <<ends, tickers>>

\* send_text() returns, or raises for a client that is gone.
SendTo(p, c) ==
    /\ sending[p] # Idle /\ c \in sending[p].todo
    /\ \/ Sent(c, sending[p].msg) /\ SendNext(p, c, FALSE)
       \/ peer[c] = "gone" /\ SendNext(p, c, TRUE) /\ UNCHANGED channel
    /\ UNCHANGED <<ends, tickers>>

\* publish_ticker(), by a task of its own for each update of the stream.
PublishTicker(p) ==
    /\ sending[p] = Idle
    /\ clock - lastEmit >= Throttle
    /\ lastEmit' = clock
    /\ Begin(p, [kind |-> "ticker", n |-> clock])
    /\ UNCHANGED <<ends, connections, channel, clock>>

ClockTicks ==
    /\ clock' = clock + 1
    /\ UNCHANGED <<ends, connections, sending, channel, lastEmit>>

HubStep ==
    \/ \E c \in Socket : Register(c) \/ Leave(c)
    \/ \E p \in Publisher, c \in Socket : SendTo(p, c)
    \/ \E p \in TickTask : PublishTicker(p)

-----------------------------------------------------------------------------
(* Properties.                                                             *)

HubTypeOK ==
    /\ peer \in [Socket -> {"new", "up", "gone"}]
    /\ endpoint \in [Socket -> {"none", "accept", "serve", "left"}]
    /\ connections \subseteq Socket
    /\ \A p \in Publisher :
          sending[p] = Idle \/ sending[p] \in Broadcast
    /\ channel \in [Socket -> Seq(Message)]
    /\ \A c \in Socket : Len(channel[c]) <= ChannelCap
    /\ clock \in Nat /\ lastEmit \in 0 .. clock
=============================================================================
