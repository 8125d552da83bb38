--------------------------- MODULE RelayPublisher ---------------------------
(***************************************************************************)
(* The API's side of the relay: createRelayPublisher in                     *)
(* api/src/relay/relay-client.ts, started and stopped once by index.ts.     *)
(*                                                                         *)
(* It keeps one WebSocket to the relay, answers the requests that arrive on *)
(* it, reconnects with backoff on every close, and finds out by heartbeats  *)
(* that a connection is dead.  Callbacks run to completion, so one action   *)
(* is one callback: a timer, an event of a socket, or a build that settles. *)
(* A request handler outlives its socket, hence the several sockets.        *)
(***************************************************************************)
EXTENDS Integers, FiniteSets

CONSTANTS
    Conn,             \* socket objects; bound: one is reused once nothing refers to it
    Request,          \* request ids; the relay sends one at most once per socket
    MinDelay,         \* reconnectMinMs
    MaxDelay,         \* reconnectMaxMs
    None              \* no socket, no timer, no heartbeat state

ASSUME DelayAssumption == {MinDelay, MaxDelay} \subseteq Nat \ {0}
ASSUME PublisherNoneAssumption ==
    None \notin Conn /\ None \notin Nat /\ None \notin {"off", "armed"}

VARIABLES
    config,           \* "usable", "off" (disabled or incomplete) or "badUrl"
    phase,            \* "idle", "started" or "stopped"
    ws,               \* the current socket
    reconnectTimer,   \* the delay it was set for
    reconnectDelay,   \* reconnectDelayMs
    sock,             \* readyState of each socket, "free" before it exists
    alive,            \* the peer still answers on this socket
    heartbeat,        \* heartbeatStates: its timeout timer is "off" or "armed"
    building,         \* the requests each socket's handlers await a payload for
    asked,            \* history: requests received on each socket
    answered          \* history: requests answered on each socket

handlers == <<building, asked, answered>>
network == <<config, alive>>
vars == <<config, phase, ws, reconnectTimer, reconnectDelay, sock, alive, heartbeat, handlers>>

Longest == IF MinDelay < MaxDelay THEN MaxDelay ELSE MinDelay
SocketState == {"free", "connecting", "open", "closing", "closed"}

\* Types; the backoff never exceeds the longer of its two settings.
TypeOK ==
    /\ config \in {"usable", "off", "badUrl"}
    /\ phase \in {"idle", "started", "stopped"}
    /\ ws \in Conn \cup {None}
    /\ reconnectTimer \in (1 .. Longest) \cup {None}
    /\ reconnectDelay \in 1 .. Longest
    /\ sock \in [Conn -> SocketState]
    /\ alive \in [Conn -> BOOLEAN]
    /\ heartbeat \in [Conn -> {"off", "armed", None}]
    /\ building \in [Conn -> SUBSET Request]
    /\ asked \in [Conn -> SUBSET Request]
    /\ answered \in [Conn -> SUBSET Request]

-----------------------------------------------------------------------------
(* Connecting                                                               *)

DoubledUncapped(delay) == 2 * delay \* mutant
Doubled(delay) == IF 2 * delay < MaxDelay THEN 2 * delay ELSE MaxDelay

\* connect, with everything its new socket starts from.
Connect ==
    IF phase = "stopped" \/ config # "usable"
    THEN UNCHANGED <<ws, sock, alive, heartbeat, handlers>>
    ELSE \E c \in Conn :
           /\ sock[c] = "free"
           /\ ws' = c
           /\ sock' = [sock EXCEPT ![c] = "connecting"]
           /\ alive' = [alive EXCEPT ![c] = TRUE]
           /\ UNCHANGED <<heartbeat, handlers>>

Start ==
    /\ phase = "idle"
    /\ phase' = "started"
    /\ Connect
    /\ UNCHANGED <<config, reconnectTimer, reconnectDelay>>

\* Every close schedules a reconnect, unless one is scheduled or wanted no more.
MayScheduleWhenStopped == reconnectTimer = None \* mutant
MaySchedule == phase # "stopped" /\ reconnectTimer = None

ScheduleReconnect ==
    IF MaySchedule
    THEN /\ reconnectTimer' = reconnectDelay
         /\ reconnectDelay' = Doubled(reconnectDelay)
    ELSE UNCHANGED <<reconnectTimer, reconnectDelay>>

Reconnect ==
    /\ reconnectTimer # None
    /\ reconnectTimer' = None
    /\ Connect
    /\ UNCHANGED <<config, phase, reconnectDelay>>

\* 'open': reset the backoff, say hello, send the first ping.
Open(c) ==
    /\ sock[c] = "connecting"
    /\ alive[c]
    /\ sock' = [sock EXCEPT ![c] = "open"]
    /\ reconnectDelay' = MinDelay
    /\ heartbeat' = [heartbeat EXCEPT ![c] = "armed"]
    /\ UNCHANGED <<network, phase, ws, reconnectTimer, handlers>>

\* The handshake fails, the peer closes, or a ping cannot be sent.
Lose(c) ==
    /\ sock[c] \in {"connecting", "open"}
    /\ alive[c]
    /\ sock' = [sock EXCEPT ![c] = "closing"]
    /\ UNCHANGED <<network, phase, ws, reconnectTimer, reconnectDelay, heartbeat, handlers>>

\* The peer is gone and nothing tells this side, perhaps during the upgrade: the
\* WebSocket is created without a handshake timeout.
FallSilent(c) ==
    /\ sock[c] \in {"connecting", "open"}
    /\ alive' = [alive EXCEPT ![c] = FALSE]
    /\ UNCHANGED <<config, phase, ws, reconnectTimer, reconnectDelay, sock, heartbeat, handlers>>

\* 'close'.
Close(c) ==
    /\ sock[c] = "closing"
    /\ sock' = [sock EXCEPT ![c] = "closed"]
    /\ heartbeat' = [heartbeat EXCEPT ![c] = None]
    /\ ws' = IF ws = c THEN None ELSE ws
    /\ ScheduleReconnect
    /\ UNCHANGED <<network, phase, handlers>>

\* Nothing refers to a closed socket once its handlers have ended.
Collect(c) ==
    /\ sock[c] = "closed"
    /\ building[c] = {}
    /\ sock' = [sock EXCEPT ![c] = "free"]
    /\ asked' = [asked EXCEPT ![c] = {}]
    /\ answered' = [answered EXCEPT ![c] = {}]
    /\ UNCHANGED <<network, phase, ws, reconnectTimer, reconnectDelay, heartbeat, building>>

-----------------------------------------------------------------------------
(* Heartbeats                                                               *)

\* The interval: send a ping unless one is unanswered.
Ping(c) ==
    /\ heartbeat[c] = "off"
    /\ sock[c] = "open"
    /\ heartbeat' = [heartbeat EXCEPT ![c] = "armed"]
    /\ UNCHANGED <<network, phase, ws, reconnectTimer, reconnectDelay, sock, handlers>>

Pong(c) ==
    /\ heartbeat[c] = "armed"
    /\ sock[c] = "open"
    /\ alive[c]
    /\ heartbeat' = [heartbeat EXCEPT ![c] = "off"]
    /\ UNCHANGED <<network, phase, ws, reconnectTimer, reconnectDelay, sock, handlers>>

\* No pong in time: terminate the socket, whose close event then follows.
TerminatedOnlyLogged(c) == sock \* mutant
Terminated(c) == IF sock[c] = "open" THEN [sock EXCEPT ![c] = "closing"] ELSE sock

\* Terminating replaces scheduling: doing both would race the close event.
AfterTerminateBoth == ScheduleReconnect \* mutant
AfterTerminate == UNCHANGED <<reconnectTimer, reconnectDelay>>

HeartbeatTimeout(c) ==
    /\ heartbeat[c] = "armed"
    /\ heartbeat' = [heartbeat EXCEPT ![c] = "off"]
    /\ sock' = Terminated(c)
    /\ AfterTerminate
    /\ UNCHANGED <<network, phase, ws, handlers>>

-----------------------------------------------------------------------------
(* Requests                                                                 *)

\* handleRequest up to its await: acknowledge, start building.
Receive(c, r) ==
    /\ sock[c] = "open"
    /\ alive[c]
    /\ r \notin asked[c]
    /\ asked' = [asked EXCEPT ![c] = @ \cup {r}]
    /\ building' = [building EXCEPT ![c] = @ \cup {r}]
    /\ UNCHANGED <<network, phase, ws, reconnectTimer, reconnectDelay, sock, heartbeat, answered>>

\* The payload or the error goes out on the socket the request came from.
ReplySocketCurrent(c) == IF ws = None THEN c ELSE ws \* mutant
ReplySocket(c) == c

Built(c, r) ==
    LET s == ReplySocket(c)
    IN  /\ r \in building[c]
        /\ building' = [building EXCEPT ![c] = @ \ {r}]
        /\ answered' = IF sock[s] = "open" THEN [answered EXCEPT ![s] = @ \cup {r}] ELSE answered
        /\ UNCHANGED <<network, phase, ws, reconnectTimer, reconnectDelay, sock, heartbeat, asked>>

-----------------------------------------------------------------------------
Stop ==
    /\ phase = "started"
    /\ phase' = "stopped"
    /\ reconnectTimer' = None
    /\ heartbeat' = [c \in Conn |-> None]
    /\ sock' = [c \in Conn |-> IF c = ws /\ sock[c] \in {"connecting", "open"}
                               THEN "closing" ELSE sock[c]]
    /\ ws' = None
    /\ UNCHANGED <<network, reconnectDelay, handlers>>

Init ==
    /\ config \in {"usable", "off", "badUrl"}
    /\ phase = "idle"
    /\ ws = None
    /\ reconnectTimer = None
    /\ reconnectDelay = MinDelay
    /\ sock = [c \in Conn |-> "free"]
    /\ alive = [c \in Conn |-> TRUE]
    /\ heartbeat = [c \in Conn |-> None]
    /\ building = [c \in Conn |-> {}]
    /\ asked = [c \in Conn |-> {}]
    /\ answered = [c \in Conn |-> {}]

SocketEvent(c) ==
    \/ Open(c)
    \/ Lose(c)
    \/ FallSilent(c)
    \/ Close(c)
    \/ Collect(c)
    \/ Ping(c)
    \/ Pong(c)
    \/ HeartbeatTimeout(c)
    \/ \E r \in Request : Receive(c, r) \/ Built(c, r)

Next ==
    \/ Start
    \/ Reconnect
    \/ Stop
    \/ \E c \in Conn : SocketEvent(c)

Spec == Init /\ [][Next]_vars

\* Timers fire, a closing socket ends up closed (ws enforces a close timeout),
\* a build settles (its budget sees to that), and a peer that is there answers
\* the handshake one way or the other.
Fairness ==
    /\ WF_vars(Reconnect)
    /\ \A c \in Conn :
          /\ WF_vars(Close(c)) /\ WF_vars(Collect(c))
          /\ WF_vars(Ping(c)) /\ WF_vars(HeartbeatTimeout(c))
          /\ WF_vars(Open(c) \/ (sock[c] = "connecting" /\ Lose(c)))
          /\ WF_vars(\E r \in Request : Built(c, r))

FairSpec == Spec /\ Fairness

-----------------------------------------------------------------------------
(* Properties                                                               *)

Existing == {c \in Conn : sock[c] \in {"connecting", "open", "closing"}}

\* The process never holds two connections to the relay, and never waits to
\* open one while it has one: every path that gives a socket up ends in its
\* close event, and only that event schedules.
OneConnection ==
    /\ \A c, d \in Existing : c = d
    /\ reconnectTimer # None => Existing = {}

\* After stop nothing is left that could use or bring back the connection,
\* also when the socket's close event comes later.
StopIsFinal ==
    phase = "stopped" =>
        /\ reconnectTimer = None
        /\ \A c \in Conn : heartbeat[c] = None /\ sock[c] \notin {"connecting", "open"}

\* A response goes out on the connection its request came in on, even when a
\* reconnect happened while the payload was built.
AnsweredWhereAsked == \A c \in Conn : answered[c] \subseteq asked[c]

\* The peer accepted the connection and never answers the upgrade.
Hangs(c) == sock[c] = "connecting" /\ ~alive[c]

\* A half-open connection is given up.
DeadIsNoticed == \A c \in Conn : sock[c] = "open" /\ ~alive[c] ~> sock[c] # "open"

\* A started publisher without an open connection tries again, however often
\* it fails, unless an upgrade hangs: no timer watches that one.
OnlyAHangStrands ==
    phase = "started" /\ config = "usable" ~>
        \/ phase = "stopped"
        \/ reconnectTimer # None
        \/ \E c \in Conn : sock[c] = "open" \/ Hangs(c)

\* A publisher that was started notices that its connection is dead and, when it
\* has none, tries again; an upgrade that is never answered, and nothing else,
\* keeps it offline for good.
StaysReachable == DeadIsNoticed /\ OnlyAHangStrands
=============================================================================
