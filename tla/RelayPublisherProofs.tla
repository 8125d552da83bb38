------------------------ MODULE RelayPublisherProofs ------------------------
(***************************************************************************)
(* Type correctness and the safety properties of RelayPublisher, for every  *)
(* set of sockets and requests and every pair of delays.                    *)
(***************************************************************************)
EXTENDS RelayPublisher, TLAPS

\* The socket in use is the one ws names, so stop reaches it.
CurrentIsNamed == \A c \in Conn : sock[c] \in {"connecting", "open"} => ws = c

\* Before start there is nothing.
IdleIsEmpty ==
    phase = "idle" => reconnectTimer = None /\ \A c \in Conn : sock[c] = "free"

\* A request being built was received on that socket.
BuildingIsAsked == \A c \in Conn : building[c] \subseteq asked[c]

SafeInv ==
    /\ TypeOK
    /\ OneConnection
    /\ StopIsFinal
    /\ AnsweredWhereAsked
    /\ CurrentIsNamed
    /\ IdleIsEmpty
    /\ BuildingIsAsked

\* Doubling stays within the settings.
LEMMA DoubledBounded == ASSUME NEW d \in 1 .. Longest PROVE Doubled(d) \in 1 .. Longest
    BY DelayAssumption DEF Doubled, Longest

LEMMA InitSafe == Init => SafeInv
    BY DelayAssumption, PublisherNoneAssumption
    DEF Init, SafeInv, TypeOK, SocketState, Longest, OneConnection, StopIsFinal,
        AnsweredWhereAsked, CurrentIsNamed, IdleIsEmpty, BuildingIsAsked, Existing

\* connect, called when there is no connection and no timer is left, keeps
\* everything but what its callers change.
LEMMA ConnectSafe ==
    ASSUME SafeInv, Connect, Existing = {}, reconnectTimer' = None,
           phase' \in {"started", "stopped"}, phase' = "stopped" <=> phase = "stopped",
           UNCHANGED <<config, reconnectDelay>>
    PROVE  SafeInv'
<1>1. CASE phase = "stopped" \/ config # "usable"
    BY <1>1 DEF Connect, SafeInv, TypeOK, OneConnection, StopIsFinal, AnsweredWhereAsked,
        CurrentIsNamed, IdleIsEmpty, BuildingIsAsked, Existing, handlers
<1>2. CASE ~(phase = "stopped" \/ config # "usable")
    <2>1. PICK c \in Conn :
            /\ sock[c] = "free"
            /\ ws' = c
            /\ sock' = [sock EXCEPT ![c] = "connecting"]
            /\ alive' = [alive EXCEPT ![c] = TRUE]
            /\ UNCHANGED <<heartbeat, handlers>>
        BY <1>2 DEF Connect
    <2>2. TypeOK'
        BY <2>1 DEF SafeInv, TypeOK, SocketState, handlers
    <2>3. Existing' = {c}
        BY <2>1 DEF SafeInv, TypeOK, Existing
    <2>4. OneConnection' /\ StopIsFinal' /\ IdleIsEmpty'
        BY <1>2, <2>3 DEF OneConnection, StopIsFinal, IdleIsEmpty
    <2>5. CurrentIsNamed'
        BY <2>1, <2>3 DEF CurrentIsNamed, Existing
    <2>6. AnsweredWhereAsked' /\ BuildingIsAsked'
        BY <2>1 DEF SafeInv, AnsweredWhereAsked, BuildingIsAsked, handlers
    <2> QED
        BY <2>2, <2>4, <2>5, <2>6 DEF SafeInv
<1> QED
    BY <1>1, <1>2

LEMMA StartSafe == SafeInv /\ Start => SafeInv'
<1> SUFFICES ASSUME SafeInv, Start PROVE SafeInv'
    OBVIOUS
<1>1. Existing = {} /\ reconnectTimer = None
    BY DEF SafeInv, Start, IdleIsEmpty, Existing
<1> QED
    BY <1>1, ConnectSafe DEF Start

LEMMA ReconnectSafe == SafeInv /\ Reconnect => SafeInv'
<1> SUFFICES ASSUME SafeInv, Reconnect PROVE SafeInv'
    OBVIOUS
<1>1. Existing = {}
    BY DEF SafeInv, Reconnect, OneConnection
<1>2. phase \in {"started", "stopped"}
    BY DEF SafeInv, Reconnect, IdleIsEmpty, TypeOK
<1> QED
    BY <1>1, <1>2, ConnectSafe DEF Reconnect

\* A callback that replaces no connection: it may move its socket on, but
\* neither opens another nor touches the timer.
LEMMA ConnectionKept ==
    ASSUME SafeInv, NEW c \in Conn, UNCHANGED <<phase, ws, reconnectTimer>>,
           NEW s \in {"open", "closing", "free"}, sock' = [sock EXCEPT ![c] = s],
           \/ s = "open" /\ sock[c] = "connecting"
           \/ s = "closing" /\ sock[c] \in {"connecting", "open"}
           \/ s = "free" /\ sock[c] = "closed"
    PROVE  OneConnection' /\ CurrentIsNamed' /\ IdleIsEmpty'
<1>1. Existing' = Existing
    BY DEF SafeInv, TypeOK, Existing
<1>2. OneConnection'
    BY <1>1 DEF SafeInv, OneConnection
<1>3. CurrentIsNamed'
    BY DEF SafeInv, TypeOK, CurrentIsNamed
<1>4. IdleIsEmpty'
    BY DEF SafeInv, TypeOK, IdleIsEmpty
<1> QED
    BY <1>2, <1>3, <1>4

LEMMA OpenSafe == ASSUME SafeInv, NEW c \in Conn, Open(c) PROVE SafeInv'
<1>1. TypeOK'
    BY DelayAssumption DEF SafeInv, TypeOK, Open, SocketState, Longest, network, handlers
<1>2. OneConnection' /\ CurrentIsNamed' /\ IdleIsEmpty'
    BY ConnectionKept DEF Open
<1>3. phase # "stopped"
    BY DEF SafeInv, Open, StopIsFinal
<1>4. StopIsFinal' /\ AnsweredWhereAsked' /\ BuildingIsAsked'
    BY <1>3 DEF SafeInv, Open, StopIsFinal, AnsweredWhereAsked, BuildingIsAsked, handlers
<1> QED
    BY <1>1, <1>2, <1>4 DEF SafeInv

LEMMA LoseSafe == ASSUME SafeInv, NEW c \in Conn, Lose(c) PROVE SafeInv'
<1>1. TypeOK'
    BY DEF SafeInv, TypeOK, Lose, SocketState, network, handlers
<1>2. OneConnection' /\ CurrentIsNamed' /\ IdleIsEmpty'
    BY ConnectionKept DEF Lose
<1>3. StopIsFinal' /\ AnsweredWhereAsked' /\ BuildingIsAsked'
    BY DEF SafeInv, TypeOK, Lose, StopIsFinal, AnsweredWhereAsked, BuildingIsAsked, handlers
<1> QED
    BY <1>1, <1>2, <1>3 DEF SafeInv

LEMMA FallSilentSafe == ASSUME SafeInv, NEW c \in Conn, FallSilent(c) PROVE SafeInv'
    BY DEF SafeInv, TypeOK, FallSilent, OneConnection, StopIsFinal, AnsweredWhereAsked,
        CurrentIsNamed, IdleIsEmpty, BuildingIsAsked, Existing, handlers

\* The only callback that schedules does so when its connection is the last.
LEMMA CloseSafe == ASSUME SafeInv, NEW c \in Conn, Close(c) PROVE SafeInv'
<1>1. Existing' = {}
    BY DEF SafeInv, TypeOK, OneConnection, Existing, Close
<1>2. /\ reconnectTimer' \in (1 .. Longest) \cup {None}
      /\ reconnectDelay' \in 1 .. Longest
    BY DoubledBounded DEF SafeInv, TypeOK, Close, ScheduleReconnect
<1>3. TypeOK'
    BY <1>2 DEF SafeInv, TypeOK, Close, SocketState, network, handlers
<1>4. OneConnection' /\ CurrentIsNamed'
    BY <1>1 DEF OneConnection, CurrentIsNamed, Existing
<1>5. IdleIsEmpty'
    BY DEF SafeInv, Close, IdleIsEmpty
<1>6. StopIsFinal'
    BY DEF SafeInv, TypeOK, Close, StopIsFinal, ScheduleReconnect, MaySchedule
<1>7. AnsweredWhereAsked' /\ BuildingIsAsked'
    BY DEF SafeInv, Close, AnsweredWhereAsked, BuildingIsAsked, handlers
<1> QED
    BY <1>3, <1>4, <1>5, <1>6, <1>7 DEF SafeInv

LEMMA CollectSafe == ASSUME SafeInv, NEW c \in Conn, Collect(c) PROVE SafeInv'
<1>1. TypeOK'
    BY DEF SafeInv, TypeOK, Collect, SocketState, network
<1>2. OneConnection' /\ CurrentIsNamed' /\ IdleIsEmpty'
    BY ConnectionKept DEF Collect
<1>3. StopIsFinal' /\ AnsweredWhereAsked' /\ BuildingIsAsked'
    BY DEF SafeInv, TypeOK, Collect, StopIsFinal, AnsweredWhereAsked, BuildingIsAsked
<1> QED
    BY <1>1, <1>2, <1>3 DEF SafeInv

LEMMA PingPongSafe == ASSUME SafeInv, NEW c \in Conn, Ping(c) \/ Pong(c) PROVE SafeInv'
    BY DEF SafeInv, TypeOK, Ping, Pong, OneConnection, StopIsFinal, AnsweredWhereAsked,
        CurrentIsNamed, IdleIsEmpty, BuildingIsAsked, Existing, network, handlers

LEMMA TimeoutSafe == ASSUME SafeInv, NEW c \in Conn, HeartbeatTimeout(c) PROVE SafeInv'
<1>1. TypeOK'
    BY DEF SafeInv, TypeOK, HeartbeatTimeout, Terminated, AfterTerminate, SocketState,
        network, handlers
<1>2. OneConnection' /\ CurrentIsNamed' /\ IdleIsEmpty'
    <2>1. CASE sock[c] = "open"
        BY <2>1, ConnectionKept DEF HeartbeatTimeout, Terminated, AfterTerminate
    <2>2. CASE sock[c] # "open"
        BY <2>2 DEF HeartbeatTimeout, Terminated, AfterTerminate, SafeInv, OneConnection,
            CurrentIsNamed, IdleIsEmpty, Existing
    <2> QED
        BY <2>1, <2>2
<1>3. phase # "stopped"
    BY PublisherNoneAssumption DEF SafeInv, HeartbeatTimeout, StopIsFinal
<1>4. StopIsFinal' /\ AnsweredWhereAsked' /\ BuildingIsAsked'
    BY <1>3 DEF SafeInv, HeartbeatTimeout, StopIsFinal, AnsweredWhereAsked,
        BuildingIsAsked, handlers
<1> QED
    BY <1>1, <1>2, <1>4 DEF SafeInv

LEMMA HandlerSafe ==
    ASSUME SafeInv, NEW c \in Conn, NEW r \in Request, Receive(c, r) \/ Built(c, r)
    PROVE  SafeInv'
<1>1. TypeOK'
    BY DEF SafeInv, TypeOK, Receive, Built, ReplySocket, network
<1>2. OneConnection' /\ StopIsFinal' /\ CurrentIsNamed' /\ IdleIsEmpty'
    BY DEF SafeInv, Receive, Built, OneConnection, StopIsFinal, CurrentIsNamed,
        IdleIsEmpty, Existing
<1>3. AnsweredWhereAsked' /\ BuildingIsAsked'
    BY DEF SafeInv, TypeOK, Receive, Built, ReplySocket, AnsweredWhereAsked, BuildingIsAsked
<1> QED
    BY <1>1, <1>2, <1>3 DEF SafeInv

LEMMA StopSafe == SafeInv /\ Stop => SafeInv'
<1> SUFFICES ASSUME SafeInv, Stop PROVE SafeInv'
    OBVIOUS
<1>1. TypeOK'
    BY DEF SafeInv, TypeOK, Stop, SocketState, network, handlers
<1>2. \A c \in Conn : sock'[c] \notin {"connecting", "open"}
    BY DEF SafeInv, TypeOK, Stop, CurrentIsNamed
<1>3. Existing' \subseteq Existing
    BY DEF SafeInv, TypeOK, Stop, Existing
<1>4. OneConnection' /\ StopIsFinal' /\ CurrentIsNamed' /\ IdleIsEmpty'
    BY <1>2, <1>3 DEF SafeInv, Stop, OneConnection, StopIsFinal, CurrentIsNamed, IdleIsEmpty
<1>5. AnsweredWhereAsked' /\ BuildingIsAsked'
    BY DEF SafeInv, Stop, AnsweredWhereAsked, BuildingIsAsked, handlers
<1> QED
    BY <1>1, <1>4, <1>5 DEF SafeInv

LEMMA StepSafe == SafeInv /\ [Next]_vars => SafeInv'
<1> SUFFICES ASSUME SafeInv, [Next]_vars PROVE SafeInv'
    OBVIOUS
<1>1. CASE Start BY <1>1, StartSafe
<1>2. CASE Reconnect BY <1>2, ReconnectSafe
<1>3. CASE Stop BY <1>3, StopSafe
<1>4. ASSUME NEW c \in Conn, SocketEvent(c) PROVE SafeInv'
    BY <1>4, OpenSafe, LoseSafe, FallSilentSafe, CloseSafe, CollectSafe, PingPongSafe,
       TimeoutSafe, HandlerSafe DEF SocketEvent
<1>5. CASE UNCHANGED vars
    BY <1>5 DEF vars, handlers, SafeInv, TypeOK, OneConnection, StopIsFinal, AnsweredWhereAsked,
        CurrentIsNamed, IdleIsEmpty, BuildingIsAsked, Existing
<1> QED
    BY <1>1, <1>2, <1>3, <1>4, <1>5 DEF Next

\* The publisher's state is well typed and its backoff bounded in every
\* reachable state.
THEOREM PublisherTypeCorrect == Spec => []TypeOK
<1>1. SafeInv => TypeOK
    BY DEF SafeInv
<1> QED
    BY <1>1, InitSafe, StepSafe, PTL DEF Spec

\* The process never holds two connections to the relay, nor waits to open one
\* while it has one, however many reconnects there are.
THEOREM NeverTwoConnections == Spec => []OneConnection
<1>1. SafeInv => OneConnection
    BY DEF SafeInv
<1> QED
    BY <1>1, InitSafe, StepSafe, PTL DEF Spec

\* After stop no timer, heartbeat or usable socket is left, or comes back.
THEOREM StopStaysFinal == Spec => []StopIsFinal
<1>1. SafeInv => StopIsFinal
    BY DEF SafeInv
<1> QED
    BY <1>1, InitSafe, StepSafe, PTL DEF Spec

\* No response goes out on another connection than its request came in on.
THEOREM RepliesStayHome == Spec => []AnsweredWhereAsked
<1>1. SafeInv => AnsweredWhereAsked
    BY DEF SafeInv
<1> QED
    BY <1>1, InitSafe, StepSafe, PTL DEF Spec
=============================================================================
