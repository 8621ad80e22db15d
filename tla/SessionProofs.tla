--------------------------- MODULE SessionProofs ---------------------------
(***************************************************************************)
(* Theorems about Session, for every number of reconnection attempts and   *)
(* whether or not msquic may refuse at once: the host's calls, the msquic  *)
(* events and the session thread in any interleaving.                      *)
(***************************************************************************)
EXTENDS Session, TLAPS

----------------------------------------------------------------------------
(* The inductive invariant *)

Draining == spc \in {"drain_connected", "start_moq", "drain_transport", "drain_peer",
                     "drain_control", "orchestrate"}

\* Who runs: the session thread exists from connect() until disconnect() joins it,
\* and manual_disconnect_ is up from the first step of disconnect() to its last.
Threads ==
    /\ session_running => /\ spc \notin {"none", "exited"}
                          /\ hpc \in {"idle", "stop", "terminated"}
    /\ spc # "none" => session_running \/ hpc = "join"
    /\ hpc \in {"stop", "join", "close"} => manual_disconnect
    /\ hpc = "terminated" => terminated

\* A reconnection that is about to begin follows a Failed that was drained.
Beginning ==
    spc = "begin" => /\ ret \in {"drain_transport", "drain_peer", "drain_control"}
                     /\ transport /\ tstate = "Failed"
                     /\ session_running => ~reconnecting

\* The retry cycle: as long as the session runs, reconnecting_ says the same as
\* state_, and only a reconnecting session replaces its transport.
Retrying ==
    /\ reconnecting => reconnect_attempt <= MaxAttempts
    /\ session_running => (reconnecting <=> state = "Reconnecting")
    /\ session_running /\ spc \in {"teardown", "connect"} => reconnecting

\* What the host is told is what the transport says, but for the moment before a
\* reconnection begins.
Told ==
    /\ spc # "none" => notified = state
    /\ session_running /\ spc # "begin" =>
           /\ state = "Connected" <=> (transport /\ tstate = "Ready")
           /\ state = "Connecting" => transport /\ tstate \in {"Connecting", "Connected"}

NothingPending ==
    ~(pending_connected \/ pending_transport_shutdown \/ pending_peer_shutdown \/ pending_setup)

\* Without a transport, or with one whose connect() failed at once, there is no
\* connection and nothing of one.
NoConnection ==
    /\ spc = "none" /\ hpc # "close" => ~transport
    /\ spc = "connect" => ~transport
    /\ Draining => transport
    /\ spc = "discard" => transport /\ tstate = "Failed"
    /\ ~transport => tstate = "Disconnected"
    /\ ~transport \/ spc = "discard" =>
           conn = "none" /\ NothingPending /\ ~hello /\ ~orchestration_started /\ ~late_setup

\* A connection whose Connected event is not yet drained: nothing was said on it.
Fresh == conn = "handshake" \/ pending_connected

OnceConnected ==
    /\ pending_connected => conn \in {"open", "closed"}
    /\ Fresh => /\ ~hello /\ ~pending_setup /\ ~orchestration_started
                /\ tstate \in {"Connecting", "Failed"} /\ spc # "start_moq"

\* start_orchestration() has run on every Ready transport by the end of the pass.
Orchestrated ==
    /\ spc \in {"loop", "timer", "drain_connected", "start_moq", "drain_transport",
                "drain_peer", "drain_control"} /\ tstate = "Ready" => orchestration_started
    /\ orchestration_started => transport /\ tstate \in {"Ready", "Failed"}

Live == conn = "open" \/ pending_transport_shutdown \/ pending_peer_shutdown

\* The end of a connection is pending until it is drained into Failed.
EndNoticed ==
    /\ tstate = "Ready" /\ ~late_setup => Live
    /\ pending_setup => Live \/ tstate = "Failed"

Control == Threads /\ Beginning /\ Retrying /\ Told

Connection == NoConnection /\ OnceConnected /\ Orchestrated /\ EndNoticed

\* A disconnect() that has returned stays the last word.
Quiet == DisconnectSticks /\ (quiet => hpc = "idle")

SessionInv == TypeOK /\ Control /\ Connection /\ Quiet

----------------------------------------------------------------------------
(* Types *)

\* The flags, and the variables that name a state, a place or a number.
Flags ==
    /\ reconnecting \in BOOLEAN /\ due \in BOOLEAN /\ backed_off \in BOOLEAN
    /\ manual_disconnect \in BOOLEAN /\ session_running \in BOOLEAN
    /\ orchestration_started \in BOOLEAN /\ transport \in BOOLEAN
    /\ pending_connected \in BOOLEAN /\ pending_transport_shutdown \in BOOLEAN
    /\ pending_peer_shutdown \in BOOLEAN /\ pending_setup \in BOOLEAN
    /\ hello \in BOOLEAN /\ late_setup \in BOOLEAN
    /\ quiet \in BOOLEAN /\ terminated \in BOOLEAN

Places ==
    /\ state \in States /\ notified \in States
    /\ reconnect_attempt \in 0 .. MaxAttempts + 1
    /\ tstate \in TransportStates
    /\ conn \in {"none", "handshake", "open", "closed"}
    /\ spc \in SessionPoints /\ ret \in SessionPoints
    /\ hpc \in {"idle", "stop", "join", "close", "terminated"}

\* The two kinds of variable that the type invariant speaks of.
LEMMA TypeParts == TypeOK <=> Flags /\ Places
  BY Zenon DEF TypeOK, Flags, Places

\* The states and program points the actions name are states and program points.
LEMMA Names ==
    /\ {"Disconnected", "Connecting", "Connected", "Reconnecting", "Failed"} \subseteq States
    /\ {"Disconnected", "Connecting", "Connected", "Ready", "Failed"} \subseteq TransportStates
    /\ {"none", "loop", "timer", "teardown", "connect", "discard", "begin", "drain_connected",
        "start_moq", "drain_transport", "drain_peer", "drain_control", "orchestrate", "exited"}
           \subseteq SessionPoints
  BY DEF States, TransportStates, SessionPoints

\* What handle_transport_state_change() leaves behind has its type, and it never
\* counts an attempt.
LEMMA CallbackType ==
    ASSUME TypeOK, Retrying, NEW ts \in TransportStates, NEW next \in SessionPoints,
           Callback(ts, next)
    PROVE  /\ state' \in States /\ notified' \in States
           /\ reconnecting' \in BOOLEAN /\ due' \in BOOLEAN /\ backed_off' \in BOOLEAN
           /\ reconnect_attempt' \in {0, reconnect_attempt}
           /\ reconnect_attempt' \in 0 .. MaxAttempts + 1
           /\ spc' \in SessionPoints /\ ret' \in SessionPoints
  <1> USE ConfigAssumption DEF TypeOK, retry
  <1>0. 0 \in 0 .. MaxAttempts + 1
    OBVIOUS
  <1>1. CASE /\ StartsReconnecting(ts) /\ spc' = "begin" /\ ret' = next
             /\ UNCHANGED <<state, notified, retry>>
    BY <1>1, Names, Zenon
  <1>2. CASE WhileReconnecting(ts) /\ spc' = next /\ UNCHANGED ret
    BY <1>2, <1>0, Names, Zenon DEF WhileReconnecting, Report, ScheduleRetry
  <1>3. CASE WhileNotReconnecting(ts) /\ spc' = next /\ UNCHANGED ret
    <2>1. MapState(ts) \in States
      BY DEF MapState, TransportStates, States
    <2> QED BY <1>3, <2>1 DEF WhileNotReconnecting, Report
  <1> QED BY <1>1, <1>2, <1>3 DEF Callback

\* attempt_reconnect() counts an attempt and gives up, or tears the transport down.
LEMMA AttemptFacts ==
    ASSUME TypeOK, Retrying, AttemptReconnect
    PROVE  /\ reconnect_attempt' \in 0 .. MaxAttempts + 1
           /\ spc = "timer" /\ reconnecting /\ UNCHANGED ret
           /\ \/ /\ reconnecting' = FALSE /\ state' = "Failed" /\ notified' = "Failed"
                 /\ spc' = IF transport THEN "drain_connected" ELSE "loop"
              \/ /\ UNCHANGED <<reconnecting, state, notified>> /\ spc' = "teardown"
                 /\ reconnect_attempt' <= MaxAttempts
  <1>1. reconnecting /\ reconnect_attempt \in Nat /\ reconnect_attempt <= MaxAttempts
    BY ConfigAssumption DEF TypeOK, Retrying, AttemptReconnect
  <1>2. reconnect_attempt' = reconnect_attempt + 1
    BY DEF AttemptReconnect
  <1>3. reconnect_attempt' \in 0 .. MaxAttempts + 1
    BY <1>1, <1>2, ConfigAssumption
  <1>4. \/ reconnect_attempt + 1 > MaxAttempts
        \/ reconnect_attempt + 1 <= MaxAttempts /\ reconnect_attempt' <= MaxAttempts
    BY <1>1, <1>2, ConfigAssumption
  <1> QED BY <1>1, <1>3, <1>4, Zenon DEF AttemptReconnect, Report, Goto

----------------------------------------------------------------------------
(* The parts of the invariant, action by action *)

\* Every flag stays a flag.
LEMMA FlagsStep == SessionInv /\ [Next]_vars => Flags'
  <1> SUFFICES ASSUME SessionInv, [Next]_vars PROVE Flags'
    OBVIOUS
  <1>a. TypeOK /\ Retrying
    BY DEF SessionInv, Control
  <1>b. Flags
    BY <1>a, TypeParts
  <1> USE <1>b DEF Flags, retry, flags, quic, host
  <1>c. UNCHANGED others => /\ reconnecting' \in BOOLEAN /\ due' \in BOOLEAN
                            /\ backed_off' \in BOOLEAN /\ manual_disconnect' \in BOOLEAN
                            /\ session_running' \in BOOLEAN /\ orchestration_started' \in BOOLEAN
                            /\ transport' \in BOOLEAN /\ quiet' \in BOOLEAN
                            /\ terminated' \in BOOLEAN
    BY Zenon DEF others
  <1>1. CASE ~terminated /\ LoopTest
    BY <1>1 DEF LoopTest, Goto
  <1>2. CASE ~terminated /\ TimerIdle
    BY <1>2 DEF TimerIdle, Goto
  <1>3. CASE ~terminated /\ AttemptReconnect
    BY <1>3, <1>a, AttemptFacts, ZenonT(60) DEF AttemptReconnect
  <1>4. CASE ~terminated /\ Teardown
    <2>1. reconnecting' \in BOOLEAN /\ due' \in BOOLEAN /\ backed_off' \in BOOLEAN
      <3>1. CASE Callback("Disconnected", "connect")
        BY <3>1, <1>a, Names, CallbackType
      <3>2. CASE UNCHANGED retry
        BY <3>2, Zenon DEF retry
      <3> QED BY <1>4, <3>1, <3>2, Zenon DEF Teardown
    <2> QED BY <1>4, <2>1, Zenon DEF Teardown, Goto, CleanupQuic
  <1>5. CASE ~terminated /\ Reconnect
    <2>1. reconnecting' \in BOOLEAN /\ due' \in BOOLEAN /\ backed_off' \in BOOLEAN
      BY <1>5, <1>a, Names, CallbackType DEF Reconnect
    <2> QED BY <1>5, <2>1, Zenon DEF Reconnect
  <1>6. CASE ~terminated /\ ReconnectFails
    <2>1. reconnecting' \in BOOLEAN /\ due' \in BOOLEAN /\ backed_off' \in BOOLEAN
      BY <1>6, <1>a, Names, CallbackType DEF ReconnectFails
    <2> QED BY <1>6, <2>1, Zenon DEF ReconnectFails
  <1>7. CASE ~terminated /\ ReconnectDiscard
    BY <1>7, ZenonT(60) DEF ReconnectDiscard, Goto, Report, ScheduleRetry
  <1>8. CASE ~terminated /\ BeginReconnect
    BY <1>8, ZenonT(60) DEF BeginReconnect, Report, BeginReconnecting
  <1>9. CASE ~terminated /\ DrainConnected
    <2>1. reconnecting' \in BOOLEAN /\ due' \in BOOLEAN /\ backed_off' \in BOOLEAN
      <3>1. CASE Callback("Connected", "start_moq")
        BY <3>1, <1>a, Names, CallbackType
      <3>2. CASE UNCHANGED retry
        BY <3>2, Zenon DEF retry
      <3> QED BY <1>9, <3>1, <3>2, Zenon DEF DrainConnected
    <2> QED BY <1>9, <2>1, Zenon DEF DrainConnected, Goto
  <1>10. CASE ~terminated /\ StartMoqSession
    BY <1>10, ZenonT(60) DEF StartMoqSession, Goto
  <1>11. CASE ~terminated /\ StartMoqSessionFails
    <2>1. reconnecting' \in BOOLEAN /\ due' \in BOOLEAN /\ backed_off' \in BOOLEAN
      BY <1>11, <1>a, Names, CallbackType DEF StartMoqSessionFails
    <2> QED BY <1>11, <2>1, Zenon DEF StartMoqSessionFails
  <1>12. CASE ~terminated /\ DrainTransportShutdown
    <2>1. reconnecting' \in BOOLEAN /\ due' \in BOOLEAN /\ backed_off' \in BOOLEAN
      <3>1. CASE Callback("Failed", "drain_peer")
        BY <3>1, <1>a, Names, CallbackType
      <3>2. CASE UNCHANGED retry
        BY <3>2, Zenon DEF retry
      <3> QED BY <1>12, <3>1, <3>2, Zenon DEF DrainTransportShutdown
    <2> QED BY <1>12, <2>1, Zenon DEF DrainTransportShutdown, Goto
  <1>13. CASE ~terminated /\ DrainPeerShutdown
    <2>1. reconnecting' \in BOOLEAN /\ due' \in BOOLEAN /\ backed_off' \in BOOLEAN
      <3>1. CASE Callback("Failed", "drain_control")
        BY <3>1, <1>a, Names, CallbackType
      <3>2. CASE UNCHANGED retry
        BY <3>2, Zenon DEF retry
      <3> QED BY <1>13, <3>1, <3>2, Zenon DEF DrainPeerShutdown
    <2> QED BY <1>13, <2>1, Zenon DEF DrainPeerShutdown, Goto
  <1>14. CASE ~terminated /\ DrainControl
    <2>1. reconnecting' \in BOOLEAN /\ due' \in BOOLEAN /\ backed_off' \in BOOLEAN
      <3>1. CASE Callback("Ready", "orchestrate")
        BY <3>1, <1>a, Names, CallbackType
      <3>2. CASE UNCHANGED retry
        BY <3>2, Zenon DEF retry
      <3> QED BY <1>14, <3>1, <3>2, Zenon DEF DrainControl
    <2> QED BY <1>14, <2>1, Zenon DEF DrainControl, Goto
  <1>15. CASE ~terminated /\ Orchestrate
    BY <1>15, ZenonT(60) DEF Orchestrate, Goto
  <1>16. CASE ~terminated /\ Configure
    BY <1>16 DEF Configure
  <1>17. CASE ~terminated /\ ConnectBadUrl
    BY <1>17, ZenonT(60) DEF ConnectBadUrl, Report
  <1>18. CASE ~terminated /\ Connect
    BY <1>18, ZenonT(60) DEF Connect, Report
  <1>19. CASE ~terminated /\ ConnectFails
    BY <1>19, ZenonT(60) DEF ConnectFails, Report, BeginReconnecting
  <1>20. CASE ~terminated /\ ConnectOverThread
    BY <1>20 DEF ConnectOverThread
  <1>21. CASE ~terminated /\ Disconnect
    BY <1>21, ZenonT(60) DEF Disconnect
  <1>22. CASE ~terminated /\ DisconnectStop
    BY <1>22, ZenonT(60) DEF DisconnectStop
  <1>23. CASE ~terminated /\ DisconnectJoin
    BY <1>23 DEF DisconnectJoin
  <1>24. CASE ~terminated /\ DisconnectClose
    BY <1>24, ZenonT(60) DEF DisconnectClose, Report, CleanupQuic
  <1>25. CASE ~terminated /\ QuicConnected
    <2>1. UNCHANGED others
      BY <1>25 DEF QuicConnected
    <2>2. /\ pending_connected' \in BOOLEAN /\ pending_transport_shutdown' \in BOOLEAN
          /\ pending_peer_shutdown' \in BOOLEAN /\ pending_setup' \in BOOLEAN
          /\ hello' \in BOOLEAN /\ late_setup' \in BOOLEAN
      BY <1>25, Zenon DEF QuicConnected
    <2> QED BY <1>c, <2>1, <2>2, Zenon
  <1>26. CASE ~terminated /\ ServerSetup
    <2>1. UNCHANGED others
      BY <1>26 DEF ServerSetup
    <2>2. /\ pending_connected' \in BOOLEAN /\ pending_transport_shutdown' \in BOOLEAN
          /\ pending_peer_shutdown' \in BOOLEAN /\ pending_setup' \in BOOLEAN
          /\ hello' \in BOOLEAN /\ late_setup' \in BOOLEAN
      BY <1>26, Zenon DEF ServerSetup
    <2> QED BY <1>c, <2>1, <2>2, Zenon
  <1>27. CASE ~terminated /\ TransportShutdown
    <2>1. UNCHANGED others
      BY <1>27 DEF TransportShutdown
    <2>2. /\ pending_connected' \in BOOLEAN /\ pending_transport_shutdown' \in BOOLEAN
          /\ pending_peer_shutdown' \in BOOLEAN /\ pending_setup' \in BOOLEAN
          /\ hello' \in BOOLEAN /\ late_setup' \in BOOLEAN
      BY <1>27, Zenon DEF TransportShutdown
    <2> QED BY <1>c, <2>1, <2>2, Zenon
  <1>28. CASE ~terminated /\ PeerShutdown
    <2>1. UNCHANGED others
      BY <1>28 DEF PeerShutdown
    <2>2. /\ pending_connected' \in BOOLEAN /\ pending_transport_shutdown' \in BOOLEAN
          /\ pending_peer_shutdown' \in BOOLEAN /\ pending_setup' \in BOOLEAN
          /\ hello' \in BOOLEAN /\ late_setup' \in BOOLEAN
      BY <1>28, Zenon DEF PeerShutdown
    <2> QED BY <1>c, <2>1, <2>2, Zenon
  <1>29. CASE ~terminated /\ DelayPasses
    BY <1>29, ZenonT(60) DEF DelayPasses
  <1>30. CASE UNCHANGED vars
    BY <1>30 DEF vars, retry, flags, quic
  <1> QED
    BY <1>1, <1>2, <1>3, <1>4, <1>5, <1>6, <1>7, <1>8, <1>9, <1>10, <1>11, <1>12, <1>13,
       <1>14, <1>15, <1>16, <1>17, <1>18, <1>19, <1>20, <1>21, <1>22, <1>23, <1>24, <1>25,
       <1>26, <1>27, <1>28, <1>29, <1>30 DEF Next, SessionThread, HostThread, Msquic, Terminated

\* States, program points and the attempt counter keep their range.
LEMMA PlacesStep == SessionInv /\ [Next]_vars => Places'
  <1> SUFFICES ASSUME SessionInv, [Next]_vars PROVE Places'
    OBVIOUS
  <1>a. TypeOK /\ Retrying
    BY DEF SessionInv, Control
  <1>b. Places
    BY <1>a, TypeParts
  <1>c. 0 \in 0 .. MaxAttempts + 1
    BY ConfigAssumption
  <1> USE <1>b, <1>c, Names DEF Places, retry, flags, quic, host
  <1>1. CASE ~terminated /\ LoopTest
    BY <1>1 DEF LoopTest, Goto
  <1>2. CASE ~terminated /\ TimerIdle
    BY <1>2 DEF TimerIdle, Goto
  <1>3. CASE ~terminated /\ AttemptReconnect
    BY <1>3, <1>a, AttemptFacts DEF AttemptReconnect
  <1>4. CASE ~terminated /\ Teardown
    <2>1. /\ state' \in States /\ notified' \in States
          /\ reconnect_attempt' \in 0 .. MaxAttempts + 1
          /\ spc' \in SessionPoints /\ ret' \in SessionPoints
      <3>1. CASE Callback("Disconnected", "connect")
        BY <3>1, <1>a, CallbackType
      <3>2. CASE Goto("connect") /\ UNCHANGED <<state, notified, retry>>
        BY <3>2 DEF Goto, retry
      <3> QED BY <1>4, <3>1, <3>2 DEF Teardown
    <2> QED BY <1>4, <2>1 DEF Teardown, Goto, CleanupQuic
  <1>5. CASE ~terminated /\ Reconnect
    <2>1. /\ state' \in States /\ notified' \in States
          /\ reconnect_attempt' \in 0 .. MaxAttempts + 1
          /\ spc' \in SessionPoints /\ ret' \in SessionPoints
      BY <1>5, <1>a, CallbackType DEF Reconnect
    <2> QED BY <1>5, <2>1 DEF Reconnect
  <1>6. CASE ~terminated /\ ReconnectFails
    <2>1. /\ state' \in States /\ notified' \in States
          /\ reconnect_attempt' \in 0 .. MaxAttempts + 1
          /\ spc' \in SessionPoints /\ ret' \in SessionPoints
      BY <1>6, <1>a, CallbackType DEF ReconnectFails
    <2> QED BY <1>6, <2>1 DEF ReconnectFails
  <1>7. CASE ~terminated /\ ReconnectDiscard
    BY <1>7 DEF ReconnectDiscard, Goto, Report, ScheduleRetry
  <1>8. CASE ~terminated /\ BeginReconnect
    BY <1>8 DEF BeginReconnect, Report, BeginReconnecting
  <1>9. CASE ~terminated /\ DrainConnected
    <2>1. /\ state' \in States /\ notified' \in States
          /\ reconnect_attempt' \in 0 .. MaxAttempts + 1
          /\ spc' \in SessionPoints /\ ret' \in SessionPoints
      <3>1. CASE Callback("Connected", "start_moq")
        BY <3>1, <1>a, CallbackType
      <3>2. CASE Goto("drain_transport") /\ UNCHANGED <<state, notified, retry>>
        BY <3>2 DEF Goto, retry
      <3> QED BY <1>9, <3>1, <3>2 DEF DrainConnected
    <2> QED BY <1>9, <2>1 DEF DrainConnected, Goto
  <1>10. CASE ~terminated /\ StartMoqSession
    BY <1>10 DEF StartMoqSession, Goto
  <1>11. CASE ~terminated /\ StartMoqSessionFails
    <2>1. /\ state' \in States /\ notified' \in States
          /\ reconnect_attempt' \in 0 .. MaxAttempts + 1
          /\ spc' \in SessionPoints /\ ret' \in SessionPoints
      BY <1>11, <1>a, CallbackType DEF StartMoqSessionFails
    <2> QED BY <1>11, <2>1 DEF StartMoqSessionFails
  <1>12. CASE ~terminated /\ DrainTransportShutdown
    <2>1. /\ state' \in States /\ notified' \in States
          /\ reconnect_attempt' \in 0 .. MaxAttempts + 1
          /\ spc' \in SessionPoints /\ ret' \in SessionPoints
      <3>1. CASE Callback("Failed", "drain_peer")
        BY <3>1, <1>a, CallbackType
      <3>2. CASE Goto("drain_peer") /\ UNCHANGED <<state, notified, retry>>
        BY <3>2 DEF Goto, retry
      <3> QED BY <1>12, <3>1, <3>2 DEF DrainTransportShutdown
    <2> QED BY <1>12, <2>1 DEF DrainTransportShutdown, Goto
  <1>13. CASE ~terminated /\ DrainPeerShutdown
    <2>1. /\ state' \in States /\ notified' \in States
          /\ reconnect_attempt' \in 0 .. MaxAttempts + 1
          /\ spc' \in SessionPoints /\ ret' \in SessionPoints
      <3>1. CASE Callback("Failed", "drain_control")
        BY <3>1, <1>a, CallbackType
      <3>2. CASE Goto("drain_control") /\ UNCHANGED <<state, notified, retry>>
        BY <3>2 DEF Goto, retry
      <3> QED BY <1>13, <3>1, <3>2 DEF DrainPeerShutdown
    <2> QED BY <1>13, <2>1 DEF DrainPeerShutdown, Goto
  <1>14. CASE ~terminated /\ DrainControl
    <2>1. /\ state' \in States /\ notified' \in States
          /\ reconnect_attempt' \in 0 .. MaxAttempts + 1
          /\ spc' \in SessionPoints /\ ret' \in SessionPoints
      <3>1. CASE Callback("Ready", "orchestrate")
        BY <3>1, <1>a, CallbackType
      <3>2. CASE Goto("orchestrate") /\ UNCHANGED <<state, notified, retry>>
        BY <3>2 DEF Goto, retry
      <3> QED BY <1>14, <3>1, <3>2 DEF DrainControl
    <2> QED BY <1>14, <2>1 DEF DrainControl, Goto
  <1>15. CASE ~terminated /\ Orchestrate
    BY <1>15 DEF Orchestrate, Goto
  <1>16. CASE ~terminated /\ Configure
    BY <1>16 DEF Configure
  <1>17. CASE ~terminated /\ ConnectBadUrl
    BY <1>17 DEF ConnectBadUrl, Report
  <1>18. CASE ~terminated /\ Connect
    BY <1>18 DEF Connect, Report
  <1>19. CASE ~terminated /\ ConnectFails
    BY <1>19 DEF ConnectFails, Report, BeginReconnecting
  <1>20. CASE ~terminated /\ ConnectOverThread
    BY <1>20 DEF ConnectOverThread
  <1>21. CASE ~terminated /\ Disconnect
    BY <1>21 DEF Disconnect
  <1>22. CASE ~terminated /\ DisconnectStop
    BY <1>22 DEF DisconnectStop
  <1>23. CASE ~terminated /\ DisconnectJoin
    BY <1>23 DEF DisconnectJoin
  <1>24. CASE ~terminated /\ DisconnectClose
    BY <1>24 DEF DisconnectClose, Report, CleanupQuic
  <1>25. CASE ~terminated /\ QuicConnected
    BY <1>25 DEF QuicConnected, others
  <1>26. CASE ~terminated /\ ServerSetup
    BY <1>26 DEF ServerSetup, others
  <1>27. CASE ~terminated /\ TransportShutdown
    BY <1>27 DEF TransportShutdown, others
  <1>28. CASE ~terminated /\ PeerShutdown
    BY <1>28 DEF PeerShutdown, others
  <1>29. CASE ~terminated /\ DelayPasses
    BY <1>29 DEF DelayPasses
  <1>30. CASE UNCHANGED vars
    BY <1>30 DEF vars, retry, flags, quic
  <1> QED
    BY <1>1, <1>2, <1>3, <1>4, <1>5, <1>6, <1>7, <1>8, <1>9, <1>10, <1>11, <1>12, <1>13,
       <1>14, <1>15, <1>16, <1>17, <1>18, <1>19, <1>20, <1>21, <1>22, <1>23, <1>24, <1>25,
       <1>26, <1>27, <1>28, <1>29, <1>30 DEF Next, SessionThread, HostThread, Msquic, Terminated

\* The threads, the retry cycle and what the host is told stay consistent.
LEMMA ControlStep == SessionInv /\ [Next]_vars => Control'
  <1> SUFFICES ASSUME SessionInv, [Next]_vars PROVE Control'
    OBVIOUS
  <1>a. TypeOK /\ Threads /\ Beginning /\ Retrying /\ Told /\ NoConnection
    BY DEF SessionInv, Control, Connection
  <1> USE <1>a, ConfigAssumption DEF TypeOK, Control, Threads, Beginning, Retrying, Told,
     NoConnection, Draining, MapState,
      retry, flags, quic, host
  <1>1. CASE ~terminated /\ LoopTest
    BY <1>1 DEF LoopTest, Goto
  <1>2. CASE ~terminated /\ TimerIdle
    BY <1>2 DEF TimerIdle, Goto
  <1>3. CASE ~terminated /\ AttemptReconnect
    BY <1>3, AttemptFacts DEF AttemptReconnect
  <1>4. CASE ~terminated /\ Teardown
    BY <1>4 DEF Teardown, Goto, CleanupQuic, Callback, StartsReconnecting, WhileReconnecting,
       WhileNotReconnecting, MapState, Report
  <1>5. CASE ~terminated /\ Reconnect
    BY <1>5 DEF Reconnect, Callback, StartsReconnecting, WhileReconnecting,
       WhileNotReconnecting, MapState, Report
  <1>6. CASE ~terminated /\ ReconnectFails
    BY <1>6 DEF ReconnectFails, Callback, StartsReconnecting, WhileReconnecting,
       WhileNotReconnecting, MapState, Report
  <1>7. CASE ~terminated /\ ReconnectDiscard
    BY <1>7 DEF ReconnectDiscard, Goto, Report, ScheduleRetry
  <1>8. CASE ~terminated /\ BeginReconnect
    BY <1>8 DEF BeginReconnect, Report, BeginReconnecting
  <1>9. CASE ~terminated /\ DrainConnected
    BY <1>9 DEF DrainConnected, Goto, Callback, StartsReconnecting, WhileReconnecting,
       WhileNotReconnecting, MapState, Report
  <1>10. CASE ~terminated /\ StartMoqSession
    BY <1>10 DEF StartMoqSession, Goto
  <1>11. CASE ~terminated /\ StartMoqSessionFails
    BY <1>11 DEF StartMoqSessionFails, Callback, StartsReconnecting, WhileReconnecting,
       WhileNotReconnecting, MapState, Report
  <1>12. CASE ~terminated /\ DrainTransportShutdown
    BY <1>12 DEF DrainTransportShutdown, Goto, Callback, StartsReconnecting, WhileReconnecting,
       WhileNotReconnecting, MapState, Report
  <1>13. CASE ~terminated /\ DrainPeerShutdown
    BY <1>13 DEF DrainPeerShutdown, Goto, Callback, StartsReconnecting, WhileReconnecting,
       WhileNotReconnecting, MapState, Report
  <1>14. CASE ~terminated /\ DrainControl
    BY <1>14 DEF DrainControl, Goto, Callback, StartsReconnecting, WhileReconnecting,
       WhileNotReconnecting, MapState, Report
  <1>15. CASE ~terminated /\ Orchestrate
    BY <1>15 DEF Orchestrate, Goto
  <1>16. CASE ~terminated /\ Configure
    BY <1>16 DEF Configure, ThreadGone
  <1>17. CASE ~terminated /\ ConnectBadUrl
    BY <1>17 DEF ConnectBadUrl, Report, MayConnect, ThreadGone
  <1>18. CASE ~terminated /\ Connect
    BY <1>18 DEF Connect, Report, MayConnect, ThreadGone
  <1>19. CASE ~terminated /\ ConnectFails
    BY <1>19 DEF ConnectFails, Report, BeginReconnecting, MayConnect, ThreadGone
  <1>20. CASE ~terminated /\ ConnectOverThread
    BY <1>20 DEF ConnectOverThread, MayConnect, ThreadGone
  <1>21. CASE ~terminated /\ Disconnect
    BY <1>21 DEF Disconnect
  <1>22. CASE ~terminated /\ DisconnectStop
    BY <1>22 DEF DisconnectStop
  <1>23. CASE ~terminated /\ DisconnectJoin
    BY <1>23 DEF DisconnectJoin
  <1>24. CASE ~terminated /\ DisconnectClose
    BY <1>24 DEF DisconnectClose, Report, CleanupQuic
  <1>25. CASE ~terminated /\ QuicConnected
    BY <1>25 DEF QuicConnected, others
  <1>26. CASE ~terminated /\ ServerSetup
    BY <1>26 DEF ServerSetup, others
  <1>27. CASE ~terminated /\ TransportShutdown
    BY <1>27 DEF TransportShutdown, others
  <1>28. CASE ~terminated /\ PeerShutdown
    BY <1>28 DEF PeerShutdown, others
  <1>29. CASE ~terminated /\ DelayPasses
    BY <1>29 DEF DelayPasses
  <1>30. CASE UNCHANGED vars
    BY <1>30 DEF vars, retry, flags, quic
  <1> QED
    BY <1>1, <1>2, <1>3, <1>4, <1>5, <1>6, <1>7, <1>8, <1>9, <1>10, <1>11, <1>12, <1>13,
       <1>14, <1>15, <1>16, <1>17, <1>18, <1>19, <1>20, <1>21, <1>22, <1>23, <1>24, <1>25,
       <1>26, <1>27, <1>28, <1>29, <1>30 DEF Next, SessionThread, HostThread, Msquic, Terminated

\* What is pending, said and set up belongs to the connection that is up.
LEMMA ConnectionStep == SessionInv /\ [Next]_vars => Connection'
  <1> SUFFICES ASSUME SessionInv, [Next]_vars PROVE Connection'
    OBVIOUS
  <1>a. TypeOK /\ Threads /\ Beginning /\ Retrying /\ Connection
    BY DEF SessionInv, Control
  <1> USE <1>a DEF TypeOK, Threads, Beginning, Retrying, Connection, NoConnection,
     OnceConnected, Orchestrated,
      EndNoticed, Draining, NothingPending, Fresh, Live, retry, flags, quic, host
  <1>1. CASE ~terminated /\ LoopTest
    BY <1>1 DEF LoopTest, Goto
  <1>2. CASE ~terminated /\ TimerIdle
    BY <1>2 DEF TimerIdle, Goto
  <1>3. CASE ~terminated /\ AttemptReconnect
    BY <1>3, AttemptFacts DEF AttemptReconnect
  <1>4. CASE ~terminated /\ Teardown
    BY <1>4 DEF Teardown, Goto, CleanupQuic, Callback, StartsReconnecting, WhileReconnecting,
       WhileNotReconnecting, MapState, Report
  <1>5. CASE ~terminated /\ Reconnect
    BY <1>5 DEF Reconnect, Callback, StartsReconnecting, WhileReconnecting,
       WhileNotReconnecting, MapState, Report
  <1>6. CASE ~terminated /\ ReconnectFails
    BY <1>6 DEF ReconnectFails, Callback, StartsReconnecting, WhileReconnecting,
       WhileNotReconnecting, MapState, Report
  <1>7. CASE ~terminated /\ ReconnectDiscard
    BY <1>7 DEF ReconnectDiscard, Goto, Report, ScheduleRetry
  <1>8. CASE ~terminated /\ BeginReconnect
    BY <1>8 DEF BeginReconnect, Report, BeginReconnecting
  <1>9. CASE ~terminated /\ DrainConnected
    BY <1>9 DEF DrainConnected, Goto, Callback, StartsReconnecting, WhileReconnecting,
       WhileNotReconnecting, MapState, Report
  <1>10. CASE ~terminated /\ StartMoqSession
    BY <1>10 DEF StartMoqSession, Goto
  <1>11. CASE ~terminated /\ StartMoqSessionFails
    BY <1>11 DEF StartMoqSessionFails, Callback, StartsReconnecting, WhileReconnecting,
       WhileNotReconnecting, MapState, Report
  <1>12. CASE ~terminated /\ DrainTransportShutdown
    BY <1>12 DEF DrainTransportShutdown, Goto, Callback, StartsReconnecting, WhileReconnecting,
       WhileNotReconnecting, MapState, Report
  <1>13. CASE ~terminated /\ DrainPeerShutdown
    BY <1>13 DEF DrainPeerShutdown, Goto, Callback, StartsReconnecting, WhileReconnecting,
       WhileNotReconnecting, MapState, Report
  <1>14. CASE ~terminated /\ DrainControl
    BY <1>14 DEF DrainControl, Goto, Callback, StartsReconnecting, WhileReconnecting,
       WhileNotReconnecting, MapState, Report
  <1>15. CASE ~terminated /\ Orchestrate
    BY <1>15 DEF Orchestrate, Goto
  <1>16. CASE ~terminated /\ Configure
    BY <1>16 DEF Configure, ThreadGone
  <1>17. CASE ~terminated /\ ConnectBadUrl
    BY <1>17 DEF ConnectBadUrl, Report, MayConnect, ThreadGone
  <1>18. CASE ~terminated /\ Connect
    BY <1>18 DEF Connect, Report, MayConnect, ThreadGone
  <1>19. CASE ~terminated /\ ConnectFails
    BY <1>19 DEF ConnectFails, Report, BeginReconnecting, MayConnect, ThreadGone
  <1>20. CASE ~terminated /\ ConnectOverThread
    BY <1>20 DEF ConnectOverThread, MayConnect, ThreadGone
  <1>21. CASE ~terminated /\ Disconnect
    BY <1>21 DEF Disconnect
  <1>22. CASE ~terminated /\ DisconnectStop
    BY <1>22 DEF DisconnectStop
  <1>23. CASE ~terminated /\ DisconnectJoin
    BY <1>23 DEF DisconnectJoin
  <1>24. CASE ~terminated /\ DisconnectClose
    BY <1>24 DEF DisconnectClose, Report, CleanupQuic
  <1>25. CASE ~terminated /\ QuicConnected
    BY <1>25 DEF QuicConnected, others
  <1>26. CASE ~terminated /\ ServerSetup
    BY <1>26 DEF ServerSetup, others
  <1>27. CASE ~terminated /\ TransportShutdown
    BY <1>27 DEF TransportShutdown, others
  <1>28. CASE ~terminated /\ PeerShutdown
    BY <1>28 DEF PeerShutdown, others
  <1>29. CASE ~terminated /\ DelayPasses
    BY <1>29 DEF DelayPasses
  <1>30. CASE UNCHANGED vars
    BY <1>30 DEF vars, retry, flags, quic
  <1> QED
    BY <1>1, <1>2, <1>3, <1>4, <1>5, <1>6, <1>7, <1>8, <1>9, <1>10, <1>11, <1>12, <1>13,
       <1>14, <1>15, <1>16, <1>17, <1>18, <1>19, <1>20, <1>21, <1>22, <1>23, <1>24, <1>25,
       <1>26, <1>27, <1>28, <1>29, <1>30 DEF Next, SessionThread, HostThread, Msquic, Terminated

\* What disconnect() left behind stays as it is until the host connects again: no
\* thread is there to revive it, no connection to raise an event.
LEMMA QuietStep == SessionInv /\ [Next]_vars => Quiet'
  <1> SUFFICES ASSUME SessionInv, [Next]_vars PROVE Quiet'
    OBVIOUS
  <1>a. Threads /\ Quiet
    BY DEF SessionInv, Control
  <1> USE <1>a DEF Quiet, DisconnectSticks, retry, flags, quic, host
  <1>1. CASE ~terminated /\ SessionThread
    <2>1. spc # "none" /\ UNCHANGED host
      BY <1>1 DEF SessionThread, LoopTest, TimerIdle, AttemptReconnect, Teardown, Reconnect,
         ReconnectFails, ReconnectDiscard, BeginReconnect, DrainConnected, StartMoqSession,
         StartMoqSessionFails, DrainTransportShutdown, DrainPeerShutdown, DrainControl,
         Orchestrate
    <2> QED BY <2>1
  <1>2. CASE ~terminated /\ Msquic
    BY <1>2 DEF Msquic, QuicConnected, ServerSetup, TransportShutdown, PeerShutdown, others
  <1>3. CASE ~terminated /\ Configure
    BY <1>3 DEF Configure
  <1>4. CASE ~terminated /\ ConnectBadUrl
    BY <1>4 DEF ConnectBadUrl, Report, MayConnect
  <1>5. CASE ~terminated /\ Connect
    BY <1>5 DEF Connect, Report, MayConnect
  <1>6. CASE ~terminated /\ ConnectFails
    BY <1>6 DEF ConnectFails, Report, BeginReconnecting, MayConnect
  <1>7. CASE ~terminated /\ ConnectOverThread
    BY <1>7 DEF ConnectOverThread, MayConnect, ThreadGone
  <1>8. CASE ~terminated /\ Disconnect
    BY <1>8 DEF Disconnect
  <1>9. CASE ~terminated /\ DisconnectStop
    BY <1>9 DEF DisconnectStop
  <1>10. CASE ~terminated /\ DisconnectJoin
    BY <1>10 DEF DisconnectJoin
  <1>11. CASE ~terminated /\ DisconnectClose
    BY <1>11 DEF DisconnectClose, Report, CleanupQuic, Threads
  <1>12. CASE ~terminated /\ DelayPasses
    BY <1>12 DEF DelayPasses
  <1>13. CASE UNCHANGED vars
    BY <1>13 DEF vars
  <1> QED
    BY <1>1, <1>2, <1>3, <1>4, <1>5, <1>6, <1>7, <1>8, <1>9, <1>10, <1>11, <1>12, <1>13
       DEF Next, HostThread, Terminated

\* SessionInv holds before the first connect().
LEMMA SessionInit == Init => SessionInv
  <1> SUFFICES ASSUME Init PROVE SessionInv
    OBVIOUS
  <1>1. Flags
    BY Zenon DEF Init, Flags
  <1>2. Places
    BY Names, ConfigAssumption DEF Init, Places
  <1>3. TypeOK
    BY <1>1, <1>2, TypeParts
  <1>4. Control
    BY ConfigAssumption DEF Init, Control, Threads, Beginning, Retrying, Told
  <1>5. Connection /\ Quiet
    BY DEF Init, Connection, NoConnection, OnceConnected, Orchestrated, EndNoticed, Draining,
       NothingPending, Fresh, Live, Quiet, DisconnectSticks
  <1> QED BY <1>3, <1>4, <1>5 DEF SessionInv

\* SessionInv is inductive: it survives every step of the three threads.
LEMMA SessionStep == SessionInv /\ [Next]_vars => SessionInv'
  <1> SUFFICES ASSUME SessionInv, [Next]_vars PROVE SessionInv'
    OBVIOUS
  <1>1. TypeOK'
    BY FlagsStep, PlacesStep DEF TypeOK, Flags, Places
  <1> QED BY <1>1, ControlStep, ConnectionStep, QuietStep DEF SessionInv

----------------------------------------------------------------------------
(* Theorems *)

\* The invariant behind the theorems below, in every interleaving of the host's
\* calls, the msquic events and the session thread.
THEOREM SessionInvariant == Spec => []SessionInv
  <1>1. Init => SessionInv
    BY SessionInit
  <1>2. SessionInv /\ [Next]_vars => SessionInv'
    BY SessionStep
  <1> QED BY <1>1, <1>2, PTL DEF Spec

\* SessionManager and MoqTransport keep their types; reconnect_attempt_ passes the
\* configured number of attempts by at most one.
THEOREM TypeCorrect == Spec => []TypeOK
  <1>1. SessionInv => TypeOK
    BY DEF SessionInv
  <1> QED BY <1>1, SessionInvariant, PTL

\* disconnect() is final: no reconnection, late event or thread survives it.
THEOREM DisconnectIsFinal == Spec => []DisconnectSticks
  <1>1. SessionInv => DisconnectSticks
    BY DEF SessionInv, Quiet
  <1> QED BY <1>1, SessionInvariant, PTL

\* At the top of session_thread_func()'s loop, state() tells the truth about the
\* retry cycle and the transport.
THEOREM StateAlwaysAgrees == Spec => []StateAgrees
  <1>1. SessionInv => StateAgrees
    <2> SUFFICES ASSUME SessionInv, spc = "loop", hpc = "idle"
                 PROVE  /\ notified = state
                        /\ reconnecting <=> state = "Reconnecting"
                        /\ state = "Connected" <=> (transport /\ tstate = "Ready")
                        /\ state = "Connecting" =>
                               transport /\ tstate \in {"Connecting", "Connected"}
      BY DEF StateAgrees, AtLoopTop
    <2>1. Threads /\ Retrying /\ Told
      BY DEF SessionInv, Control
    <2>2. session_running
      BY <2>1 DEF Threads
    <2> QED BY <2>1, <2>2 DEF Retrying, Told
  <1> QED BY <1>1, SessionInvariant, PTL

\* start_orchestration() has run on the connection the host is told of, and only on
\* one that reached SERVER_SETUP.
THEOREM ConnectedAlwaysOrchestrated == Spec => []ConnectedIsOrchestrated
  <1>1. SessionInv => ConnectedIsOrchestrated
    <2> SUFFICES ASSUME SessionInv, spc = "loop", hpc = "idle"
                 PROVE  /\ state = "Connected" => orchestration_started
                        /\ orchestration_started => transport /\ tstate \in {"Ready", "Failed"}
      BY DEF ConnectedIsOrchestrated, AtLoopTop
    <2>1. Threads /\ Told /\ Orchestrated
      BY DEF SessionInv, Control, Connection
    <2>2. state = "Connected" => tstate = "Ready"
      BY <2>1 DEF Threads, Told
    <2> QED BY <2>1, <2>2 DEF Orchestrated
  <1> QED BY <1>1, SessionInvariant, PTL

\* While the host is told Connected, the connection is open or the news of its end
\* is still to be drained, unless a SERVER_SETUP was drained after it.
THEOREM ConnectedAlwaysAlive == Spec => []ConnectedIsAlive
  <1>1. SessionInv => ConnectedIsAlive
    <2> SUFFICES ASSUME SessionInv, spc = "loop", hpc = "idle", state = "Connected", ~late_setup
                 PROVE  conn = "open" \/ pending_transport_shutdown \/ pending_peer_shutdown
      BY DEF ConnectedIsAlive, AtLoopTop
    <2>1. Threads /\ Told /\ EndNoticed
      BY DEF SessionInv, Control, Connection
    <2>2. tstate = "Ready"
      BY <2>1 DEF Threads, Told
    <2> QED BY <2>1, <2>2 DEF EndNoticed, Live
  <1> QED BY <1>1, SessionInvariant, PTL
=============================================================================
