------------------------------ MODULE Session ------------------------------
(***************************************************************************)
(* The connection life cycle: SessionManager (session_manager.cpp) driving *)
(* one MoqTransport (moq_transport.cpp) at a time.  Three threads act:     *)
(*   - the host's control thread calls configure(), connect() and          *)
(*     disconnect();                                                       *)
(*   - the session thread runs session_thread_func();                      *)
(*   - an msquic worker raises the connection and stream events.           *)
(* set_state() calls handle_transport_state_change() synchronously, so a   *)
(* transport transition and the session's reaction to it are one step.     *)
(* The one exception is the start of a reconnection, whose test of         *)
(* manual_disconnect_ and whose writes may be separated by the host's      *)
(* disconnect(): "begin" is the point between them.                        *)
(***************************************************************************)
EXTENDS Integers

CONSTANTS
    MaxAttempts,   \* config_.max_reconnect_attempts
    InitMayFail    \* can MsQuicOpen2 ... ConnectionStart fail synchronously?

ASSUME ConfigAssumption ==
    /\ MaxAttempts \in Nat
    /\ InitMayFail \in BOOLEAN

VARIABLES
    \* SessionManager
    state,                  \* state_
    notified,               \* the last state handed to status_callback
    reconnecting,           \* reconnecting_
    reconnect_attempt,      \* reconnect_attempt_
    due,                    \* now >= reconnect_deadline_
    backed_off,             \* history: a delay was scheduled since the last attempt
    manual_disconnect,      \* manual_disconnect_
    session_running,        \* session_running_
    orchestration_started,  \* orchestration_started_
    \* MoqTransport
    transport,              \* transport_ is not null
    tstate,                 \* current_state
    pending_connected, pending_transport_shutdown, pending_peer_shutdown,
    pending_setup,          \* a SERVER_SETUP waits in pending_control_data
    \* the QUIC connection and the server
    conn,                   \* none, handshake, open or closed
    hello,                  \* the server has CLIENT_SETUP to answer
    \* control
    spc, ret,               \* session thread, and where its callback returns to
    hpc,                    \* host thread
    quiet,                  \* history: disconnect() has returned, no connect() since
    late_setup,             \* history: this transport went from Failed to Ready
    terminated              \* std::terminate was called

retry == <<reconnecting, reconnect_attempt, due, backed_off>>
flags == <<pending_connected, pending_transport_shutdown, pending_peer_shutdown, pending_setup>>
quic  == <<conn, hello, late_setup>>
host  == <<hpc, quiet, terminated, manual_disconnect, session_running>>
vars  == <<state, notified, retry, manual_disconnect, session_running, orchestration_started,
           transport, tstate, flags, quic, spc, ret, hpc, quiet, terminated>>

States == {"Disconnected", "Connecting", "Connected", "Reconnecting", "Failed"}
TransportStates == {"Disconnected", "Connecting", "Connected", "Ready", "Failed"}

Init ==
    /\ state = "Disconnected" /\ notified = "Disconnected"
    /\ reconnecting = FALSE /\ reconnect_attempt = 0 /\ due = TRUE /\ backed_off = FALSE
    /\ manual_disconnect = FALSE /\ session_running = FALSE /\ orchestration_started = FALSE
    /\ transport = FALSE /\ tstate = "Disconnected"
    /\ pending_connected = FALSE /\ pending_transport_shutdown = FALSE
    /\ pending_peer_shutdown = FALSE /\ pending_setup = FALSE
    /\ conn = "none" /\ hello = FALSE /\ late_setup = FALSE
    /\ spc = "none" /\ ret = "none" /\ hpc = "idle"
    /\ quiet = TRUE /\ terminated = FALSE

----------------------------------------------------------------------------
(* SessionManager::handle_transport_state_change() *)

Report(cs) == state' = cs /\ notified' = cs

\* calculate_reconnect_delay_ms() and the new reconnect_deadline_: some time off.
ScheduleRetry == due' = FALSE /\ backed_off' = TRUE

MapState(ts) ==
    CASE ts = "Disconnected" -> "Disconnected"
      [] ts \in {"Connecting", "Connected"} -> "Connecting"
      [] ts = "Ready" -> "Connected"
      [] ts = "Failed" -> "Failed"

StartsReconnecting(ts) ==
    ts = "Failed" /\ ~reconnecting /\ MaxAttempts > 0 /\ ~manual_disconnect

BeginReconnecting ==
    /\ reconnecting' = TRUE
    /\ reconnect_attempt' = 0
    /\ due' = TRUE
    /\ backed_off' = FALSE
    /\ Report("Reconnecting")

WhileReconnecting(ts) ==
    /\ reconnecting
    /\ \/ /\ ts \in {"Disconnected", "Connecting", "Connected"}
          /\ UNCHANGED <<state, notified, retry>>
       \/ /\ ts = "Ready"
          /\ reconnecting' = FALSE
          /\ reconnect_attempt' = 0
          /\ Report("Connected")
          /\ UNCHANGED <<due, backed_off>>
       \/ /\ ts = "Failed"
          /\ reconnect_attempt < MaxAttempts
          /\ ScheduleRetry
          /\ UNCHANGED <<state, notified, reconnecting, reconnect_attempt>>
       \/ /\ ts = "Failed"
          /\ reconnect_attempt >= MaxAttempts
          /\ reconnecting' = FALSE
          /\ Report("Failed")
          /\ UNCHANGED <<reconnect_attempt, due, backed_off>>

WhileNotReconnecting(ts) ==
    /\ ~reconnecting
    /\ Report(MapState(ts))
    /\ reconnect_attempt' = IF ts = "Ready" THEN 0 ELSE reconnect_attempt
    /\ UNCHANGED <<reconnecting, due, backed_off>>

\* The whole callback as the session thread runs it; it goes on at `next`.
Callback(ts, next) ==
    \/ /\ StartsReconnecting(ts)
       /\ spc' = "begin" /\ ret' = next
       /\ UNCHANGED <<state, notified, retry>>
    \/ /\ ~StartsReconnecting(ts)
       /\ WhileReconnecting(ts) \/ WhileNotReconnecting(ts)
       /\ spc' = next
       /\ UNCHANGED ret

BeginReconnect ==
    /\ spc = "begin"
    /\ BeginReconnecting
    /\ spc' = ret
    /\ UNCHANGED <<host, orchestration_started, transport, tstate, flags, quic, ret>>

----------------------------------------------------------------------------
(* session_thread_func() *)

Goto(next) == spc' = next /\ UNCHANGED ret

LoopTest ==
    /\ spc = "loop"
    /\ Goto(IF session_running THEN "timer" ELSE "exited")
    /\ UNCHANGED <<host, state, notified, retry, orchestration_started, transport, tstate,
                   flags, quic>>

TimerIdle ==
    /\ spc = "timer"
    /\ ~(reconnecting /\ due)
    /\ Goto(IF transport THEN "drain_connected" ELSE "loop")
    /\ UNCHANGED <<host, state, notified, retry, orchestration_started, transport, tstate,
                   flags, quic>>

\* Mutation: attempts are counted, but the limit is not checked.
AttemptReconnect_NoLimit ==
    /\ spc = "timer"
    /\ reconnecting /\ due
    /\ reconnect_attempt' = reconnect_attempt + 1
    /\ backed_off' = FALSE
    /\ Goto("teardown")
    /\ UNCHANGED <<reconnecting, state, notified>>
    /\ UNCHANGED <<host, due, orchestration_started, transport, tstate, flags, quic>>

\* Mutation: an attempt is not counted.
AttemptReconnect_NoCount ==
    /\ spc = "timer"
    /\ reconnecting /\ due
    /\ reconnect_attempt < MaxAttempts
    /\ backed_off' = FALSE
    /\ Goto("teardown")
    /\ UNCHANGED <<reconnecting, reconnect_attempt, state, notified>>
    /\ UNCHANGED <<host, due, orchestration_started, transport, tstate, flags, quic>>

\* attempt_reconnect() up to its test of the limit.  reconnect_deadline_ stays
\* where it is.
AttemptReconnect ==
    /\ spc = "timer"
    /\ reconnecting /\ due
    /\ reconnect_attempt' = reconnect_attempt + 1
    /\ backed_off' = FALSE
    /\ \/ /\ reconnect_attempt + 1 > MaxAttempts
          /\ reconnecting' = FALSE
          /\ Report("Failed")
          /\ Goto(IF transport THEN "drain_connected" ELSE "loop")
       \/ /\ reconnect_attempt + 1 <= MaxAttempts
          /\ Goto("teardown")
          /\ UNCHANGED <<reconnecting, state, notified>>
    /\ UNCHANGED <<host, due, orchestration_started, transport, tstate, flags, quic>>

\* cleanup_quic(): the connection is closed and its pending events are dropped.
CleanupQuic ==
    /\ conn' = "none" /\ hello' = FALSE /\ late_setup' = FALSE
    /\ pending_connected' = FALSE /\ pending_transport_shutdown' = FALSE
    /\ pending_peer_shutdown' = FALSE /\ pending_setup' = FALSE

\* Mutation: reset_moq_state() forgets orchestration_started_.
Teardown_NoReset ==
    /\ spc = "teardown"
    /\ IF transport THEN Callback("Disconnected", "connect")
                    ELSE Goto("connect") /\ UNCHANGED <<state, notified, retry>>
    /\ CleanupQuic
    /\ transport' = FALSE /\ tstate' = "Disconnected"
    /\ UNCHANGED <<host, orchestration_started>>

\* disconnect() and destruction of the old transport (each reports
\* Disconnected), reset_moq_state(), ring buffers flushed.
Teardown ==
    /\ spc = "teardown"
    /\ IF transport THEN Callback("Disconnected", "connect")
                    ELSE Goto("connect") /\ UNCHANGED <<state, notified, retry>>
    /\ CleanupQuic
    /\ transport' = FALSE /\ tstate' = "Disconnected"
    /\ orchestration_started' = FALSE
    /\ UNCHANGED host

\* A new transport; its connect() reports Connecting and starts the handshake.
Reconnect ==
    /\ spc = "connect"
    /\ Callback("Connecting", "drain_connected")
    /\ transport' = TRUE /\ tstate' = "Connecting" /\ conn' = "handshake"
    /\ UNCHANGED <<host, orchestration_started, flags, hello, late_setup>>

\* Its connect() fails at once: Connecting, then Failed ...
ReconnectFails ==
    /\ spc = "connect"
    /\ InitMayFail
    /\ Callback("Failed", "discard")
    /\ transport' = TRUE /\ tstate' = "Failed"
    /\ UNCHANGED <<host, orchestration_started, flags, quic>>

\* ... and the transport is destroyed, which reports Disconnected; then the next
\* attempt is scheduled.
ReconnectDiscard ==
    /\ spc = "discard"
    /\ IF reconnecting THEN UNCHANGED <<state, notified>> ELSE Report("Disconnected")
    /\ ScheduleRetry
    /\ transport' = FALSE /\ tstate' = "Disconnected"
    /\ Goto("loop")
    /\ UNCHANGED <<host, reconnecting, reconnect_attempt, orchestration_started, flags, quic>>

----------------------------------------------------------------------------
(* MoqTransport::drain_and_parse(), on the session thread *)

DrainConnected ==
    /\ spc = "drain_connected"
    /\ pending_connected' = FALSE
    /\ \/ /\ pending_connected
          /\ tstate' = "Connected"
          /\ Callback("Connected", "start_moq")
       \/ /\ ~pending_connected
          /\ Goto("drain_transport")
          /\ UNCHANGED <<tstate, state, notified, retry>>
    /\ UNCHANGED <<host, orchestration_started, transport, quic,
                   pending_transport_shutdown, pending_peer_shutdown, pending_setup>>

\* start_moq_session(): the control stream opens and CLIENT_SETUP is sent (to
\* nobody, when the connection has closed meanwhile) ...
StartMoqSession ==
    /\ spc = "start_moq"
    /\ conn \in {"open", "closed"}
    /\ hello' = TRUE
    /\ Goto("drain_transport")
    /\ UNCHANGED <<host, state, notified, retry, orchestration_started, transport, tstate,
                   flags, conn, late_setup>>

\* ... or msquic refuses to open or to start the stream.
StartMoqSessionFails ==
    /\ spc = "start_moq"
    /\ conn = "closed" \/ InitMayFail
    /\ tstate' = "Failed"
    /\ Callback("Failed", "drain_transport")
    /\ UNCHANGED <<host, orchestration_started, transport, flags, quic>>

\* Mutation: the shutdown is noted in the transport but not reported.
DrainTransportShutdown_Silent ==
    /\ spc = "drain_transport"
    /\ pending_transport_shutdown' = FALSE
    /\ Goto("drain_peer")
    /\ tstate' = IF pending_transport_shutdown THEN "Failed" ELSE tstate
    /\ UNCHANGED <<state, notified, retry>>
    /\ UNCHANGED <<host, orchestration_started, transport, quic,
                   pending_connected, pending_peer_shutdown, pending_setup>>

DrainTransportShutdown ==
    /\ spc = "drain_transport"
    /\ pending_transport_shutdown' = FALSE
    /\ \/ /\ pending_transport_shutdown
          /\ tstate' = "Failed"
          /\ Callback("Failed", "drain_peer")
       \/ /\ ~pending_transport_shutdown
          /\ Goto("drain_peer")
          /\ UNCHANGED <<tstate, state, notified, retry>>
    /\ UNCHANGED <<host, orchestration_started, transport, quic,
                   pending_connected, pending_peer_shutdown, pending_setup>>

DrainPeerShutdown ==
    /\ spc = "drain_peer"
    /\ pending_peer_shutdown' = FALSE
    /\ \/ /\ pending_peer_shutdown
          /\ tstate' = "Failed"
          /\ Callback("Failed", "drain_control")
       \/ /\ ~pending_peer_shutdown
          /\ Goto("drain_control")
          /\ UNCHANGED <<tstate, state, notified, retry>>
    /\ UNCHANGED <<host, orchestration_started, transport, quic,
                   pending_connected, pending_transport_shutdown, pending_setup>>

\* The queued control data is parsed; SERVER_SETUP makes the transport Ready,
\* whatever state it is in.
DrainControl ==
    /\ spc = "drain_control"
    /\ pending_setup' = FALSE
    /\ late_setup' = (late_setup \/ (pending_setup /\ tstate = "Failed"))
    /\ \/ /\ pending_setup
          /\ tstate' = "Ready"
          /\ Callback("Ready", "orchestrate")
       \/ /\ ~pending_setup
          /\ Goto("orchestrate")
          /\ UNCHANGED <<tstate, state, notified, retry>>
    /\ UNCHANGED <<host, orchestration_started, transport, conn, hello,
                   pending_connected, pending_transport_shutdown, pending_peer_shutdown>>

\* start_orchestration() when the transport is Ready for the first time; then
\* outbound tracks are polled and the thread sleeps.
Orchestrate ==
    /\ spc = "orchestrate"
    /\ orchestration_started' = (orchestration_started \/ tstate = "Ready")
    /\ Goto("loop")
    /\ UNCHANGED <<host, state, notified, retry, transport, tstate, flags, quic>>

SessionThread ==
    \/ LoopTest \/ TimerIdle \/ AttemptReconnect \/ Teardown
    \/ Reconnect \/ ReconnectFails \/ ReconnectDiscard \/ BeginReconnect
    \/ DrainConnected \/ StartMoqSession \/ StartMoqSessionFails
    \/ DrainTransportShutdown \/ DrainPeerShutdown \/ DrainControl \/ Orchestrate

----------------------------------------------------------------------------
(* The host's control thread *)

ThreadGone == spc = "none"

MayConnect ==
    /\ hpc = "idle"
    /\ state \notin {"Connecting", "Connected", "Reconnecting"}

Configure ==
    /\ hpc = "idle" /\ ThreadGone
    /\ state' = "Disconnected"
    /\ UNCHANGED <<hpc, quiet, terminated, manual_disconnect, session_running, notified, retry,
                   orchestration_started, transport, tstate, flags, quic, spc, ret>>

ConnectBadUrl ==
    /\ MayConnect
    /\ Report("Failed")
    /\ quiet' = FALSE
    /\ UNCHANGED <<retry, manual_disconnect, session_running, orchestration_started, transport,
                   tstate, flags, quic, spc, ret, hpc, terminated>>

\* connect() with the session thread not running: a transport, Connecting, and
\* the thread.
Connect ==
    /\ MayConnect /\ ThreadGone
    /\ manual_disconnect' = FALSE
    /\ reconnecting' = FALSE /\ reconnect_attempt' = 0
    /\ transport' = TRUE /\ tstate' = "Connecting" /\ conn' = "handshake"
    /\ Report("Connecting")
    /\ session_running' = TRUE
    /\ spc' = "loop"
    /\ quiet' = FALSE
    /\ UNCHANGED <<due, backed_off, orchestration_started, flags, hello, late_setup, ret, hpc, terminated>>

\* transport_->connect() returns false: it has reported Connecting and Failed, and
\* its destruction reports Disconnected, which a reconnecting session ignores.
ConnectFails ==
    /\ MayConnect /\ ThreadGone
    /\ InitMayFail
    /\ manual_disconnect' = FALSE
    /\ \/ /\ MaxAttempts > 0
          /\ BeginReconnecting
       \/ /\ MaxAttempts = 0
          /\ reconnecting' = FALSE /\ reconnect_attempt' = 0
          /\ Report("Disconnected")
          /\ UNCHANGED <<due, backed_off>>
    /\ quiet' = FALSE
    /\ UNCHANGED <<session_running, orchestration_started, transport, tstate, flags, quic, spc,
                   ret, hpc, terminated>>

\* connect() while the session thread runs: session_thread_ is assigned over a
\* joinable std::thread.
ConnectOverThread ==
    /\ MayConnect /\ ~ThreadGone
    /\ terminated' = TRUE
    /\ hpc' = "terminated"
    /\ UNCHANGED <<state, notified, retry, manual_disconnect, session_running,
                   orchestration_started, transport, tstate, flags, quic, spc, ret, quiet>>

\* Mutation: the session thread is left to notice by itself, without a join.
DisconnectStop_NoJoin ==
    /\ hpc = "stop"
    /\ reconnecting' = FALSE
    /\ session_running' = FALSE
    /\ hpc' = "close"
    /\ UNCHANGED <<state, notified, reconnect_attempt, due, backed_off, manual_disconnect,
                   orchestration_started, transport, tstate, flags, quic, spc, ret, quiet,
                   terminated>>

\* Mutation: session_running_ stays set.
DisconnectStop_KeepsRunning ==
    /\ hpc = "stop"
    /\ reconnecting' = FALSE
    /\ hpc' = IF session_running THEN "join" ELSE "close"
    /\ UNCHANGED <<state, notified, reconnect_attempt, due, backed_off, manual_disconnect,
                   session_running, orchestration_started, transport, tstate, flags, quic, spc,
                   ret, quiet, terminated>>

\* disconnect(): first manual_disconnect_ ...
Disconnect ==
    /\ hpc = "idle"
    /\ state # "Disconnected" \/ session_running \/ transport
    /\ manual_disconnect' = TRUE
    /\ hpc' = "stop"
    /\ UNCHANGED <<state, notified, retry, session_running, orchestration_started, transport,
                   tstate, flags, quic, spc, ret, quiet, terminated>>

\* ... then reconnecting_ and session_running_ ...
DisconnectStop ==
    /\ hpc = "stop"
    /\ reconnecting' = FALSE
    /\ session_running' = FALSE
    /\ hpc' = IF session_running THEN "join" ELSE "close"
    /\ UNCHANGED <<state, notified, reconnect_attempt, due, backed_off, manual_disconnect,
                   orchestration_started, transport, tstate, flags, quic, spc, ret, quiet,
                   terminated>>

DisconnectJoin ==
    /\ hpc = "join"
    /\ spc = "exited"
    /\ spc' = "none"
    /\ hpc' = "close"
    /\ UNCHANGED <<state, notified, retry, manual_disconnect, session_running,
                   orchestration_started, transport, tstate, flags, quic, ret, quiet,
                   terminated>>

\* ... and the transport, the MOQ state, the rings and the final report.
DisconnectClose ==
    /\ hpc = "close"
    /\ CleanupQuic
    /\ transport' = FALSE /\ tstate' = "Disconnected"
    /\ orchestration_started' = FALSE
    /\ Report("Disconnected")
    /\ hpc' = "idle" /\ quiet' = TRUE
    /\ UNCHANGED <<retry, manual_disconnect, session_running, spc, ret, terminated>>

HostThread ==
    \/ Configure \/ ConnectBadUrl \/ Connect \/ ConnectFails \/ ConnectOverThread
    \/ Disconnect \/ DisconnectStop \/ DisconnectJoin \/ DisconnectClose

----------------------------------------------------------------------------
(* msquic and the server; on_connection_event() and on_stream_event() only  *)
(* leave a flag or queued data behind for the session thread.               *)

others == <<host, state, notified, retry, orchestration_started, transport, tstate, spc, ret>>

QuicConnected ==
    /\ conn = "handshake"
    /\ conn' = "open"
    /\ pending_connected' = TRUE
    /\ UNCHANGED <<others, late_setup, hello, pending_transport_shutdown, pending_peer_shutdown,
                   pending_setup>>

ServerSetup ==
    /\ conn = "open" /\ hello
    /\ hello' = FALSE
    /\ pending_setup' = TRUE
    /\ UNCHANGED <<others, late_setup, conn, pending_connected, pending_transport_shutdown,
                   pending_peer_shutdown>>

\* Timeout, refusal or loss of the path.
TransportShutdown ==
    /\ conn \in {"handshake", "open"}
    /\ conn' = "closed"
    /\ pending_transport_shutdown' = TRUE
    /\ UNCHANGED <<others, late_setup, hello, pending_connected, pending_peer_shutdown, pending_setup>>

PeerShutdown ==
    /\ conn = "open"
    /\ conn' = "closed"
    /\ pending_peer_shutdown' = TRUE
    /\ UNCHANGED <<others, late_setup, hello, pending_connected, pending_transport_shutdown, pending_setup>>

\* The scheduled delay passes.
DelayPasses ==
    /\ ~due
    /\ due' = TRUE
    /\ UNCHANGED <<host, state, notified, reconnecting, reconnect_attempt, backed_off,
                   orchestration_started, transport, tstate, flags, quic, spc, ret>>

Msquic == QuicConnected \/ ServerSetup \/ TransportShutdown \/ PeerShutdown

\* After std::terminate nothing happens any more.
Terminated == terminated /\ UNCHANGED vars

Next ==
    \/ ~terminated /\ (SessionThread \/ HostThread \/ Msquic \/ DelayPasses)
    \/ Terminated

Spec == Init /\ [][Next]_vars

\* The operating system runs the session thread and lets time pass, and a
\* disconnect() that has begun goes on.  Nothing is assumed of the network or of
\* when the host calls.
Fairness ==
    /\ WF_vars(SessionThread)
    /\ WF_vars(DelayPasses)
    /\ WF_vars(DisconnectStop \/ DisconnectJoin \/ DisconnectClose)

FairSpec == Spec /\ Fairness
----------------------------------------------------------------------------
(* Properties *)

SessionPoints == {"none", "loop", "timer", "teardown", "connect", "discard", "begin",
    "drain_connected", "start_moq", "drain_transport", "drain_peer", "drain_control",
    "orchestrate", "exited"}

\* Every variable keeps its type; in particular reconnect_attempt_ exceeds the
\* configured number of attempts by at most the one that is refused.
TypeOK ==
    /\ state \in States /\ notified \in States
    /\ reconnecting \in BOOLEAN /\ reconnect_attempt \in 0 .. MaxAttempts + 1
    /\ due \in BOOLEAN /\ backed_off \in BOOLEAN
    /\ manual_disconnect \in BOOLEAN /\ session_running \in BOOLEAN
    /\ orchestration_started \in BOOLEAN
    /\ transport \in BOOLEAN /\ tstate \in TransportStates
    /\ pending_connected \in BOOLEAN /\ pending_transport_shutdown \in BOOLEAN
    /\ pending_peer_shutdown \in BOOLEAN /\ pending_setup \in BOOLEAN
    /\ conn \in {"none", "handshake", "open", "closed"} /\ hello \in BOOLEAN /\ late_setup \in BOOLEAN
    /\ spc \in SessionPoints /\ ret \in SessionPoints
    /\ hpc \in {"idle", "stop", "join", "close", "terminated"}
    /\ quiet \in BOOLEAN /\ terminated \in BOOLEAN

AtLoopTop == spc = "loop" /\ hpc = "idle"

\* Once disconnect() has returned nothing is left of the session and nothing
\* revives it: no thread, transport, connection or pending event, and the host's
\* last word was Disconnected, however disconnect() met the start of a
\* reconnection or an attempt under way.
DisconnectSticks ==
    hpc = "idle" /\ quiet =>
        /\ state = "Disconnected" /\ notified = "Disconnected"
        /\ spc = "none" /\ ~session_running
        /\ ~transport /\ conn = "none" /\ ~orchestration_started
        /\ ~(pending_connected \/ pending_transport_shutdown
              \/ pending_peer_shutdown \/ pending_setup)

\* Whenever the session thread is between two passes, the state the host reads
\* with state() is the one its callback heard last, and it tells the truth about
\* the retry cycle and the transport.
StateAgrees ==
    AtLoopTop =>
        /\ notified = state
        /\ reconnecting <=> state = "Reconnecting"
        /\ state = "Connected" <=> (transport /\ tstate = "Ready")
        /\ state = "Connecting" => transport /\ tstate \in {"Connecting", "Connected"}

\* Tracks are announced and subscribed on every connection the host is told of:
\* also after a reconnection, whose reset_moq_state() must have re-armed it, and
\* never on a connection that was replaced before its SERVER_SETUP.
ConnectedIsOrchestrated ==
    /\ AtLoopTop /\ state = "Connected" => orchestration_started
    /\ AtLoopTop /\ orchestration_started => transport /\ tstate \in {"Ready", "Failed"}

\* A lost connection is noticed: while the host is told Connected, the connection
\* is open or the news of its end is still to be drained.  The one exception is a
\* SERVER_SETUP that is drained after the end of its connection.
ConnectedIsAlive ==
    AtLoopTop /\ state = "Connected" /\ ~late_setup =>
        conn = "open" \/ pending_transport_shutdown \/ pending_peer_shutdown

\* A session that reports Reconnecting and has a thread gets out of it: a
\* connection, a failure, or the host's disconnect().  The exception is the session
\* whose connect() failed at once: the callback has begun a retry cycle, connect()
\* returns without the thread that would go through with it, and only the host's
\* disconnect() ends it (ReconnectingEnds).
ReconnectResolves ==
    state = "Reconnecting" /\ session_running ~> state # "Reconnecting"

\* disconnect() always returns: the session thread notices and is joined.
DisconnectReturns == hpc = "stop" ~> hpc = "idle"

----------------------------------------------------------------------------
(* What the repository says of the session and the code does not keep *)

\* "retries with exponential backoff" (docs/guide.md): a delay lies between the
\* attempts of one retry cycle.
BackoffBetweenAttempts ==
    [][spc = "timer" /\ spc' = "teardown" /\ reconnect_attempt > 0 => backed_off]_vars

\* "State already set to Failed by transport callback" (connect()): a session does
\* not stay Reconnecting for ever, with or without a thread.
ReconnectingEnds == state = "Reconnecting" ~> state # "Reconnecting"

\* "On unexpected disconnection, the library retries" (docs/guide.md): ConnectedIsAlive
\* also when the SERVER_SETUP and the end of its connection are drained in one pass,
\* in an order of drain_and_parse()'s own.
EveryLossNoticed ==
    AtLoopTop /\ state = "Connected" =>
        conn = "open" \/ pending_transport_shutdown \/ pending_peer_shutdown

=============================================================================
