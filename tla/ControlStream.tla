--------------------------- MODULE ControlStream ---------------------------
(***************************************************************************)
(* The control stream of one connection after another, byte for byte: how  *)
(* MoqTransport (moq_transport.cpp) puts messages together again that QUIC *)
(* delivers in arbitrary pieces, and what SessionManager's                 *)
(* handle_control_message() reads in them and answers.                     *)
(*   - An msquic worker queues every piece it receives.                    *)
(*   - The session thread, in process_incoming(), moves the queue to       *)
(*     recv_buffer_, hands over each whole message and keeps the rest.     *)
(* The transport's flags and states other than Connected and Ready are     *)
(* those of module Session, aliases and tracks those of Orchestration.     *)
(***************************************************************************)
EXTENDS MoqMessages

CONSTANTS
    Scripts,         \* what the server may send over a connection: sequences of messages
    Requests,        \* what start_orchestration() sends
    Setup,           \* the ClientSetupConfig
    PieceSizes,      \* bytes a RECEIVE event may bring
    MaxQueued,       \* bound: pieces that wait for the session thread
    MaxConnections   \* bound

ASSUME BoundsAssumption ==
    /\ PieceSizes \subseteq Nat \ {0}
    /\ MaxQueued \in Nat /\ MaxConnections \in Nat

VARIABLES
    open,                  \* the stream can deliver
    current_state,         \* "Connected", "Ready" or "Disconnected"
    pending_control_data,  \* pieces queued by the msquic worker
    recv_buffer,
    pc,                    \* where the session thread is in drain_and_parse()
    offset,                \*   how much of recv_buffer it has handled
    script, sent,          \* the server's script, and how much of it the server has sent
    wire,                  \* bytes sent and not yet received
    handled,               \* history: what handle_control_message() read in each message
    said,                  \* history: the messages the client has sent
    aliases,               \* next_track_alias_
    connections            \* bound: connections so far

thread  == <<pc, offset>>
network == <<open, script, sent, wire, connections>>
client  == <<said, aliases>>
vars    == <<current_state, pending_control_data, recv_buffer, thread, network, handled, client>>

Messages == UNION {ToSet(s) : s \in Scripts}

----------------------------------------------------------------------------
(* Messages *)

\* The server's encoder follows the same format, and for the messages that the
\* client only reads it is the inverse of the client's parser.
Frame(m) ==
    CASE m.type = "ClientSetup"    -> build_client_setup(m.body)
      [] m.type = "Subscribe"      -> build_subscribe(m.body)
      [] m.type = "SubscribeOk"    -> build_subscribe_ok(m.body)
      [] m.type = "Announce"       -> build_announce(m.body)
      [] m.type = "AnnounceOk"     -> build_announce_ok(m.body.request_id)
      [] m.type = "SubscribeAnnouncesOk" -> build_subscribe_announces_ok(m.body.request_id)
      [] m.type = "ServerSetup"    ->
            build_control_message(MessageType.ServerSetup, encode_params(m.body.params))
      [] m.type = "SubscribeError" ->
            build_control_message(MessageType.SubscribeError,
                encode_varint(m.body.request_id) \o encode_varint(m.body.error_code) \o
                encode_varint(m.body.retry_interval) \o append_string_bytes(m.body.reason))
      [] m.type = "SubscribeAnnounces" ->
            build_control_message(MessageType.SubscribeAnnounces,
                encode_varint(m.body.request_id) \o encode_namespace(m.body.track_namespace) \o
                encode_params(m.body.params))

\* The fields of a message, in the words of the Config structure of its builder.
IsBody(type, b) ==
    \/ type \in {"AnnounceOk", "SubscribeAnnouncesOk"} /\ b \in [request_id : Numbers]
    \/ type = "ClientSetup" /\ b \in [path : Strings, max_subscribe_id : Numbers]
    \/ type = "ServerSetup" /\ b \in [params : Params]
    \/ type = "Announce" /\ b \in [request_id : Numbers, track_namespace : Namespaces]
    \/ type = "SubscribeAnnounces" /\
          b \in [request_id : Numbers, track_namespace : Namespaces, params : Params]
    \/ type = "SubscribeError" /\
          b \in [request_id : Numbers, error_code : Numbers, retry_interval : Numbers,
                reason : Strings]
    \/ /\ type = "SubscribeOk"
       /\ b \in [request_id : Numbers, track_alias : Numbers, expires_ms : Numbers,
                 group_order : Bytes, content_exists : BOOLEAN,
                 largest_group_id : Numbers, largest_object_id : Numbers]
       /\ ~b.content_exists => b.largest_group_id = 0 /\ b.largest_object_id = 0
    \/ /\ type = "Subscribe"
       /\ b \in [request_id : Numbers, track_namespace : Namespaces, track_name : Strings,
                 priority : Bytes, group_order : Bytes, forward : Bytes, filter_type : Numbers,
                 authorization : Strings, extra_params : Params]
       /\ SubscribeParams(b) \in Params

\* A message that can be written: its content is shorter than its two bytes of length
\* can say (with the code's bytes, the type takes one).
IsMessage(m) == IsBody(m.type, m.body) /\ Len(Frame(m)) < Power[2] + 3

ASSUME MessagesAssumption ==
    /\ \A s \in Scripts : s \in Seq(Messages) /\ Len(s) + 1 \in Numbers
    /\ \A s \in Scripts : s # <<>> => s[1].type = "ServerSetup"
    /\ Requests \in Seq(ToSet(Requests))
    /\ \A m \in Messages \cup ToSet(Requests) \cup {[type |-> "ClientSetup", body |-> Setup]} :
          m = [type |-> m.type, body |-> m.body] /\ IsMessage(m)

\* Who reads a message, and with which parser.
Parsed(type, content) ==
    CASE type = MessageType.SubscribeOk        -> parse_subscribe_ok(content)
      [] type = MessageType.SubscribeError     -> parse_subscribe_error(content)
      [] type = MessageType.Subscribe          -> parse_subscribe(content)
      [] type = MessageType.Announce           -> parse_announce(content)
      [] type = MessageType.AnnounceOk         -> parse_announce_ok(content)
      [] type = MessageType.SubscribeAnnouncesOk -> parse_announce_ok(content)
      [] type = MessageType.SubscribeAnnounces -> parse_subscribe_announces(content)
      [] type \in {MessageType.ServerSetup, MessageType.ClientSetup} -> parse_server_setup(content)
      [] OTHER -> Failed

\* The namespaces the client publishes.
Published == {m.body.track_namespace : m \in {r \in ToSet(Requests) : r.type = "Announce"}}

\* What handle_control_message() sends in answer to r, read in a message of `type`.
Answer(type, r) ==
    CASE type = MessageType.Announce ->
            <<[type |-> "AnnounceOk", body |-> [request_id |-> r.request_id]]>>
      [] type = MessageType.SubscribeAnnounces ->
            <<[type |-> "SubscribeAnnouncesOk", body |-> [request_id |-> r.request_id]]>>
      [] type = MessageType.Subscribe /\ r.track_namespace \in Published ->
            <<[type |-> "SubscribeOk",
               body |-> [request_id |-> r.request_id, track_alias |-> aliases, expires_ms |-> 0,
                         group_order |-> 0, content_exists |-> FALSE,
                         largest_group_id |-> 0, largest_object_id |-> 0]]>>
      [] OTHER -> <<>>

----------------------------------------------------------------------------
(* Connections *)

Fresh ==
    /\ wire' = <<>> /\ sent' = 0
    /\ handled' = <<>> /\ said' = <<>> /\ aliases' = 1

Init ==
    /\ open = FALSE /\ current_state = "Disconnected"
    /\ pending_control_data = <<>> /\ recv_buffer = <<>>
    /\ pc = "idle" /\ offset = 0
    /\ script \in Scripts /\ sent = 0 /\ wire = <<>>
    /\ handled = <<>> /\ said = <<>> /\ aliases = 1 /\ connections = 0

\* connect(), up to the pass that finds the connection up: start_moq_session()
\* opens the stream and sends CLIENT_SETUP.
StartMoqSession ==
    /\ current_state = "Disconnected" /\ pc = "idle"
    /\ connections < MaxConnections
    /\ connections' = connections + 1
    /\ open' = TRUE /\ current_state' = "Connected"
    /\ said' = <<[type |-> "ClientSetup", body |-> Setup]>>
    /\ UNCHANGED <<pending_control_data, recv_buffer, thread, script, sent, wire, handled, aliases>>

ConnectionDies ==
    /\ open
    /\ open' = FALSE /\ wire' = <<>>
    /\ UNCHANGED <<current_state, pending_control_data, recv_buffer, thread, script, sent,
                   connections, handled, client>>

\* disconnect(), by the thread that calls process_incoming() or after it has ended.
\* cleanup_quic() first closes the stream: no event comes any more.
DisconnectClose ==
    /\ pc = "idle" /\ current_state # "Disconnected"
    /\ open' = FALSE /\ wire' = <<>>
    /\ pc' = "clear"
    /\ UNCHANGED <<current_state, pending_control_data, recv_buffer, offset, script, sent,
                   connections, handled, client>>

\* Mutation: what has been put together so far is kept.
DisconnectClear_KeepsBuffer ==
    /\ pc = "clear"
    /\ pending_control_data' = <<>>
    /\ current_state' = "Disconnected"
    /\ pc' = "idle"
    /\ script' \in Scripts
    /\ Fresh
    /\ UNCHANGED <<recv_buffer, offset, open, connections>>

\* Then it empties the buffer and the queue.
DisconnectClear ==
    /\ pc = "clear"
    /\ pending_control_data' = <<>> /\ recv_buffer' = <<>>
    /\ current_state' = "Disconnected"
    /\ pc' = "idle"
    /\ script' \in Scripts
    /\ Fresh
    /\ UNCHANGED <<offset, open, connections>>

----------------------------------------------------------------------------
(* The server, the network and the msquic worker *)

ServerSends ==
    /\ open /\ said # <<>>
    /\ sent < Len(script)
    /\ sent' = sent + 1
    /\ wire' = wire \o Frame(script[sent + 1])
    /\ UNCHANGED <<current_state, pending_control_data, recv_buffer, thread, open, script,
                   connections, handled, client>>

\* One buffer of a RECEIVE event.
ReceivePiece(n) ==
    /\ open
    /\ n <= Len(wire)
    /\ Len(pending_control_data) < MaxQueued
    /\ pending_control_data' = Append(pending_control_data, SubSeq(wire, 1, n))
    /\ wire' = SubSeq(wire, n + 1, Len(wire))
    /\ UNCHANGED <<current_state, recv_buffer, thread, open, script, sent, connections, handled,
                   client>>

----------------------------------------------------------------------------
(* drain_and_parse() *)

DrainPiece ==
    /\ pc \in {"idle", "drain"}
    /\ pending_control_data # <<>>
    /\ pc' = "drain"
    /\ recv_buffer' = recv_buffer \o Head(pending_control_data)
    /\ pending_control_data' = Tail(pending_control_data)
    /\ UNCHANGED <<current_state, offset, network, handled, client>>

StartParsing ==
    /\ pc \in {"idle", "drain"}
    /\ pending_control_data = <<>> /\ recv_buffer # <<>>
    /\ pc' = "parse" /\ offset' = 0
    /\ UNCHANGED <<current_state, pending_control_data, recv_buffer, network, handled, client>>

NextMessage == parse_control_message(SubSeq(recv_buffer, offset + 1, Len(recv_buffer)))

\* SERVER_SETUP makes the transport Ready and is handed over like every message;
\* what does not parse is logged.
HandleMessage ==
    /\ pc = "parse"
    /\ NextMessage.ok
    /\ LET m == NextMessage.val
           r == Parsed(m.type, m.content)
           answer == IF r.ok THEN Answer(m.type, r.val) ELSE <<>>
       IN  /\ current_state' = IF m.type = MessageType.ServerSetup /\ r.ok THEN "Ready"
                               ELSE current_state
           /\ handled' = IF r.ok THEN Append(handled, [type |-> m.type, read |-> r.val])
                         ELSE handled
           /\ said' = said \o answer
           /\ aliases' = IF m.type = MessageType.Subscribe /\ answer # <<>> THEN aliases + 1
                         ELSE aliases
    /\ offset' = offset + NextMessage.at
    /\ UNCHANGED <<pc, pending_control_data, recv_buffer, network>>

\* Mutation: the incomplete message at the end is thrown away.
StopParsing_DropsRest ==
    /\ pc = "parse"
    /\ ~NextMessage.ok
    /\ recv_buffer' = <<>>
    /\ pc' = "idle" /\ offset' = 0
    /\ UNCHANGED <<current_state, pending_control_data, network, handled, client>>

\* The incomplete message at the end, if any, waits for more.
StopParsing ==
    /\ pc = "parse"
    /\ ~NextMessage.ok
    /\ recv_buffer' = SubSeq(recv_buffer, offset + 1, Len(recv_buffer))
    /\ pc' = "idle" /\ offset' = 0
    /\ UNCHANGED <<current_state, pending_control_data, network, handled, client>>

\* start_orchestration(), in the pass that finds the session Ready.
Orchestrate ==
    /\ pc = "idle" /\ current_state = "Ready"
    /\ ~\E m \in ToSet(Requests) : m \in ToSet(said)
    /\ said' = said \o Requests
    /\ UNCHANGED <<current_state, pending_control_data, recv_buffer, thread, network, handled,
                   aliases>>

----------------------------------------------------------------------------
Server        == ServerSends \/ ConnectionDies
MsquicWorker  == \E n \in PieceSizes : ReceivePiece(n)
DrainAndParse == DrainPiece \/ StartParsing \/ HandleMessage \/ StopParsing
SessionThread == DrainAndParse \/ StartMoqSession \/ Orchestrate \/ DisconnectClose \/ DisconnectClear

Next == Server \/ MsquicWorker \/ SessionThread
Spec == Init /\ [][Next]_vars

\* drain_and_parse() has something to do.
Work ==
    \/ pc \in {"drain", "parse"}
    \/ pc = "idle" /\ (pending_control_data # <<>> \/ recv_buffer # <<>>)

\* QUIC delivers what is sent while the connection lasts, and the session thread
\* calls process_incoming() again and again: the second is the weak fairness of
\* DrainAndParse, with Work for ENABLED DrainAndParse.
FairSpec == Spec /\ WF_vars(MsquicWorker) /\ ([]<>~Work \/ []<><<DrainAndParse>>_vars)

----------------------------------------------------------------------------
(* Properties *)

\* Every variable keeps its type, and the session thread never counts past the end
\* of recv_buffer_.
TypeOK ==
    /\ open \in BOOLEAN /\ current_state \in {"Disconnected", "Connected", "Ready"}
    /\ \A i \in DOMAIN pending_control_data : pending_control_data[i] \in Seq(Bytes)
    /\ recv_buffer \in Seq(Bytes) /\ wire \in Seq(Bytes)
    /\ pc \in {"idle", "drain", "parse", "clear"} /\ offset \in 0 .. Len(recv_buffer)
    /\ script \in Scripts /\ sent \in 0 .. Len(script)
    /\ aliases \in Nat \ {0} /\ connections \in 0 .. MaxConnections

\* What a message says, in the words of the Result structure of its parser.
Meaning(m) ==
    LET b == m.body
    IN  CASE m.type \in {"AnnounceOk", "SubscribeAnnouncesOk", "SubscribeOk"} -> b
          [] m.type = "ClientSetup" ->
                [params |-> <<BytesParam(1, b.path), IntParam(2, b.max_subscribe_id)>>]
          [] m.type = "ServerSetup" -> [params |-> Sorted[b.params]]
          [] m.type = "SubscribeError" ->
                [request_id |-> b.request_id, error_code |-> b.error_code, reason |-> b.reason]
          [] m.type = "Announce" ->
                [request_id |-> b.request_id, track_namespace |-> b.track_namespace,
                 params |-> <<>>]
          [] m.type = "SubscribeAnnounces" -> [b EXCEPT !.params = Sorted[@]]
          [] m.type = "Subscribe" ->
                [request_id |-> b.request_id, track_namespace |-> b.track_namespace,
                 track_name |-> b.track_name, priority |-> b.priority,
                 group_order |-> b.group_order, forward |-> b.forward,
                 filter_type |-> b.filter_type,
                 params |-> Sorted[
                    <<IntParam(16, b.forward), IntParam(32, b.priority),
                      BytesParam(33, encode_varint(b.filter_type)), IntParam(34, b.group_order)>>
                    \o (IF b.authorization = <<>> THEN <<>> ELSE <<BytesParam(3, b.authorization)>>)
                    \o b.extra_params]]

AsRead(m) == [type |-> MessageType[m.type], read |-> Meaning(m)]

\* The session hands over what the server sent: every message once, whole, with the
\* meaning the server gave it and in its order, however the stream was cut into
\* pieces and whenever the session thread looked, and nothing of one connection
\* ever turns up in the next.
Channel == INSTANCE MessageChannel WITH
    Messages  <- {AsRead(m) : m \in Messages},
    sent      <- [i \in 1 .. sent |-> AsRead(script[i])],
    delivered <- handled

ImplementsChannel == Channel!Spec

\* No message waits for ever for bytes that are already there: what the server has
\* sent is handed over, unless the connection ends.
HandledEventually ==
    \A i \in UNION {DOMAIN s : s \in Scripts} : sent >= i /\ open ~> Len(handled) >= i \/ ~open

\* The n messages at the start of a stream, as the server's parsers take them apart.
ReadStream(stream, n) ==
    LET Message(before, at) ==
            LET m == parse_control_message(SubSeq(stream, at + 1, Len(stream)))
                r == Parsed(m.val.type, m.val.content)
            IN  IF ~m.ok THEN Failed
                ELSE IF ~r.ok THEN Failed
                ELSE Read([type |-> m.val.type, read |-> r.val], at + m.at)
    IN  ReadMany(Message, n, 0)

\* The server finds in the client's stream exactly the messages the client meant:
\* its setup, its requests with the host's parameters, and its answers under the
\* request ids they answer.
ServerHears ==
    LET stream == FlattenSeq([i \in DOMAIN said |-> Frame(said[i])])
    IN  ReadStream(stream, Len(said)) =
            Read([i \in DOMAIN said |-> AsRead(said[i])], Len(stream))

=============================================================================
