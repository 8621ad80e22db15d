--------------------------- MODULE Orchestration ---------------------------
(***************************************************************************)
(* What a session does with its connections: requests, aliases, object ids *)
(* and the two media paths of SessionManager (session_manager.cpp).        *)
(*   - The session thread sends SUBSCRIBE and ANNOUNCE, handles the        *)
(*     server's control messages, and sends the outbound audio.            *)
(*   - An msquic worker hands each inbound datagram to the track of its    *)
(*     alias.                                                              *)
(*   - The host's control thread calls connect(), disconnect() and         *)
(*     send_data(), its real-time thread write_audio().                    *)
(* How connections come and go is module Session; here `phase` keeps what  *)
(* the media paths see of it.  moq_request_id, outbound_alias_map_ and     *)
(* next_group_id are written and never used, and are left out.             *)
(***************************************************************************)
EXTENDS Integers, Sequences, Functions, FiniteSets

CONSTANTS
    tracks,          \* config_.tracks: direction, type, codec and namespace
    Aliases,         \* the aliases the server may choose from
    RingBlocks,      \* audio blocks an outbound ring holds
    MaxConnections, MaxAsks, MaxUnread, MaxBlocks, MaxSends  \* bounds

Tracks   == DOMAIN tracks
Inbound  == {t \in Tracks : tracks[t].direction = "Inbound"}
Outbound == Tracks \ Inbound
Audio    == {t \in Tracks : tracks[t].type = "Audio"}
Data     == Tracks \ Audio

\* Outbound namespaces are distinct; the code matches a SUBSCRIBE by its
\* namespace alone.
ASSUME TracksAssumption ==
    /\ tracks \in Seq([direction : {"Inbound", "Outbound"}, type : {"Audio", "Data"},
                       codec : {"Opus", "PCM"}, ns : STRING])
    /\ \A t, u \in Outbound : tracks[t].ns = tracks[u].ns => t = u
    /\ Aliases \subseteq Nat \ {0}
    /\ RingBlocks \in Nat \ {0}
    /\ {MaxConnections, MaxAsks, MaxUnread, MaxBlocks, MaxSends} \subseteq Nat

VARIABLES
    \* SessionManager
    phase,                  \* of the connection, as the session thread knows it: "idle",
                            \* "connecting", "connected", "lost", "down" or "retrying"
    request_id_map, inbound_alias_map, next_request_id, next_track_alias,
    orchestration_started, first_subscribe_sent,
    moq_track_alias, next_object_id,   \* of each track
    replying,               \* {<<id, alias>>} of the SUBSCRIBE being answered, or {}
    ring,                   \* outbound rings: the connection each block was captured under
    writing,                \* write_audio() of each track, between its steps
    slipped,                \* history: rings whose positions and count have come apart
    sending,                \* the host's send_data(), between its steps
    \* the connection
    era,                    \* history: connections torn down so far
    open,                   \* the QUIC connection is up
    control,                \* control messages from the server, unread
    \* the server's side of this connection
    requests,               \* SUBSCRIBE and ANNOUNCE received
    answered,               \* ids of the SUBSCRIBEs it has answered
    granted,                \* <<alias, track>> of its SUBSCRIBE_OKs
    asked,                  \* its own SUBSCRIBEs: <<id, track>>
    asks,                   \* how many SUBSCRIBEs it has sent
    replies,                \* SUBSCRIBE_OKs it got back: <<id, alias>>
    sent,                   \* datagrams it can receive, of each track, in order
    \* history, and bounds on the host
    routed,                 \* <<track a datagram was handed to, track it was meant for>>
    blocks, sends

moq    == <<request_id_map, inbound_alias_map, next_request_id, next_track_alias,
            orchestration_started, first_subscribe_sent, moq_track_alias>>
rings  == <<ring, writing, slipped>>
server == <<requests, answered, granted, asked, asks, replies>>
bounds == <<blocks, sends>>
vars   == <<phase, moq, next_object_id, replying, rings, sending, era, open, control, server,
            sent, routed, bounds>>

NotSending == [at |-> "idle"]

\* The server's view, and what the properties say of it, is of one connection.
NewServer ==
    /\ requests' = <<>> /\ answered' = {} /\ granted' = {}
    /\ asked' = {} /\ asks' = 0 /\ replies' = {}
    /\ sent' = [t \in Tracks |-> <<>>]
    /\ routed' = {}

Init ==
    /\ phase = "idle"
    /\ request_id_map = <<>> /\ inbound_alias_map = <<>>
    /\ next_request_id = 0 /\ next_track_alias = 1
    /\ orchestration_started = FALSE /\ first_subscribe_sent = FALSE
    /\ moq_track_alias = [t \in Tracks |-> 0]
    /\ next_object_id = [t \in Tracks |-> 0]
    /\ replying = {}
    /\ ring = [t \in Tracks |-> <<>>]
    /\ writing = [t \in Tracks |-> "no"] /\ slipped = [t \in Tracks |-> FALSE]
    /\ sending = NotSending
    /\ era = 0 /\ open = FALSE /\ control = <<>>
    /\ requests = <<>> /\ answered = {} /\ granted = {}
    /\ asked = {} /\ asks = 0 /\ replies = {}
    /\ sent = [t \in Tracks |-> <<>>]
    /\ routed = {} /\ blocks = 0 /\ sends = 0

----------------------------------------------------------------------------
(* Connections *)

\* A transport starts its handshake; SERVER_SETUP will be the first message.
StartTransport(next) ==
    /\ era < MaxConnections
    /\ phase' = next
    /\ open' = TRUE
    /\ control' = <<[type |-> "SERVER_SETUP"]>>
    /\ UNCHANGED <<moq, next_object_id, replying, rings, sending, era, server, sent, routed,
                   bounds>>

Connect   == phase = "idle" /\ sending = NotSending /\ StartTransport("connecting")
Reconnect == phase = "down" /\ StartTransport("retrying")

\* Mutation: aliases of the old connection survive.
reset_moq_state_KeepsAliases ==
    /\ request_id_map' = <<>>
    /\ next_request_id' = 0 /\ next_track_alias' = 1
    /\ orchestration_started' = FALSE /\ first_subscribe_sent' = FALSE
    /\ next_object_id' = [t \in Tracks |-> 0]
    /\ moq_track_alias' = [t \in Tracks |-> 0]
    /\ UNCHANGED inbound_alias_map

\* Mutation: the alias of a track survives.
reset_moq_state_KeepsTrackAlias ==
    /\ request_id_map' = <<>> /\ inbound_alias_map' = <<>>
    /\ next_request_id' = 0 /\ next_track_alias' = 1
    /\ orchestration_started' = FALSE /\ first_subscribe_sent' = FALSE
    /\ next_object_id' = [t \in Tracks |-> 0]
    /\ UNCHANGED moq_track_alias

\* Mutation: first_subscribe_sent_ survives.
reset_moq_state_KeepsFirst ==
    /\ request_id_map' = <<>> /\ inbound_alias_map' = <<>>
    /\ next_request_id' = 0 /\ next_track_alias' = 1
    /\ orchestration_started' = FALSE
    /\ next_object_id' = [t \in Tracks |-> 0]
    /\ moq_track_alias' = [t \in Tracks |-> 0]
    /\ UNCHANGED first_subscribe_sent

reset_moq_state ==
    /\ request_id_map' = <<>> /\ inbound_alias_map' = <<>>
    /\ next_request_id' = 0 /\ next_track_alias' = 1
    /\ orchestration_started' = FALSE /\ first_subscribe_sent' = FALSE
    /\ next_object_id' = [t \in Tracks |-> 0]
    /\ moq_track_alias' = [t \in Tracks |-> 0]

\* Mutation: the rings keep what they hold.
FlushRings_Not == UNCHANGED <<ring, slipped>>

\* flush() empties the rings.  One that falls between the steps of a write_audio()
\* leaves read_pos_, write_pos_ and buffered_ at odds (RingBuffer has the steps,
\* RingFlushRace.cfg the outcome); one that meets none sets them right again.
FlushRings ==
    /\ ring' = [t \in Tracks |-> <<>>]
    /\ slipped' = [t \in Tracks |-> writing[t] # "no"]

\* The transport is destroyed, and with it the connection and unread messages.
CloseTransport(next) ==
    /\ phase' = next
    /\ open' = FALSE /\ control' = <<>>
    /\ era' = era + 1
    /\ reset_moq_state
    /\ FlushRings
    /\ NewServer
    /\ UNCHANGED <<replying, writing, bounds>>

\* The session thread is not in the middle of answering a SUBSCRIBE.
Looping == replying = {}

\* attempt_reconnect() up to the new transport, on the session thread; the host
\* may be in the middle of send_data().
Teardown ==
    /\ Looping
    /\ phase \in {"lost", "retrying"}
    /\ sending' = IF sending = NotSending THEN sending ELSE [sending EXCEPT !.torn = TRUE]
    /\ CloseTransport("down")

\* disconnect(): the session thread has been joined, and the host thread that
\* calls it is not in send_data().
Disconnect ==
    /\ Looping
    /\ phase # "idle" /\ sending = NotSending
    /\ CloseTransport("idle")
    /\ UNCHANGED sending

ConnectionDies ==
    /\ open
    /\ open' = FALSE
    /\ NewServer
    /\ UNCHANGED <<phase, moq, next_object_id, replying, rings, sending, era, control, bounds>>

\* The session thread drains the shutdown event: Failed, no longer Connected.
\* A session that a late SERVER_SETUP has made Connected again may stay so, or be
\* lost once more, which the code does not do and which only adds behaviours.
NoticeLoss ==
    /\ Looping
    /\ ~open
    /\ phase \in {"connecting", "connected"}
    /\ phase' = "lost"
    /\ UNCHANGED <<moq, next_object_id, replying, rings, sending, era, open, control, server,
                   sent, routed, bounds>>

HasTransport == phase \notin {"idle", "down"}

\* send_control() and send_datagram(): what is sent on a dead connection is lost,
\* and no caller looks at the result.
OnWire(before, after) == IF open THEN after ELSE before

----------------------------------------------------------------------------
(* start_orchestration(): SUBSCRIBE every inbound track, the first with the *)
(* JWT, then ANNOUNCE every outbound one.                                   *)

\* The numbers in S, in order.
Ascending(S) ==
    CHOOSE s \in [1 .. Cardinality(S) -> S] : \A i, j \in DOMAIN s : i < j => s[i] < s[j]

\* map[key] = value for every key of new.
Assign(map, new) ==
    [key \in DOMAIN map \cup DOMAIN new |-> IF key \in DOMAIN new THEN new[key] ELSE map[key]]

NewRequests ==
    LET order == Ascending(Inbound) \o Ascending(Outbound)
    IN [i \in DOMAIN order |->
          [type  |-> IF order[i] \in Inbound THEN "SUBSCRIBE" ELSE "ANNOUNCE",
           id    |-> next_request_id + 2 * (i - 1),
           track |-> order[i],
           jwt   |-> order[i] \in Inbound /\ i = 1 /\ ~first_subscribe_sent]]

NewIds == [i \in {r.id : r \in Range(NewRequests)} |->
             (CHOOSE r \in Range(NewRequests) : r.id = i).track]

StartOrchestration ==
    /\ Looping
    /\ phase = "connected" /\ ~orchestration_started
    /\ orchestration_started' = TRUE
    /\ first_subscribe_sent' = (first_subscribe_sent \/ Inbound # {})
    /\ request_id_map' = Assign(request_id_map, NewIds)
    /\ next_request_id' = next_request_id + 2 * Len(NewRequests)
    /\ requests' = OnWire(requests, requests \o NewRequests)
    /\ UNCHANGED <<phase, inbound_alias_map, next_track_alias, moq_track_alias, next_object_id,
                   replying, rings, sending, era, open, control, answered, granted, asked, asks,
                   replies, sent, routed, bounds>>

----------------------------------------------------------------------------
(* handle_control_message(), one message at a time *)

Receive(type) ==
    /\ Looping
    /\ HasTransport
    /\ control # <<>>
    /\ Head(control).type = type
    /\ control' = Tail(control)
    /\ UNCHANGED <<request_id_map, next_request_id, orchestration_started, first_subscribe_sent,
                   next_object_id, rings, sending, era, open, server, sent, routed, bounds>>

\* The transport becomes Ready and the session Connected; the handler itself
\* ignores the message.
HandleServerSetup ==
    /\ Receive("SERVER_SETUP")
    /\ phase' = "connected"
    /\ UNCHANGED <<inbound_alias_map, next_track_alias, moq_track_alias, replying>>

\* Mutation: the alias is only noted in the map.
HandleSubscribeOk_MapOnly ==
    /\ Receive("SUBSCRIBE_OK")
    /\ LET m == Head(control) IN
       inbound_alias_map' = Assign(inbound_alias_map, [a \in {m.alias} |-> request_id_map[m.id]])
    /\ UNCHANGED <<phase, next_track_alias, moq_track_alias, replying>>

HandleSubscribeOk ==
    /\ Receive("SUBSCRIBE_OK")
    /\ LET m == Head(control) IN
       IF m.id \in DOMAIN request_id_map
       THEN LET t == request_id_map[m.id] IN
            /\ moq_track_alias' = [moq_track_alias EXCEPT ![t] = m.alias]
            /\ inbound_alias_map' = Assign(inbound_alias_map, [a \in {m.alias} |-> t])
       ELSE UNCHANGED <<moq_track_alias, inbound_alias_map>>
    /\ UNCHANGED <<phase, next_track_alias, replying>>

\* Only logged.
HandleSubscribeError ==
    /\ Receive("SUBSCRIBE_ERROR")
    /\ UNCHANGED <<phase, inbound_alias_map, next_track_alias, moq_track_alias, replying>>

\* ANNOUNCE and SUBSCRIBE_ANNOUNCES are acknowledged, ANNOUNCE_OK and unknown
\* messages logged; nothing that is kept depends on them.
HandleOther ==
    /\ Receive("OTHER")
    /\ UNCHANGED <<phase, inbound_alias_map, next_track_alias, moq_track_alias, replying>>

\* The first outbound track of the namespace gets the next alias, which the host's
\* send_data() may use from here on; the SUBSCRIBE_OK is still to be built and sent.
HandleSubscribe ==
    /\ Receive("SUBSCRIBE")
    /\ LET m == Head(control)
           matching == {t \in Outbound : tracks[t].ns = m.ns} IN
       IF matching # {}
       THEN LET t == CHOOSE t \in matching : \A u \in matching : t <= u IN
            /\ next_track_alias' = next_track_alias + 1
            /\ moq_track_alias' = [moq_track_alias EXCEPT ![t] = next_track_alias]
            /\ replying' = {<<m.id, next_track_alias>>}
       ELSE UNCHANGED <<next_track_alias, moq_track_alias, replying>>
    /\ UNCHANGED <<phase, inbound_alias_map>>

SendSubscribeOk ==
    /\ replying # {}
    /\ replies' = OnWire(replies, replies \cup replying)
    /\ replying' = {}
    /\ UNCHANGED <<phase, moq, next_object_id, rings, sending, era, open, control, requests,
                   answered, granted, asked, asks, sent, routed, bounds>>

HandleControl ==
    \/ HandleServerSetup \/ HandleSubscribeOk \/ HandleSubscribeError \/ HandleSubscribe
    \/ HandleOther

----------------------------------------------------------------------------
(* Outbound audio: write_audio() and poll_outbound_tracks() *)

\* What a ring whose positions and count have come apart may seem to hold: blocks
\* of whichever connections, as many as the count happens to say.
Mixed == UNION {[1 .. n -> 0 .. era] : n \in 0 .. RingBlocks}

\* write_audio() looks at no connection state.  RingBuffer::write() loads the count,
\* makes room in a ring that it finds full, and then puts the block in.
WriteAudioLoad(t) ==
    /\ writing[t] = "no"
    /\ blocks < MaxBlocks
    /\ blocks' = blocks + 1
    /\ \E found \in {"full", "room"} :
         /\ ~slipped[t] => (found = "full" <=> Len(ring[t]) = RingBlocks)
         /\ writing' = [writing EXCEPT ![t] = found]
    /\ UNCHANGED <<phase, moq, next_object_id, replying, ring, slipped, sending, era, open,
                   control, server, sent, routed, sends>>

\* Its steps on a ring that is or is not slipped.
RingBecomes(t, held) ==
    IF slipped[t] THEN \E mixed \in Mixed : ring' = [ring EXCEPT ![t] = mixed]
                  ELSE ring' = [ring EXCEPT ![t] = held]

WriteAudioMakeRoom(t) ==
    /\ writing[t] = "full"
    /\ writing' = [writing EXCEPT ![t] = "room"]
    /\ RingBecomes(t, Tail(ring[t]))
    /\ UNCHANGED <<phase, moq, next_object_id, replying, slipped, sending, era, open, control,
                   server, sent, routed, bounds>>

WriteAudioPut(t) ==
    /\ writing[t] = "room"
    /\ writing' = [writing EXCEPT ![t] = "no"]
    /\ RingBecomes(t, Append(ring[t], era))
    /\ UNCHANGED <<phase, moq, next_object_id, replying, slipped, sending, era, open, control,
                   server, sent, routed, bounds>>

WriteAudio(t) == WriteAudioLoad(t) \/ WriteAudioMakeRoom(t) \/ WriteAudioPut(t)

\* Mutation: one object id for each poll instead of each frame.
Frames_OneId(t, encoded) ==
    LET order == Ascending(encoded)
    IN [i \in DOMAIN order |-> [alias |-> moq_track_alias[t], id |-> next_object_id[t],
                                era |-> ring[t][order[i]], torn |-> FALSE]]

\* What send_audio_frame() and send_pcm_frame() send: the frames that encode, in
\* order, under consecutive object ids.
Frames(t, encoded) ==
    LET order == Ascending(encoded)
    IN [i \in DOMAIN order |-> [alias |-> moq_track_alias[t], id |-> next_object_id[t] + i - 1,
                                era |-> ring[t][order[i]], torn |-> FALSE]]

\* Mutation: a full frame is waited for once more ("> frame_size").
PollTrack_StrictlyMore(t) ==
    /\ Looping
    /\ phase = "connected" /\ orchestration_started
    /\ moq_track_alias[t] # 0
    /\ Len(ring[t]) > 1
    /\ LET encoded == 1 .. Len(ring[t]) IN
       /\ next_object_id' = [next_object_id EXCEPT ![t] = @ + Cardinality(encoded)]
       /\ sent' = OnWire(sent, [sent EXCEPT ![t] = @ \o Frames(t, encoded)])
    /\ ring' = [ring EXCEPT ![t] = <<>>]
    /\ slipped' = [slipped EXCEPT ![t] = @ \/ writing[t] = "full"]
    /\ UNCHANGED <<phase, moq, replying, writing, sending, era, open, control, server, routed,
                   bounds>>

\* One outbound track of poll_outbound_tracks(): the ring is emptied, and Opus may
\* fail on any frame.  A write_audio() that has found the ring full and not made
\* room yet then takes away what has been read already.  The pass of the session
\* thread that makes the session Connected also orchestrates it before it polls.
PollTrack(t) ==
    /\ Looping
    /\ phase = "connected" /\ orchestration_started
    /\ moq_track_alias[t] # 0
    /\ ring[t] # <<>>
    /\ \E encoded \in SUBSET (1 .. Len(ring[t])) :
         /\ tracks[t].codec = "PCM" => encoded = 1 .. Len(ring[t])
         /\ next_object_id' = [next_object_id EXCEPT ![t] = @ + Cardinality(encoded)]
         /\ sent' = OnWire(sent, [sent EXCEPT ![t] = @ \o Frames(t, encoded)])
    /\ ring' = [ring EXCEPT ![t] = <<>>]
    /\ slipped' = [slipped EXCEPT ![t] = @ \/ writing[t] = "full"]
    /\ UNCHANGED <<phase, moq, replying, writing, sending, era, open, control, server, routed,
                   bounds>>

----------------------------------------------------------------------------
(* send_data(), on the host's control thread; the session thread may tear   *)
(* the connection down between its steps.                                   *)

SendDataCheck(t) ==
    /\ sending = NotSending
    /\ sends < MaxSends
    /\ HasTransport
    /\ moq_track_alias[t] # 0
    /\ phase = "connected"
    /\ sends' = sends + 1
    /\ sending' = [at |-> "build", track |-> t, torn |-> FALSE]
    /\ UNCHANGED <<phase, moq, next_object_id, replying, rings, era, open, control, server, sent,
                   routed, blocks>>

SendDataBuild ==
    /\ sending.at = "build"
    /\ LET t == sending.track IN
       /\ sending' = [at |-> "send", track |-> t, torn |-> sending.torn,
                      alias |-> moq_track_alias[t], id |-> next_object_id[t]]
       /\ next_object_id' = [next_object_id EXCEPT ![t] = @ + 1]
    /\ UNCHANGED <<phase, moq, replying, rings, era, open, control, server, sent, routed, bounds>>

Datagram == [alias |-> sending.alias, id |-> sending.id, era |-> era, torn |-> sending.torn]

\* transport_ may have been destroyed meanwhile: the datagram is lost, or goes
\* out on the connection that has replaced it.
SendDataSend ==
    /\ sending.at = "send"
    /\ sending' = NotSending
    /\ \/ sent' = OnWire(sent, [sent EXCEPT ![sending.track] = Append(@, Datagram)])
       \/ sending.torn /\ UNCHANGED sent
    /\ UNCHANGED <<phase, moq, next_object_id, replying, rings, era, open, control, server,
                   routed, bounds>>

----------------------------------------------------------------------------
(* on_datagram, on the msquic worker *)

\* dispatch_audio_datagram() writes what it decodes to the jitter buffer of t,
\* dispatch_data_datagram() calls the host.  u is the track the server meant.
Dispatch(t, u) == routed' = routed \cup {<<t, u>>}

\* The server's datagram for u arrives, maybe before its SUBSCRIBE_OK is handled:
\* then its alias is unknown and it is dropped.  An empty payload or one that
\* does not decode is dropped too.
OnDatagram(alias, u) ==
    /\ open
    /\ <<alias, u>> \in granted
    /\ alias \in DOMAIN inbound_alias_map
    /\ Dispatch(inbound_alias_map[alias], u)
    /\ UNCHANGED <<phase, moq, next_object_id, replying, rings, sending, era, open, control,
                   server, sent, bounds>>

----------------------------------------------------------------------------
(* The server *)

ServerSends(m) ==
    /\ open
    /\ Len(control) < MaxUnread
    /\ control' = Append(control, m)
    /\ UNCHANGED <<phase, moq, next_object_id, replying, rings, sending, era, open, requests,
                   replies, sent, routed, bounds>>

Pending == {r \in Range(requests) : r.type = "SUBSCRIBE" /\ r.id \notin answered}

ServerGrants(r, alias) ==
    /\ \A g \in granted : g[1] # alias
    /\ ServerSends([type |-> "SUBSCRIBE_OK", id |-> r.id, alias |-> alias])
    /\ answered' = answered \cup {r.id}
    /\ granted' = granted \cup {<<alias, r.track>>}
    /\ UNCHANGED <<asked, asks>>

ServerRefuses(r) ==
    /\ ServerSends([type |-> "SUBSCRIBE_ERROR", id |-> r.id])
    /\ answered' = answered \cup {r.id}
    /\ UNCHANGED <<granted, asked, asks>>

\* ANNOUNCE_OK, or an ANNOUNCE or SUBSCRIBE_ANNOUNCES of its own.
ServerSaysMore ==
    /\ ServerSends([type |-> "OTHER"])
    /\ UNCHANGED <<answered, granted, asked, asks>>

\* A server subscribes to an announced track, once or again.
ServerSubscribes(t) ==
    /\ asks < MaxAsks
    /\ \E r \in Range(requests) : r.track = t /\ r.type = "ANNOUNCE"
    /\ asks' = asks + 1
    /\ asked' = asked \cup {<<2 * asks + 1, t>>}
    /\ ServerSends([type |-> "SUBSCRIBE", id |-> 2 * asks + 1, ns |-> tracks[t].ns])
    /\ UNCHANGED <<answered, granted>>

Server ==
    \/ \E r \in Pending : ServerRefuses(r) \/ \E a \in Aliases : ServerGrants(r, a)
    \/ \E t \in Outbound : ServerSubscribes(t)
    \/ ServerSaysMore

SessionThread ==
    \/ Teardown \/ Reconnect \/ NoticeLoss \/ StartOrchestration \/ HandleControl
    \/ SendSubscribeOk
    \/ \E t \in Outbound \cap Audio : PollTrack(t)

\* The host sends on the data tracks it publishes.
Host ==
    \/ Connect \/ Disconnect
    \/ \E t \in Outbound \cap Audio : WriteAudio(t)
    \/ \E t \in Outbound \cap Data : SendDataCheck(t)
    \/ SendDataBuild \/ SendDataSend

Next ==
    \/ SessionThread \/ Host \/ Server \/ ConnectionDies
    \/ \E g \in granted : OnDatagram(g[1], g[2])

Spec == Init /\ [][Next]_vars

\* The session thread's loop goes round.
Fairness ==
    /\ WF_vars(HandleControl) /\ WF_vars(SendSubscribeOk)
    /\ WF_vars(StartOrchestration)
    /\ \A t \in Outbound \cap Audio : WF_vars(PollTrack(t))

FairSpec == Spec /\ Fairness

----------------------------------------------------------------------------
(* Properties *)

\* A datagram only ever reaches the track whose subscription the server answered
\* with its alias, also right after a reconnection that gives the alias of one
\* track to another.
RoutedRight == \A p \in routed : p[1] = p[2]

\* Every datagram goes out under an alias that a SUBSCRIBE_OK of this connection
\* gave the server for that very track, or that the session thread is about to
\* send it (handle_control_message() stores the alias before it answers), also when
\* the server subscribes again and when connections are replaced.  The exception
\* is a send_data() that the connection was torn down under.
SentAsTold ==
    \A t \in Tracks : \A d \in Range(sent[t]) :
        ~d.torn => \E p \in replies \cup replying : p[2] = d.alias /\ <<p[1], t>> \in asked

\* The TrackAlias flow of the docs without those two exceptions: the publisher
\* answers with the alias, then tags its datagrams with it.  It does not hold:
\* send_data() uses the alias of a SUBSCRIBE whose answer is not sent yet.
ToldBeforeSent ==
    \A t \in Tracks : \A d \in Range(sent[t]) :
        \E p \in replies : p[2] = d.alias /\ <<p[1], t>> \in asked

\* The object ids of a track strictly increase over a connection, across
\* frames that fail to encode and subscriptions that replace one another.
ObjectsInOrder ==
    \A t \in Tracks : \A i, j \in DOMAIN sent[t] :
        i < j /\ ~sent[t][i].torn /\ ~sent[t][j].torn => sent[t][i].id < sent[t][j].id

\* "discard stale audio" (attempt_reconnect()): nothing captured during one
\* connection goes out on the next, though write_audio() never stops; what is
\* captured between two connections belongs to the next.  The exception is the
\* ring whose last flush() fell between the steps of a write_audio(), or which a
\* write_audio() found full and the session thread read before room was made:
\* until the next flush() it may send anything.
FreshAudio ==
    \A t \in Tracks : \A d \in Range(sent[t]) : d.era = era \/ slipped[t]

\* On every connection, the first and the later ones, the server is asked for
\* each track at most once, under its own id, and exactly the first SUBSCRIBE
\* carries the JWT.
RequestedOnce ==
    \A i, j \in DOMAIN requests :
        /\ i # j => requests[i].id # requests[j].id /\ requests[i].track # requests[j].track
        /\ requests[i].jwt <=> (i = 1 /\ requests[i].type = "SUBSCRIBE")

\* A granted subscription takes effect: the track gets its alias, unless the
\* connection dies.
GrantTakesEffect ==
    \A t \in Inbound : \A a \in Aliases :
        <<a, t>> \in granted /\ open ~> moq_track_alias[t] = a \/ ~open

\* Audio of a track the server listens to leaves the ring, unless the session
\* is no longer connected.
AudioLeaves ==
    \A t \in Outbound \cap Audio :
        ring[t] # <<>> /\ moq_track_alias[t] # 0 /\ phase = "connected"
            ~> ring[t] = <<>> \/ phase # "connected"

=============================================================================
