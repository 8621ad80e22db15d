---------------------------- MODULE MoqMessages ----------------------------
(***************************************************************************)
(* The control messages of MOQ, draft 16 (moq_protocol.cpp, moq_protocol.h *)
(* ): for each its builder, which takes the fields of the code's Config    *)
(* structure, its parser, which gives those of the Result structure, or    *)
(* both.                                                                   *)
(***************************************************************************)
EXTENDS MoqWire

MessageType ==
    [Subscribe |-> 3, SubscribeOk |-> 4, SubscribeError |-> 5, Announce |-> 6, AnnounceOk |-> 7,
     AnnounceError |-> 8, SubscribeAnnounces |-> 17, SubscribeAnnouncesOk |-> 18,
     ClientSetup |-> 32, ServerSetup |-> 33]

Key ==
    [Path |-> 1, MaxSubscribeId |-> 2, AuthToken |-> 3, Forward |-> 16, SubscriberPriority |-> 32,
     SubscriptionFilter |-> 33, GroupOrder |-> 34, Expires |-> 8, LargestObject |-> 9]

kFilterLatestGroup  == 1
kFilterLatestObject == 2

\* The value of a parameter, or its default.
IntOf(params, key, default) ==
    IF \E p \in ToSet(params) : p.key = key
    THEN (CHOOSE p \in ToSet(params) : p.key = key).int_value ELSE default

BytesOf(params, key) ==
    IF \E p \in ToSet(params) : p.key = key
    THEN (CHOOSE p \in ToSet(params) : p.key = key).bytes_value ELSE <<>>

If(condition, params) == IF condition THEN params ELSE <<>>

\* What a parser makes of the fields it has read.
Result(fields, R(_)) == IF fields.ok THEN Read(R(fields.val), fields.at) ELSE Failed

----------------------------------------------------------------------------
(* Session setup *)

build_client_setup(c) ==
    build_control_message(MessageType.ClientSetup,
        encode_params(<<BytesParam(Key.Path, c.path),
                        IntParam(Key.MaxSubscribeId, c.max_subscribe_id)>>))

parse_server_setup(content) ==
    Result(decode_params(content, 0), LAMBDA params : [params |-> params])

----------------------------------------------------------------------------
(* SUBSCRIBE and its answers *)

SubscribeParams(c) ==
    <<IntParam(Key.SubscriberPriority, c.priority), IntParam(Key.GroupOrder, c.group_order),
      IntParam(Key.Forward, c.forward),
      BytesParam(Key.SubscriptionFilter, encode_varint(c.filter_type))>> \o
    If(c.authorization # <<>>, <<BytesParam(Key.AuthToken, c.authorization)>>) \o
    c.extra_params

build_subscribe(c) ==
    build_control_message(MessageType.Subscribe,
        encode_varint(c.request_id) \o encode_namespace(c.track_namespace) \o
        append_string_bytes(c.track_name) \o encode_params(SubscribeParams(c)))

\* 128 in the code.
DefaultPriority == Byte \div 2

parse_subscribe(content) ==
    LET Subscribe(f) ==
            LET filter == BytesOf(f[4], Key.SubscriptionFilter)
                type   == decode_varint(filter, 0)
            IN  [request_id |-> f[1], track_namespace |-> f[2], track_name |-> f[3],
                 params |-> f[4],
                 priority |-> IntOf(f[4], Key.SubscriberPriority, DefaultPriority) % Byte,
                 group_order |-> IntOf(f[4], Key.GroupOrder, 1) % Byte,
                 forward |-> IntOf(f[4], Key.Forward, 1) % Byte,
                 filter_type |-> IF type.ok THEN type.val ELSE kFilterLatestObject]
    IN  Result(ReadFields(<<"varint", "namespace", "string", "params">>, content, 0), Subscribe)

\* A parameter that has its default value is left out.
SubscribeOkParams(c) ==
    If(c.expires_ms > 0, <<IntParam(Key.Expires, c.expires_ms)>>) \o
    If(c.content_exists,
       <<BytesParam(Key.LargestObject,
                    encode_varint(c.largest_group_id) \o encode_varint(c.largest_object_id))>>) \o
    If(c.group_order # 0, <<IntParam(Key.GroupOrder, c.group_order)>>)

build_subscribe_ok(c) ==
    build_control_message(MessageType.SubscribeOk,
        encode_varint(c.request_id) \o encode_varint(c.track_alias) \o
        encode_params(SubscribeOkParams(c)))

\* The parameters themselves are kept too, and never looked at.
parse_subscribe_ok(content) ==
    LET SubscribeOk(f) ==
            LET largest == BytesOf(f[3], Key.LargestObject)
                group   == decode_varint(largest, 0)
                object  == IF group.ok THEN decode_varint(largest, group.at) ELSE Failed
            IN  [request_id |-> f[1], track_alias |-> f[2],
                 expires_ms |-> IntOf(f[3], Key.Expires, 0),
                 group_order |-> IntOf(f[3], Key.GroupOrder, 0) % Byte,
                 content_exists |-> \E p \in ToSet(f[3]) : p.key = Key.LargestObject,
                 largest_group_id |-> IF group.ok THEN group.val ELSE 0,
                 largest_object_id |-> IF object.ok THEN object.val ELSE 0]
    IN  Result(ReadFields(<<"varint", "varint", "params">>, content, 0), SubscribeOk)

\* The retry interval, the third field, is not used.
parse_subscribe_error(content) ==
    Result(ReadFields(<<"varint", "varint", "varint", "string">>, content, 0),
           LAMBDA f : [request_id |-> f[1], error_code |-> f[2], reason |-> f[4]])

----------------------------------------------------------------------------
(* ANNOUNCE, SUBSCRIBE_ANNOUNCES and their answers *)

build_announce(c) ==
    build_control_message(MessageType.Announce,
        encode_varint(c.request_id) \o encode_namespace(c.track_namespace) \o encode_varint(0))

parse_announce(content) ==
    Result(ReadFields(<<"varint", "namespace", "params">>, content, 0),
           LAMBDA f : [request_id |-> f[1], track_namespace |-> f[2], params |-> f[3]])

build_announce_ok(request_id) ==
    build_control_message(MessageType.AnnounceOk, encode_varint(request_id))

parse_announce_ok(content) ==
    Result(decode_varint(content, 0), LAMBDA id : [request_id |-> id])

parse_subscribe_announces(content) ==
    Result(ReadFields(<<"varint", "namespace", "params">>, content, 0),
           LAMBDA f : [request_id |-> f[1], track_namespace |-> f[2], params |-> f[3]])

build_subscribe_announces_ok(request_id) ==
    build_control_message(MessageType.SubscribeAnnouncesOk, encode_varint(request_id))

=============================================================================
