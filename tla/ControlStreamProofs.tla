------------------------ MODULE ControlStreamProofs -------------------------
(***************************************************************************)
(* That the control stream is a channel of messages: whatever pieces QUIC  *)
(* makes of the stream and whenever the session thread looks, the messages *)
(* are handed over once each, whole, in their order and with their         *)
(* meaning; and the server reads in the client's stream what the client    *)
(* meant.                                                                  *)
(*                                                                         *)
(* A message of any kind is read back when it is there as a whole and is   *)
(* left alone when only a part of it is (MessageRead, MessageCut).  The    *)
(* inductive invariant IInv says that the bytes in recv_buffer_, in the    *)
(* queue and in the network are those of the messages that are sent and    *)
(* not handled.                                                            *)
(***************************************************************************)
EXTENDS ControlStream, WireProofs

----------------------------------------------------------------------------
(* Messages *)

\* The types of the messages.
LEMMA TypesAre ==
    /\ MessageType["ClientSetup"] = 32 /\ MessageType["ServerSetup"] = 33
    /\ MessageType["Subscribe"] = 3 /\ MessageType["SubscribeOk"] = 4
    /\ MessageType["SubscribeError"] = 5 /\ MessageType["Announce"] = 6
    /\ MessageType["AnnounceOk"] = 7 /\ MessageType["SubscribeAnnounces"] = 17
    /\ MessageType["SubscribeAnnouncesOk"] = 18
    /\ \A t \in {3, 4, 5, 6, 7, 17, 18, 32, 33} : t \in Numbers
  <1>1. \A t \in {3, 4, 5, 6, 7, 17, 18, 32, 33} : t \in 0 .. 63
    OBVIOUS
  <1>2. \A t \in {3, 4, 5, 6, 7, 17, 18, 32, 33} : t \in Numbers
    BY <1>1, ByteIsNumber, Zenon
  <1> QED BY <1>2 DEF MessageType

\* Each type is read by the parser for it.
LEMMA ParserOf ==
    ASSUME NEW c
    PROVE  /\ Parsed(32, c) = parse_server_setup(c) /\ Parsed(33, c) = parse_server_setup(c)
           /\ Parsed(3, c) = parse_subscribe(c) /\ Parsed(4, c) = parse_subscribe_ok(c)
           /\ Parsed(5, c) = parse_subscribe_error(c) /\ Parsed(6, c) = parse_announce(c)
           /\ Parsed(7, c) = parse_announce_ok(c) /\ Parsed(18, c) = parse_announce_ok(c)
           /\ Parsed(17, c) = parse_subscribe_announces(c)
  BY DEF Parsed, MessageType

\* The message m has this content, and the content says what m means.
Carries(m, content) ==
    /\ content \in Seq(Bytes) /\ MessageType[m.type] \in Numbers
    /\ Frame(m) = build_control_message(MessageType[m.type], content)
    /\ Parsed(MessageType[m.type], content) = Read(Meaning(m), Len(content))

\* ANNOUNCE_OK and SUBSCRIBE_ANNOUNCES_OK, ...
LEMMA AnnounceOkCarried ==
    ASSUME NEW m, IsBody(m.type, m.body), m.type \in {"AnnounceOk", "SubscribeAnnouncesOk"}
    PROVE  \E content : Carries(m, content)
  <1>0. PICK b \in [request_id : Numbers] : b = m.body
    BY DEF IsBody
  <1>1. PICK id \in Numbers : b = m.body /\ b.request_id = id /\ b = [request_id |-> id]
    BY <1>0
  <1>2. PICK c \in Seq(Bytes) : c = encode_varint(id) /\ parse_announce_ok(c) = Read(b, Len(c))
    BY <1>1, AnnounceOkRead
  <1>3. Meaning(m) = b
    BY <1>1 DEF Meaning
  <1>4. CASE m.type = "AnnounceOk"
    <2>1. Frame(m) = build_control_message(7, c)
      BY <1>1, <1>2, <1>4 DEF Frame, build_announce_ok, MessageType
    <2>2. MessageType[m.type] = 7 /\ 7 \in Numbers
      BY <1>4, TypesAre
    <2> QED BY <1>2, <1>3, <2>1, <2>2, ParserOf, Zenon DEF Carries
  <1>5. CASE m.type = "SubscribeAnnouncesOk"
    <2>1. Frame(m) = build_control_message(18, c)
      BY <1>1, <1>2, <1>5 DEF Frame, build_subscribe_announces_ok, MessageType
    <2>2. MessageType[m.type] = 18 /\ 18 \in Numbers
      BY <1>5, TypesAre
    <2> QED BY <1>2, <1>3, <2>1, <2>2, ParserOf, Zenon DEF Carries
  <1> QED BY <1>4, <1>5

\* ... CLIENT_SETUP and SERVER_SETUP, ...
LEMMA SetupCarried ==
    ASSUME NEW m, IsBody(m.type, m.body), m.type \in {"ClientSetup", "ServerSetup"}
    PROVE  \E content : Carries(m, content)
  <1>1. CASE m.type = "ServerSetup"
    <2>0. PICK b \in [params : Params] : b = m.body
      BY <1>1 DEF IsBody
    <2>1. PICK params \in Params : b = m.body /\ b.params = params
      BY <2>0
    <2>2. PICK c \in Seq(Bytes) :
               c = encode_params(params) /\ parse_server_setup(c) = Read([params |-> Sorted[params]], Len(c))
      BY SetupRead
    <2>3. Meaning(m) = [params |-> Sorted[params]]
      BY <1>1, <2>1 DEF Meaning
    <2>4. Frame(m) = build_control_message(33, c)
      BY <1>1, <2>1, <2>2 DEF Frame, MessageType
    <2>5. MessageType[m.type] = 33 /\ 33 \in Numbers
      BY <1>1, TypesAre
    <2> QED BY <2>2, <2>3, <2>4, <2>5, ParserOf, Zenon DEF Carries
  <1>2. CASE m.type = "ClientSetup"
    <2>0. PICK b \in [path : Strings, max_subscribe_id : Numbers] : b = m.body
      BY <1>2 DEF IsBody
    <2>1. PICK path \in Strings, max \in Numbers :
               b = m.body /\ b.path = path /\ b.max_subscribe_id = max
      BY <2>0
    <2>2. PICK params \in Params :
               params = <<BytesParam(1, path), IntParam(2, max)>> /\ Sorted[params] = params
      BY ClientSetupParams
    <2>3. PICK c \in Seq(Bytes) :
               c = encode_params(params) /\ parse_server_setup(c) = Read([params |-> params], Len(c))
      BY <2>2, SetupRead
    <2>4. Meaning(m) = [params |-> params]
      BY <1>2, <2>1, <2>2 DEF Meaning
    <2>5. Frame(m) = build_control_message(32, c)
      BY <1>2, <2>1, <2>2, <2>3 DEF Frame, build_client_setup, MessageType, Key
    <2>6. MessageType[m.type] = 32 /\ 32 \in Numbers
      BY <1>2, TypesAre
    <2> QED BY <2>3, <2>4, <2>5, <2>6, ParserOf, Zenon DEF Carries
  <1> QED BY <1>1, <1>2

\* ... ANNOUNCE and SUBSCRIBE_ANNOUNCES, ...
LEMMA AnnounceCarried ==
    ASSUME NEW m, IsBody(m.type, m.body), m.type \in {"Announce", "SubscribeAnnounces"}
    PROVE  \E content : Carries(m, content)
  <1>1. CASE m.type = "Announce"
    <2>0. PICK b \in [request_id : Numbers, track_namespace : Namespaces] : b = m.body
      BY <1>1 DEF IsBody
    <2>1. PICK id \in Numbers, ns \in Namespaces :
               b = m.body /\ b.request_id = id /\ b.track_namespace = ns
      BY <2>0
    <2>2. PICK r : r = [request_id |-> id, track_namespace |-> ns, params |-> <<>>]
      OBVIOUS
    <2>3. PICK c \in Seq(Bytes) :
               /\ c = (encode_varint(id) \o encode_namespace(ns)) \o encode_varint(0)
               /\ parse_announce(c) = Read(r, Len(c))
      <3>1. PICK c : c = (encode_varint(id) \o encode_namespace(ns)) \o encode_params(<<>>)
        OBVIOUS
      <3>2. /\ c \in Seq(Bytes)
            /\ parse_announce(c) =
                  Read([request_id |-> id, track_namespace |-> ns, params |-> Sorted[<<>>]], Len(c))
        BY <3>1, AnnounceRead, NoParams
      <3> QED BY <2>2, <3>1, <3>2, NoParams
    <2>4. Meaning(m) = r
      BY <1>1, <2>1, <2>2 DEF Meaning
    <2>5. Frame(m) = build_control_message(6, c)
      BY <1>1, <2>1, <2>3 DEF Frame, build_announce, MessageType
    <2>6. MessageType[m.type] = 6 /\ 6 \in Numbers
      BY <1>1, TypesAre
    <2> QED BY <2>3, <2>4, <2>5, <2>6, ParserOf, Zenon DEF Carries
  <1>2. CASE m.type = "SubscribeAnnounces"
    <2>0. PICK b \in [request_id : Numbers, track_namespace : Namespaces, params : Params] : b = m.body
      BY <1>2 DEF IsBody
    <2>1. PICK id \in Numbers, ns \in Namespaces, params \in Params :
               b = m.body /\ b.request_id = id /\ b.track_namespace = ns /\ b.params = params
      BY <2>0
    <2>2. PICK r : r = [request_id |-> id, track_namespace |-> ns, params |-> Sorted[params]]
      OBVIOUS
    <2>3. PICK c \in Seq(Bytes) :
               /\ c = (encode_varint(id) \o encode_namespace(ns)) \o encode_params(params)
               /\ parse_subscribe_announces(c) = Read(r, Len(c))
      BY <2>2, AnnounceRead
    <2>4. Meaning(m) = r
      <3>1. Meaning(m) = [b EXCEPT !.params = Sorted[@]]
        BY <1>2, <2>1 DEF Meaning
      <3> QED BY <2>1, <2>2, <3>1
    <2>5. Frame(m) = build_control_message(17, c)
      BY <1>2, <2>1, <2>3 DEF Frame, MessageType
    <2>6. MessageType[m.type] = 17 /\ 17 \in Numbers
      BY <1>2, TypesAre
    <2> QED BY <2>3, <2>4, <2>5, <2>6, ParserOf, Zenon DEF Carries
  <1> QED BY <1>1, <1>2

\* ... SUBSCRIBE_ERROR, ...
LEMMA SubscribeErrorCarried ==
    ASSUME NEW m, IsBody(m.type, m.body), m.type = "SubscribeError"
    PROVE  \E content : Carries(m, content)
  <1>1. PICK b \in [request_id : Numbers, error_code : Numbers, retry_interval : Numbers,
                    reason : Strings] : b = m.body
    BY DEF IsBody
  <1>2. PICK r : r = [request_id |-> b.request_id, error_code |-> b.error_code, reason |-> b.reason]
    OBVIOUS
  <1>3. PICK c : c = ((encode_varint(b.request_id) \o encode_varint(b.error_code)) \o
                      encode_varint(b.retry_interval)) \o append_string_bytes(b.reason)
    OBVIOUS
  <1>4. c \in Seq(Bytes) /\ parse_subscribe_error(c) = Read(r, Len(c))
    BY <1>2, <1>3, SubscribeErrorRead, Zenon
  <1>5. Meaning(m) = r
    BY <1>1, <1>2 DEF Meaning
  <1>6. Frame(m) = build_control_message(5, c)
    BY <1>1, <1>3 DEF Frame, MessageType
  <1>7. MessageType[m.type] = 5 /\ 5 \in Numbers
    BY TypesAre
  <1> QED BY <1>4, <1>5, <1>6, <1>7, ParserOf, Zenon DEF Carries

\* ... SUBSCRIBE_OK ...
LEMMA SubscribeOkCarried ==
    ASSUME NEW m, IsBody(m.type, m.body), m.type = "SubscribeOk"
    PROVE  \E content : Carries(m, content)
  <1>1. PICK b : b = m.body
    OBVIOUS
  <1>2. /\ b \in [request_id : Numbers, track_alias : Numbers, expires_ms : Numbers,
                  group_order : Bytes, content_exists : BOOLEAN,
                  largest_group_id : Numbers, largest_object_id : Numbers]
        /\ ~b.content_exists => b.largest_group_id = 0 /\ b.largest_object_id = 0
    BY <1>1 DEF IsBody
  <1>3. PICK c : c = (encode_varint(b.request_id) \o encode_varint(b.track_alias)) \o
                     encode_params(SubscribeOkParams(b))
    OBVIOUS
  <1>4. c \in Seq(Bytes) /\ parse_subscribe_ok(c) = Read(b, Len(c))
    BY <1>2, <1>3, SubscribeOkRead, Zenon
  <1>5. Meaning(m) = b
    BY <1>1 DEF Meaning
  <1>6. Frame(m) = build_control_message(4, c)
    BY <1>1, <1>3 DEF Frame, build_subscribe_ok, MessageType
  <1>7. MessageType[m.type] = 4 /\ 4 \in Numbers
    BY TypesAre
  <1> QED BY <1>4, <1>5, <1>6, <1>7, ParserOf, Zenon DEF Carries

\* ... and SUBSCRIBE have a content that says what they mean.
LEMMA SubscribeCarried ==
    ASSUME NEW m, IsBody(m.type, m.body), m.type = "Subscribe"
    PROVE  \E content : Carries(m, content)
  <1>1. PICK b : b = m.body
    OBVIOUS
  <1>2. /\ b \in [request_id : Numbers, track_namespace : Namespaces, track_name : Strings,
                  priority : Bytes, group_order : Bytes, forward : Bytes, filter_type : Numbers,
                  authorization : Strings, extra_params : Params]
        /\ SubscribeParams(b) \in Params
    BY <1>1 DEF IsBody
  <1>3. PICK c : c = ((encode_varint(b.request_id) \o encode_namespace(b.track_namespace)) \o
                      append_string_bytes(b.track_name)) \o encode_params(SubscribeParams(b))
    OBVIOUS
  <1>4. c \in Seq(Bytes) /\ parse_subscribe(c) = Read(Meaning(m), Len(c))
    <2>1. PICK r : r = Meaning(m)
      OBVIOUS
    <2>2. r = [request_id |-> b.request_id, track_namespace |-> b.track_namespace,
               track_name |-> b.track_name, priority |-> b.priority,
               group_order |-> b.group_order, forward |-> b.forward,
               filter_type |-> b.filter_type,
               params |-> Sorted[
                  <<IntParam(16, b.forward), IntParam(32, b.priority),
                    BytesParam(33, encode_varint(b.filter_type)), IntParam(34, b.group_order)>>
                  \o (IF b.authorization = <<>> THEN <<>> ELSE <<BytesParam(3, b.authorization)>>)
                  \o b.extra_params]]
      BY <1>1, <2>1 DEF Meaning
    <2> QED BY <1>2, <1>3, <2>1, <2>2, SubscribeRead
  <1>5. Frame(m) = build_control_message(3, c)
    BY <1>1, <1>3 DEF Frame, build_subscribe, MessageType
  <1>6. MessageType[m.type] = 3 /\ 3 \in Numbers
    BY TypesAre
  <1> QED BY <1>4, <1>5, <1>6, ParserOf, Zenon DEF Carries

\* Every message has a content that says what it means.
LEMMA MessageCarried ==
    ASSUME NEW m, IsMessage(m)
    PROVE  \E content : Carries(m, content) /\ Len(content) < Power[2]
  <1>1. IsBody(m.type, m.body)
    BY DEF IsMessage
  <1>2. PICK content : Carries(m, content)
    <2>1. \/ m.type \in {"AnnounceOk", "SubscribeAnnouncesOk"} \/ m.type \in {"ClientSetup", "ServerSetup"}
          \/ m.type \in {"Announce", "SubscribeAnnounces"} \/ m.type = "SubscribeError"
          \/ m.type = "SubscribeOk" \/ m.type = "Subscribe"
      BY <1>1 DEF IsBody
    <2> QED BY <1>1, <2>1, AnnounceOkCarried, SetupCarried, AnnounceCarried, SubscribeErrorCarried,
               SubscribeOkCarried, SubscribeCarried, Zenon
  <1>3. /\ content \in Seq(Bytes) /\ MessageType[m.type] \in Numbers
        /\ Frame(m) = build_control_message(MessageType[m.type], content)
    BY <1>2 DEF Carries
  <1>4. PICK n \in 1 .. 8 : Len(Frame(m)) = (n + 2) + Len(content)
    BY <1>3, FrameIs, ZenonT(30)
  <1>5. Len(content) \in Nat /\ Power[2] \in Nat
    BY <1>3, Room
  <1>6. Len(Frame(m)) < Power[2] + 3
    BY DEF IsMessage
  <1>7. Len(content) < Power[2]
    BY <1>4, <1>5, <1>6
  <1> QED BY <1>2, <1>7

\* What is written for a message.
LEMMA FrameBytes ==
    ASSUME NEW m, IsMessage(m)
    PROVE  Frame(m) \in Seq(Bytes) /\ Len(Frame(m)) \in Nat /\ Len(Frame(m)) > 0
  <1>1. PICK content : Carries(m, content) /\ Len(content) < Power[2]
    BY MessageCarried
  <1>2. /\ content \in Seq(Bytes) /\ MessageType[m.type] \in Numbers
        /\ Frame(m) = build_control_message(MessageType[m.type], content)
    BY <1>1 DEF Carries
  <1>3. PICK n \in 1 .. 8 : Len(Frame(m)) = (n + 2) + Len(content) /\ Frame(m) \in Seq(Bytes)
    BY <1>2, FrameIs, ZenonT(30)
  <1>4. Len(content) \in Nat
    BY <1>2
  <1> QED BY <1>3, <1>4

\* A message of any kind that is there as a whole is taken from the buffer, all of it and
\* nothing more, and its parser finds in it what was meant.
THEOREM MessageRead ==
    ASSUME NEW m, IsMessage(m), NEW buf \in Seq(Bytes), Found(buf, 0, Frame(m))
    PROVE  \E content :
              /\ parse_control_message(buf) =
                    Read([type |-> MessageType[m.type], content |-> content], Len(Frame(m)))
              /\ Parsed(MessageType[m.type], content) = Read(Meaning(m), Len(content))
  <1>1. PICK content : Carries(m, content) /\ Len(content) < Power[2]
    BY MessageCarried
  <1>2. PICK type, frame : type = MessageType[m.type] /\ frame = Frame(m)
    OBVIOUS
  <1>3. /\ content \in Seq(Bytes) /\ type \in Numbers
        /\ frame = build_control_message(type, content)
        /\ Parsed(type, content) = Read(Meaning(m), Len(content))
    BY <1>1, <1>2, Zenon DEF Carries
  <1>4. Found(buf, 0, build_control_message(type, content))
    BY <1>2, <1>3, Zenon
  <1>5. parse_control_message(buf) = Read([type |-> type, content |-> content], Len(frame))
    BY <1>1, <1>3, <1>4, FrameRead, Zenon
  <1> QED BY <1>2, <1>3, <1>5, Zenon

\* A message of which only the beginning is there is left where it is.
THEOREM MessageCut ==
    ASSUME NEW m, IsMessage(m), NEW buf \in Seq(Bytes), Found(Frame(m), 0, buf),
           Len(buf) < Len(Frame(m))
    PROVE  parse_control_message(buf) = Failed
  <1>1. PICK content : Carries(m, content) /\ Len(content) < Power[2]
    BY MessageCarried
  <1>2. /\ content \in Seq(Bytes) /\ MessageType[m.type] \in Numbers
        /\ Frame(m) = build_control_message(MessageType[m.type], content)
    BY <1>1, Zenon DEF Carries
  <1> QED BY <1>1, <1>2, FrameCut, Zenon

----------------------------------------------------------------------------
(* A stream of messages *)

\* What stands at an offset stands at the beginning of the rest.
LEMMA FoundInRest ==
    ASSUME NEW T, NEW buf \in Seq(T), NEW s \in Seq(T), NEW at, Found(buf, at, s)
    PROVE  /\ SubSeq(buf, at + 1, Len(buf)) \in Seq(T)
           /\ Found(SubSeq(buf, at + 1, Len(buf)), 0, s)
  <1>1. /\ at \in Nat /\ at + Len(s) <= Len(buf) /\ \A i \in 1 .. Len(s) : buf[at + i] = s[i]
        /\ Len(buf) \in Nat /\ Len(s) \in Nat
    BY DEF Found
  <1>2. PICK n \in Nat, m \in Nat, l \in Nat : n = Len(buf) /\ m = at + 1 /\ l = Len(s)
    <2>1. Len(buf) \in Nat /\ at + 1 \in Nat /\ Len(s) \in Nat
      BY <1>1
    <2> QED BY <2>1, Zenon
  <1>3. PICK r : r = SubSeq(buf, m, n)
    OBVIOUS
  <1>4. /\ r \in Seq(T) /\ Len(r) = n - at /\ \A i \in 1 .. n - at : r[i] = buf[at + i]
    <2>1. at \in Nat /\ at <= n /\ m = at + 1
      BY <1>1, <1>2
    <2>2. \A i \in m .. n : buf[i] \in T
      BY <1>2, <2>1
    <2>3. r \in Seq(T) /\ Len(r) = (IF m <= n THEN (n - m) + 1 ELSE 0)
          /\ \A i \in 1 .. (n - m) + 1 : r[i] = buf[(m + i) - 1]
      BY <1>3, <2>2, SubSeqProperties
    <2>4. (IF m <= n THEN (n - m) + 1 ELSE 0) = n - at /\ (n - m) + 1 = n - at
          /\ \A i \in 1 .. n - at : (m + i) - 1 = at + i
      BY <2>1
    <2> QED BY <2>3, <2>4, Zenon
  <1>5. 0 + l <= Len(r) /\ \A i \in 1 .. l : i \in 1 .. n - at /\ 0 + i = i
    BY <1>1, <1>2, <1>4
  <1>6. Found(r, 0, s)
    <2>1. \A i \in 1 .. l : r[0 + i] = s[i]
      BY <1>1, <1>2, <1>4, <1>5, Zenon
    <2> QED BY <1>2, <1>5, <2>1 DEF Found
  <1> QED BY <1>2, <1>3, <1>4, <1>6

\* What ReadStream() computes, message after message.
StreamMessage(stream, at) ==
    LET m == parse_control_message(SubSeq(stream, at + 1, Len(stream)))
        r == Parsed(m.val.type, m.val.content)
    IN  IF ~m.ok THEN Failed
        ELSE IF ~r.ok THEN Failed
        ELSE Read([type |-> m.val.type, read |-> r.val], at + m.at)

NextInStream(stream, r) ==
    Then(r, LAMBDA vals, a : Then(StreamMessage(stream, a), LAMBDA v, b : Read(Append(vals, v), b)))

StreamRead(stream, n, f) ==
    f = [i \in 0 .. n |-> IF i = 0 THEN Read(<<>>, 0) ELSE NextInStream(stream, f[i - 1])]

\* The message that stands at an offset of a stream is read there.
LEMMA MessageInStream ==
    ASSUME NEW m, IsMessage(m), NEW stream \in Seq(Bytes), NEW at, Found(stream, at, Frame(m))
    PROVE  StreamMessage(stream, at) = Read(AsRead(m), at + Len(Frame(m)))
  <1>1. PICK rest : rest = SubSeq(stream, at + 1, Len(stream))
    OBVIOUS
  <1>2. Frame(m) \in Seq(Bytes)
    BY FrameBytes
  <1>3. rest \in Seq(Bytes) /\ Found(rest, 0, Frame(m))
    BY <1>1, <1>2, FoundInRest
  <1>4. PICK content :
             /\ parse_control_message(rest) =
                   Read([type |-> MessageType[m.type], content |-> content], Len(Frame(m)))
             /\ Parsed(MessageType[m.type], content) = Read(Meaning(m), Len(content))
    BY <1>3, MessageRead
  <1>5. PICK p, q : p = parse_control_message(rest) /\ q = [type |-> MessageType[m.type], content |-> content]
    OBVIOUS
  <1>6. q.type = MessageType[m.type] /\ q.content = content
    BY <1>5
  <1>7. p.ok /\ p.val = q /\ p.at = Len(Frame(m))
    <2>1. p = Read(q, Len(Frame(m)))
      BY <1>4, <1>5, Zenon
    <2> QED BY <2>1, ReadIs, Zenon
  <1>8. PICK r : r = Parsed(p.val.type, p.val.content)
    OBVIOUS
  <1>9. r.ok /\ r.val = Meaning(m)
    <2>1. r = Read(Meaning(m), Len(content))
      BY <1>4, <1>6, <1>7, <1>8, Zenon
    <2> QED BY <2>1, ReadIs, Zenon
  <1>10. [type |-> p.val.type, read |-> r.val] = AsRead(m)
    BY <1>6, <1>7, <1>9, Zenon DEF AsRead
  <1>11. StreamMessage(stream, at) = Read([type |-> p.val.type, read |-> r.val], at + p.at)
    BY <1>1, <1>5, <1>7, <1>8, <1>9, Zenon DEF StreamMessage
  <1> QED BY <1>7, <1>10, <1>11, Zenon

\* A stream of messages is read back, every message with its meaning.
THEOREM StreamReadBack ==
    ASSUME NEW V, NEW msgs \in Seq(V), \A i \in DOMAIN msgs : IsMessage(msgs[i])
    PROVE  LET stream == FlattenSeq([i \in DOMAIN msgs |-> Frame(msgs[i])])
           IN  ReadStream(stream, Len(msgs)) =
                  Read([i \in DOMAIN msgs |-> AsRead(msgs[i])], Len(stream))
  <1>1. PICK n \in Nat : n = Len(msgs) /\ DOMAIN msgs = 1 .. n
    OBVIOUS
  <1>2. PICK frames : frames = [i \in 1 .. n |-> Frame(msgs[i])]
    OBVIOUS
  <1>3. frames \in Seq(Seq(Bytes)) /\ Len(frames) = n /\ \A i \in 1 .. n : frames[i] = Frame(msgs[i])
    <2>1. \A i \in 1 .. n : Frame(msgs[i]) \in Seq(Bytes)
      BY <1>1, FrameBytes, Zenon
    <2>2. frames \in [1 .. n -> Seq(Bytes)] /\ \A i \in 1 .. n : frames[i] = Frame(msgs[i])
      BY <1>2, <2>1, Zenon
    <2>3. frames \in [1 .. n -> Seq(Bytes)]
      BY <2>2, Zenon
    <2>4. frames \in Seq(Seq(Bytes)) /\ Len(frames) = n
      BY <2>3
    <2> QED BY <2>2, <2>4, Zenon
  <1>4. PICK stream \in Seq(Bytes) : stream = FlattenSeq(frames)
    BY <1>3, FlattenType
  <1>5. PICK l \in Nat : l = Len(stream)
    OBVIOUS
  <1>6. PICK pos : /\ pos[0] = 0 /\ pos[n] = l
                   /\ \A i \in 1 .. n : /\ pos[i] = pos[i - 1] + Len(frames[i])
                                        /\ Found(stream, pos[i - 1], frames[i])
    <2>1. Found(stream, 0, FlattenSeq(frames))
      BY <1>4, FoundWhole
    <2>2. \E pos : /\ pos[0] = 0 /\ pos[Len(frames)] = 0 + Len(FlattenSeq(frames))
                   /\ \A i \in 1 .. Len(frames) : /\ pos[i - 1] \in Nat /\ pos[i] \in Nat
                                                  /\ pos[i] = pos[i - 1] + Len(frames[i])
                                                  /\ Found(stream, pos[i - 1], frames[i])
      BY <1>3, <2>1, FlattenFound, ZenonT(30)
    <2>3. 0 + Len(FlattenSeq(frames)) = l
      BY <1>4, <1>5
    <2> QED BY <1>3, <2>2, <2>3, Zenon
  <1>7. PICK vals : vals = [i \in 1 .. n |-> AsRead(msgs[i])]
    OBVIOUS
  <1>8. PICK W : vals \in Seq(W) /\ Len(vals) = n /\ \A i \in 1 .. n : vals[i] = AsRead(msgs[i])
    <2> DEFINE A == {AsRead(msgs[i]) : i \in 1 .. n}
    <2>1. vals \in [1 .. n -> A] /\ \A i \in 1 .. n : vals[i] = AsRead(msgs[i])
      BY <1>7, Zenon
    <2> HIDE DEF A
    <2>2. vals \in [1 .. n -> A]
      BY <2>1, Zenon
    <2>3. vals \in Seq(A) /\ Len(vals) = n
      BY <2>2
    <2> QED BY <2>1, <2>3, Zenon
  <1>9. ASSUME NEW i \in 1 .. n
        PROVE  StreamMessage(stream, pos[i - 1]) = Read(vals[i], pos[i])
    <2>1. IsMessage(msgs[i]) /\ Found(stream, pos[i - 1], Frame(msgs[i]))
      BY <1>1, <1>3, <1>6, Zenon
    <2>2. StreamMessage(stream, pos[i - 1]) = Read(AsRead(msgs[i]), pos[i - 1] + Len(Frame(msgs[i])))
      BY <2>1, MessageInStream, Zenon
    <2> QED BY <1>3, <1>6, <1>8, <2>2, Zenon
  <1>10. ASSUME NEW i \in 1 .. n
         PROVE  NextInStream(stream, Progress(vals, pos, i - 1)) = Progress(vals, pos, i)
    <2>1. /\ Progress(vals, pos, i - 1).ok
          /\ Progress(vals, pos, i - 1).at = pos[i - 1]
          /\ Read(Append(Progress(vals, pos, i - 1).val, vals[i]), pos[i]) = Progress(vals, pos, i)
      BY <1>8, ProgressNext, Zenon
    <2>2. /\ Read(vals[i], pos[i]).ok /\ Read(vals[i], pos[i]).val = vals[i]
          /\ Read(vals[i], pos[i]).at = pos[i]
      BY ReadIs, Zenon
    <2> QED BY <1>9, <2>1, <2>2, Zenon DEF NextInStream, Then
  <1>11. PICK g : g = [i \in 0 .. n |-> Progress(vals, pos, i)]
    OBVIOUS
  <1>12. ASSUME NEW i \in 0 .. n
         PROVE  Progress(vals, pos, i) = IF i = 0 THEN Read(<<>>, 0) ELSE NextInStream(stream, g[i - 1])
    <2>1. CASE i = 0
      BY <1>6, <2>1, ProgressStart, Zenon
    <2>2. CASE i # 0
      <3>1. i \in 1 .. n /\ i - 1 \in 0 .. n
        BY <2>2
      <3>2. g[i - 1] = Progress(vals, pos, i - 1)
        BY <1>11, <3>1, Zenon
      <3> QED BY <1>10, <2>2, <3>1, <3>2, Zenon
    <2> QED BY <2>1, <2>2
  <1>13. StreamRead(stream, n, g)
    BY <1>11, <1>12, Zenon DEF StreamRead
  <1>14. PICK f : f = CHOOSE h : StreamRead(stream, n, h)
    OBVIOUS
  <1>15. StreamRead(stream, n, f)
    BY <1>13, <1>14, Zenon
  <1>16. f[0] = Progress(vals, pos, 0)
    <2>1. 0 \in 0 .. n
      OBVIOUS
    <2>2. f[0] = Read(<<>>, 0)
      BY <1>15, <2>1, Zenon DEF StreamRead
    <2> QED BY <1>6, <2>2, ProgressStart, Zenon
  <1>17. ASSUME NEW i \in 1 .. n, f[i - 1] = Progress(vals, pos, i - 1)
         PROVE  f[i] = Progress(vals, pos, i)
    <2>1. i \in 0 .. n /\ i # 0
      OBVIOUS
    <2>2. f[i] = NextInStream(stream, f[i - 1])
      BY <1>15, <2>1, Zenon DEF StreamRead
    <2> QED BY <1>10, <1>17, <2>2, Zenon
  <1>18. f[n] = Read(vals, pos[n])
    BY <1>8, <1>16, <1>17, AllRead, Zenon
  <1>19. ReadStream(stream, n) = f[n]
    BY <1>14, Zenon DEF ReadStream, ReadMany, StreamRead, NextInStream, StreamMessage, Then
  <1> QED BY <1>1, <1>2, <1>4, <1>5, <1>6, <1>7, <1>18, <1>19, Zenon

----------------------------------------------------------------------------
(* Pieces of a stream *)

\* What is left of a sequence after its first k elements.
LEMMA After ==
    ASSUME NEW T, NEW s \in Seq(T), NEW k \in 0 .. Len(s)
    PROVE  /\ SubSeq(s, k + 1, Len(s)) \in Seq(T) /\ Len(SubSeq(s, k + 1, Len(s))) = Len(s) - k
           /\ \A i \in 1 .. Len(s) - k : SubSeq(s, k + 1, Len(s))[i] = s[k + i]
           /\ SubSeq(s, 1, k) \in Seq(T) /\ Len(SubSeq(s, 1, k)) = k
           /\ SubSeq(s, 1, k) \o SubSeq(s, k + 1, Len(s)) = s
           /\ k = 0 => SubSeq(s, k + 1, Len(s)) = s
  <1>1. PICK n \in Nat, m \in Nat : n = Len(s) /\ m = k + 1
    OBVIOUS
  <1>2. k \in Nat /\ k <= n /\ m = k + 1
    BY <1>1
  <1>3. \A i \in 1 .. n : s[i] \in T
    BY <1>1
  <1>4. PICK r : r = SubSeq(s, m, n)
    OBVIOUS
  <1>5. r \in Seq(T) /\ Len(r) = n - k /\ \A i \in 1 .. n - k : r[i] = s[k + i]
    <2>1. \A i \in m .. n : s[i] \in T
      BY <1>2, <1>3
    <2>2. r \in Seq(T) /\ Len(r) = (IF m <= n THEN (n - m) + 1 ELSE 0)
          /\ \A i \in 1 .. (n - m) + 1 : r[i] = s[(m + i) - 1]
      BY <1>4, <2>1, SubSeqProperties
    <2>3. (IF m <= n THEN (n - m) + 1 ELSE 0) = n - k /\ (n - m) + 1 = n - k
          /\ \A i \in 1 .. n - k : (m + i) - 1 = k + i
      BY <1>2
    <2> QED BY <2>2, <2>3, Zenon
  <1>6. PICK l : l = SubSeq(s, 1, k)
    OBVIOUS
  <1>7. l \in Seq(T) /\ Len(l) = k
    <2>1. \A i \in 1 .. k : s[i] \in T
      BY <1>2, <1>3
    <2>2. l \in Seq(T) /\ Len(l) = (IF 1 <= k THEN (k - 1) + 1 ELSE 0)
      BY <1>2, <1>6, <2>1, SubSeqProperties
    <2>3. (IF 1 <= k THEN (k - 1) + 1 ELSE 0) = k
      BY <1>2
    <2> QED BY <2>2, <2>3
  <1>8. l \o r = s
    <2>1. 1 \in 1 .. Len(s) + 1 /\ k \in 1 - 1 .. Len(s) /\ Len(s) \in k .. Len(s)
      BY <1>1
    <2>2. SubSeq(s, 1, k) \o SubSeq(s, k + 1, Len(s)) = SubSeq(s, 1, Len(s))
      BY <2>1, ConcatAdjacentSubSeq
    <2>3. SubSeq(s, 1, Len(s)) = s
      BY SubSeqFull
    <2> QED BY <1>1, <1>4, <1>6, <2>2, <2>3, Zenon
  <1>9. k = 0 => r = s
    <2>1. k = 0 => m = 1
      BY <1>2
    <2>2. SubSeq(s, 1, n) = s
      BY <1>1, SubSeqFull
    <2> QED BY <1>4, <2>1, <2>2, Zenon
  <1> QED BY <1>1, <1>4, <1>5, <1>6, <1>7, <1>8, <1>9, Zenon

\* Bytes that come from the stream and are lost with it.
LEMMA PiecesLost ==
    ASSUME NEW x \in Seq(Bytes), NEW w \in Seq(Bytes), NEW t \in Seq(Bytes)
    PROVE  w \o t \in Seq(Bytes) /\ (x \o w) \o t = (x \o <<>>) \o (w \o t)
  <1>1. x \o <<>> = x
    BY ConcatEmptySeq
  <1>2. x \o (w \o t) = (x \o w) \o t
    BY Associative
  <1>3. w \o t \in Seq(Bytes)
    BY Joined
  <1> QED BY <1>1, <1>2, <1>3, Zenon

\* A message is put behind what is under way.
LEMMA PiecesSent ==
    ASSUME NEW x \in Seq(Bytes), NEW w \in Seq(Bytes), NEW f \in Seq(Bytes)
    PROVE  ((x \o w) \o <<>>) \o f = (x \o (w \o f)) \o <<>>
  <1>1. PICK y \in Seq(Bytes), z \in Seq(Bytes) : y = x \o w /\ z = w \o f
    <2>1. x \o w \in Seq(Bytes) /\ w \o f \in Seq(Bytes)
      BY Joined
    <2> QED BY <2>1, Zenon
  <1>2. PICK v \in Seq(Bytes) : v = x \o z
    <2>1. x \o z \in Seq(Bytes)
      BY Joined
    <2> QED BY <2>1, Zenon
  <1>3. y \o <<>> = y /\ v \o <<>> = v
    BY ConcatEmptySeq
  <1>4. x \o (w \o f) = (x \o w) \o f
    BY Associative, SMTT(30)
  <1> QED BY <1>1, <1>2, <1>3, <1>4, Zenon

\* Three pieces, one after the other.
Pieces(a, b, c) == a \o (b \o c) = (a \o b) \o c

\* It does not matter which two are put together first.
LEMMA PiecesJoined == \A a, b, c \in Seq(Bytes) : Pieces(a, b, c)
  <1> SUFFICES ASSUME NEW a \in Seq(Bytes), NEW b \in Seq(Bytes), NEW c \in Seq(Bytes)
               PROVE  Pieces(a, b, c)
    OBVIOUS
  <1>1. a \o (b \o c) = (a \o b) \o c
    BY Associative
  <1> QED BY <1>1, Zenon DEF Pieces

\* A message at the front of the buffer is at the front of the stream, ...
InFront(f, r, p, w, t) ==
    /\ ((r \o p) \o w) \o t \in Seq(Bytes)
    /\ (((f \o r) \o p) \o w) \o t = f \o (((r \o p) \o w) \o t)

\* ... whatever follows it in the buffer, the queue and the network, ...
LEMMA PieceInFront == \A f, r, p, w, t \in Seq(Bytes) : InFront(f, r, p, w, t)
  <1> SUFFICES ASSUME NEW f \in Seq(Bytes), NEW r \in Seq(Bytes), NEW p \in Seq(Bytes),
                      NEW w \in Seq(Bytes), NEW t \in Seq(Bytes)
               PROVE  InFront(f, r, p, w, t)
    OBVIOUS
  <1>3. PICK x \in Seq(Bytes) : x = r \o p
    <2>1. r \o p \in Seq(Bytes)
      BY Joined
    <2> QED BY <2>1, Zenon
  <1>4. PICK y \in Seq(Bytes) : y = x \o w
    <2>1. x \o w \in Seq(Bytes)
      BY Joined
    <2> QED BY <2>1, Zenon
  <1>5. PICK z \in Seq(Bytes) : z = y \o t
    <2>1. y \o t \in Seq(Bytes)
      BY Joined
    <2> QED BY <2>1, Zenon
  <1>6. Pieces(f, r, p) /\ Pieces(f, x, w) /\ Pieces(f, y, t)
    BY PiecesJoined
  <1> QED BY <1>3, <1>4, <1>5, <1>6, Zenon DEF Pieces, InFront

\* ... from which it is taken.
LEMMA PieceTaken ==
    ASSUME NEW f \in Seq(Bytes), NEW u \in Seq(Bytes), NEW v \in Seq(Bytes), f \o u = f \o v
    PROVE  u = v
  BY ConcatSimplifications

\* Two prefixes of a stream: the one that is not longer stands at the beginning of the other.
LEMMA PrefixOf ==
    ASSUME NEW a \in Seq(Bytes), NEW b \in Seq(Bytes), NEW x \in Seq(Bytes), NEW y \in Seq(Bytes),
           a \o x = b \o y, Len(a) <= Len(b)
    PROVE  Found(b, 0, a)
  <1>1. PICK m \in Nat, n \in Nat, k \in Nat, l \in Nat : m = Len(a) /\ n = Len(b) /\ k = Len(x) /\ l = Len(y)
    OBVIOUS
  <1>2. PICK u : u = a \o x
    OBVIOUS
  <1>3. Len(u) = m + k /\ \A i \in 1 .. m + k : u[i] = IF i <= m THEN a[i] ELSE x[i - m]
    BY <1>1, <1>2, ConcatProperties
  <1>4. u = b \o y
    BY <1>2
  <1>5. Len(u) = n + l /\ \A i \in 1 .. n + l : u[i] = IF i <= n THEN b[i] ELSE y[i - n]
    BY <1>1, <1>4, ConcatProperties
  <1>6. m <= n
    BY <1>1
  <1>7. \A i \in 1 .. m : b[0 + i] = a[i]
    <2> SUFFICES ASSUME NEW i \in 1 .. m PROVE b[0 + i] = a[i]
      OBVIOUS
    <2>1. i \in 1 .. m + k /\ i \in 1 .. n + l /\ i <= m /\ i <= n /\ 0 + i = i
      BY <1>6
    <2> QED BY <1>3, <1>5, <2>1, Zenon
  <1> QED BY <1>1, <1>6, <1>7 DEF Found

----------------------------------------------------------------------------
(* The messages that are under way *)

\* What is written for the messages h + 1 to s of a script.
Frames(msgs, h, s) == [i \in 1 .. s - h |-> Frame(msgs[h + i])]

\* A sequence of messages that can be written.
WellFormed(msgs) ==
    /\ msgs \in Seq(ToSet(msgs))
    /\ \A i \in DOMAIN msgs : IsMessage(msgs[i])

\* The frames are byte sequences, ...
LEMMA FramesAre ==
    ASSUME NEW msgs, WellFormed(msgs), NEW h \in Nat, NEW s \in Nat, h <= s, s <= Len(msgs)
    PROVE  /\ Frames(msgs, h, s) \in Seq(Seq(Bytes)) /\ Len(Frames(msgs, h, s)) = s - h
           /\ \A i \in 1 .. s - h : Frames(msgs, h, s)[i] = Frame(msgs[h + i])
           /\ \A i \in 1 .. s - h : IsMessage(msgs[h + i]) /\ Frame(msgs[h + i]) \in Seq(Bytes)
  <1>0. PICK T : msgs \in Seq(T)
    BY DEF WellFormed
  <1>1. PICK n \in Nat : n = Len(msgs) /\ DOMAIN msgs = 1 .. n
    BY <1>0
  <1>2. PICK k \in Nat : k = s - h
    OBVIOUS
  <1>3. \A i \in 1 .. k : h + i \in 1 .. n
    BY <1>1, <1>2
  <1>4. \A i \in 1 .. k : IsMessage(msgs[h + i]) /\ Frame(msgs[h + i]) \in Seq(Bytes)
    BY <1>1, <1>3, FrameBytes, Zenon DEF WellFormed
  <1>5. PICK f : f = [i \in 1 .. k |-> Frame(msgs[h + i])]
    OBVIOUS
  <1>6. f \in [1 .. k -> Seq(Bytes)] /\ \A i \in 1 .. k : f[i] = Frame(msgs[h + i])
    BY <1>4, <1>5, Zenon
  <1>7. f \in [1 .. k -> Seq(Bytes)]
    BY <1>6, Zenon
  <1>8. f \in Seq(Seq(Bytes)) /\ Len(f) = k
    BY <1>7
  <1>9. Frames(msgs, h, s) = f
    BY <1>2, <1>5, Zenon DEF Frames
  <1> QED BY <1>2, <1>4, <1>6, <1>8, <1>9, Zenon

\* ... one more when the server sends, ...
LEMMA FramesMore ==
    ASSUME NEW msgs, WellFormed(msgs), NEW h \in Nat, NEW s \in Nat, h <= s, s + 1 <= Len(msgs)
    PROVE  Frames(msgs, h, s + 1) = Append(Frames(msgs, h, s), Frame(msgs[s + 1]))
  <1>1. PICK k \in Nat : k = s - h /\ k + 1 = (s + 1) - h /\ h + (k + 1) = s + 1
    OBVIOUS
  <1>2. Len(msgs) \in Nat
    BY DEF WellFormed
  <1>3. PICK f : f = Frames(msgs, h, s)
    OBVIOUS
  <1>4. PICK g : g = Frames(msgs, h, s + 1)
    OBVIOUS
  <1>5. f \in Seq(Seq(Bytes)) /\ Len(f) = k /\ \A i \in 1 .. k : f[i] = Frame(msgs[h + i])
    <2>1. s <= Len(msgs)
      BY <1>2
    <2>2. /\ Frames(msgs, h, s) \in Seq(Seq(Bytes)) /\ Len(Frames(msgs, h, s)) = s - h
          /\ \A i \in 1 .. s - h : Frames(msgs, h, s)[i] = Frame(msgs[h + i])
      BY <2>1, FramesAre, Zenon
    <2> QED BY <1>1, <1>3, <2>2, Zenon
  <1>6. /\ g \in Seq(Seq(Bytes)) /\ Len(g) = k + 1
        /\ \A i \in 1 .. k + 1 : g[i] = Frame(msgs[h + i]) /\ Frame(msgs[h + i]) \in Seq(Bytes)
    <2>1. PICK q \in Nat : q = s + 1
      OBVIOUS
    <2>2. h <= q /\ q <= Len(msgs) /\ q - h = k + 1
      BY <1>1, <2>1
    <2>3. g = Frames(msgs, h, q)
      BY <1>4, <2>1, Zenon
    <2>4. /\ Frames(msgs, h, q) \in Seq(Seq(Bytes)) /\ Len(Frames(msgs, h, q)) = q - h
          /\ \A i \in 1 .. q - h : Frames(msgs, h, q)[i] = Frame(msgs[h + i])
          /\ \A i \in 1 .. q - h : IsMessage(msgs[h + i]) /\ Frame(msgs[h + i]) \in Seq(Bytes)
      BY <2>2, FramesAre, Zenon
    <2> QED BY <2>2, <2>3, <2>4, Zenon
  <1>7. PICK x \in Seq(Bytes) : x = Frame(msgs[s + 1]) /\ g[k + 1] = x
    <2>1. k + 1 \in 1 .. k + 1
      OBVIOUS
    <2> QED BY <1>1, <1>6, <2>1, Zenon
  <1>8. PICK a : a = Append(f, x)
    OBVIOUS
  <1>9. /\ a \in Seq(Seq(Bytes)) /\ Len(a) = k + 1 /\ a[k + 1] = x
        /\ \A i \in 1 .. k : a[i] = f[i]
    <2>1. f \in Seq(Seq(Bytes)) /\ Len(f) = k
      BY <1>5, Zenon
    <2>2. /\ Append(f, x) \in Seq(Seq(Bytes)) /\ Len(Append(f, x)) = k + 1
          /\ Append(f, x)[k + 1] = x /\ \A i \in 1 .. k : Append(f, x)[i] = f[i]
      BY <2>1, SMTT(30)
    <2> QED BY <2>2, <1>8, Zenon
  <1>10. \A i \in 1 .. k + 1 : a[i] = g[i]
    <2> SUFFICES ASSUME NEW i \in 1 .. k + 1 PROVE a[i] = g[i]
      OBVIOUS
    <2>1. CASE i = k + 1
      BY <1>7, <1>9, <2>1, Zenon
    <2>2. CASE i # k + 1
      <3>1. i \in 1 .. k
        BY <2>2
      <3> QED BY <1>5, <1>6, <1>9, <3>1, Zenon
    <2> QED BY <2>1, <2>2
  <1>11. a = g
    <2>1. /\ a \in Seq(Seq(Bytes)) /\ g \in Seq(Seq(Bytes)) /\ Len(a) = Len(g)
          /\ \A i \in 1 .. Len(a) : a[i] = g[i]
      BY <1>6, <1>9, <1>10, Zenon
    <2> QED BY <2>1, SeqEqual, SMTT(30)
  <1> QED BY <1>3, <1>4, <1>7, <1>8, <1>11, Zenon

\* ... one less when the first is handled, ...
LEMMA FramesLess ==
    ASSUME NEW msgs, WellFormed(msgs), NEW h \in Nat, NEW s \in Nat, h < s, s <= Len(msgs)
    PROVE  FlattenSeq(Frames(msgs, h, s)) =
              Frame(msgs[h + 1]) \o FlattenSeq(Frames(msgs, h + 1, s))
  <1>1. PICK k \in Nat : k + 1 = s - h /\ k = s - (h + 1)
    OBVIOUS
  <1>2. Len(msgs) \in Nat
    BY DEF WellFormed
  <1>3. PICK f : f = Frames(msgs, h, s)
    OBVIOUS
  <1>4. PICK g : g = Frames(msgs, h + 1, s)
    OBVIOUS
  <1>5. f \in Seq(Seq(Bytes)) /\ Len(f) = k + 1 /\ \A i \in 1 .. k + 1 : f[i] = Frame(msgs[h + i])
    <2>1. h <= s /\ s - h = k + 1
      BY <1>1
    <2>2. /\ Frames(msgs, h, s) \in Seq(Seq(Bytes)) /\ Len(Frames(msgs, h, s)) = s - h
          /\ \A i \in 1 .. s - h : Frames(msgs, h, s)[i] = Frame(msgs[h + i])
      BY <2>1, FramesAre, Zenon
    <2> QED BY <1>3, <2>1, <2>2, Zenon
  <1>6. g \in Seq(Seq(Bytes)) /\ Len(g) = k /\ \A i \in 1 .. k : g[i] = Frame(msgs[(h + 1) + i])
    <2>1. PICK q \in Nat : q = h + 1
      OBVIOUS
    <2>2. q <= s /\ s - q = k
      BY <1>1, <2>1
    <2>3. g = Frames(msgs, q, s)
      BY <1>4, <2>1, Zenon
    <2>4. /\ Frames(msgs, q, s) \in Seq(Seq(Bytes)) /\ Len(Frames(msgs, q, s)) = s - q
          /\ \A i \in 1 .. s - q : Frames(msgs, q, s)[i] = Frame(msgs[q + i])
      BY <2>2, FramesAre, Zenon
    <2>5. g \in Seq(Seq(Bytes)) /\ Len(g) = k /\ \A i \in 1 .. k : g[i] = Frame(msgs[q + i])
      BY <2>2, <2>3, <2>4, Zenon
    <2>6. \A i \in 1 .. k : q + i = (h + 1) + i
      BY <2>1
    <2> QED BY <2>5, <2>6, Zenon
  <1>7. f # <<>>
    BY <1>5
  <1>8. Head(f) = Frame(msgs[h + 1])
    <2>1. Head(f) = f[1] /\ 1 \in 1 .. k + 1
      BY <1>5, <1>7, HeadTailProperties
    <2> QED BY <1>5, <2>1, Zenon
  <1>9. PICK t : t = Tail(f)
    OBVIOUS
  <1>10. t \in Seq(Seq(Bytes)) /\ Len(t) = k /\ \A i \in 1 .. k : t[i] = f[i + 1]
    <2>1. Len(f) = k + 1 /\ k \in Nat
      BY <1>5
    <2>2. /\ t \in Seq(Seq(Bytes)) /\ Len(t) = Len(f) - 1
          /\ \A i \in 1 .. Len(t) : t[i] = f[i + 1]
      BY <1>5, <1>7, <1>9, HeadTailProperties
    <2>3. Len(t) = k
      BY <2>1, <2>2
    <2> QED BY <2>2, <2>3, Zenon
  <1>11. \A i \in 1 .. k : t[i] = g[i]
    <2> SUFFICES ASSUME NEW i \in 1 .. k PROVE t[i] = g[i]
      OBVIOUS
    <2>1. i + 1 \in 1 .. k + 1 /\ h + (i + 1) = (h + 1) + i
      OBVIOUS
    <2> QED BY <1>5, <1>6, <1>10, <2>1, Zenon
  <1>12. t = g
    BY <1>6, <1>10, <1>11, SeqEqual
  <1>13. FlattenSeq(f) = Head(f) \o FlattenSeq(Tail(f))
    BY <1>5, <1>7, FlattenFirst
  <1> QED BY <1>3, <1>4, <1>8, <1>9, <1>12, <1>13, Zenon

\* ... and none when all are handled.
LEMMA FramesNone == \A msgs, s : s \in Nat => FlattenSeq(Frames(msgs, s, s)) = <<>>
  <1> SUFFICES ASSUME NEW msgs, NEW s \in Nat PROVE FlattenSeq(Frames(msgs, s, s)) = <<>>
    OBVIOUS
  <1>1. 1 .. s - s = {}
    OBVIOUS
  <1>2. Frames(msgs, s, s) = <<>>
    BY <1>1 DEF Frames
  <1> QED BY <1>2, FlattenEmpty

----------------------------------------------------------------------------
(* What the client says *)

\* A message with a short content can be written.
LEMMA ShortMessage ==
    ASSUME NEW m, NEW type \in Numbers, NEW content \in Seq(Bytes), IsBody(m.type, m.body),
           Frame(m) = build_control_message(type, content), Len(content) <= 24
    PROVE  IsMessage(m)
  <1>1. PICK n \in 1 .. 8 : Len(Frame(m)) = (n + 2) + Len(content)
    BY FrameIs, ZenonT(30)
  <1>2. Len(content) \in Nat /\ Power[2] \in Nat /\ Power[2] >= 64
    BY Room
  <1>3. Len(Frame(m)) < Power[2] + 3
    BY <1>1, <1>2
  <1> QED BY <1>3, Zenon DEF IsMessage

\* The answers to ANNOUNCE and to SUBSCRIBE_ANNOUNCES, ...
LEMMA OkIsMessage ==
    ASSUME NEW id \in Numbers
    PROVE  \A m : m \in {[type |-> "AnnounceOk", body |-> [request_id |-> id]],
                         [type |-> "SubscribeAnnouncesOk", body |-> [request_id |-> id]]} =>
              IsMessage(m)
  <1>1. PICK c \in Seq(Bytes) : c = encode_varint(id) /\ Len(c) <= 24
    <2>1. encode_varint(id) \in Seq(Bytes) /\ Len(encode_varint(id)) \in 1 .. 8
      BY NumberBytes
    <2>2. PICK c \in Seq(Bytes) : c = encode_varint(id) /\ Len(c) \in 1 .. 8
      BY <2>1, Zenon
    <2>3. PICK n \in 1 .. 8 : n = Len(c)
      BY <2>2, Zenon
    <2>4. n <= 24
      OBVIOUS
    <2> QED BY <2>2, <2>3, <2>4
  <1> SUFFICES ASSUME NEW m,
                      \/ m = [type |-> "AnnounceOk", body |-> [request_id |-> id]]
                      \/ m = [type |-> "SubscribeAnnouncesOk", body |-> [request_id |-> id]]
               PROVE  IsMessage(m)
    OBVIOUS
  <1>2. m.body = [request_id |-> id] /\ m.body.request_id = id
        /\ m.type \in {"AnnounceOk", "SubscribeAnnouncesOk"}
    OBVIOUS
  <1>3. IsBody(m.type, m.body)
    <2>1. m.body \in [request_id : Numbers]
      BY <1>2
    <2> QED BY <1>2, <2>1, Zenon DEF IsBody
  <1>4. 7 \in Numbers /\ 18 \in Numbers
    BY TypesAre
  <1>5. CASE m.type = "AnnounceOk"
    <2>1. Frame(m) = build_control_message(7, c)
      BY <1>1, <1>2, <1>5 DEF Frame, build_announce_ok, MessageType
    <2> QED BY <1>1, <1>3, <1>4, <2>1, ShortMessage
  <1>6. CASE m.type = "SubscribeAnnouncesOk"
    <2>1. Frame(m) = build_control_message(18, c)
      BY <1>1, <1>2, <1>6 DEF Frame, build_subscribe_announces_ok, MessageType
    <2> QED BY <1>1, <1>3, <1>4, <2>1, ShortMessage
  <1> QED BY <1>2, <1>5, <1>6

\* What the client says when it accepts a subscription.
Accepted(id, alias) ==
    [request_id |-> id, track_alias |-> alias, expires_ms |-> 0, group_order |-> 0,
     content_exists |-> FALSE, largest_group_id |-> 0, largest_object_id |-> 0]

\* ... and the one to SUBSCRIBE.
LEMMA AcceptedIsMessage ==
    ASSUME NEW id \in Numbers, NEW alias \in Numbers, NEW m,
           m = [type |-> "SubscribeOk", body |-> Accepted(id, alias)]
    PROVE  IsMessage(m)
  <1>1. PICK b : b = m.body /\ b = Accepted(id, alias)
    OBVIOUS
  <1>2. /\ b.request_id = id /\ b.track_alias = alias /\ b.expires_ms = 0 /\ b.group_order = 0
        /\ b.content_exists = FALSE /\ b.largest_group_id = 0 /\ b.largest_object_id = 0
    BY <1>1 DEF Accepted
  <1>3. 0 \in Numbers /\ 0 \in Bytes
    <2>1. 0 \in 0 .. 63 /\ 0 \in 0 .. Byte - 1
      BY ByteFacts
    <2> QED BY <2>1, ByteIsNumber DEF Bytes
  <1>4. IsBody(m.type, m.body)
    <2>1. b \in [request_id : Numbers, track_alias : Numbers, expires_ms : Numbers,
                 group_order : Bytes, content_exists : BOOLEAN,
                 largest_group_id : Numbers, largest_object_id : Numbers]
      BY <1>1, <1>3 DEF Accepted
    <2>2. m.type = "SubscribeOk"
      OBVIOUS
    <2> QED BY <1>1, <1>2, <2>1, <2>2, Zenon DEF IsBody
  <1>5. SubscribeOkParams(b) = <<>>
    BY <1>2 DEF SubscribeOkParams, If
  <1>6. PICK x \in Seq(Bytes), y \in Seq(Bytes), z \in Seq(Bytes) :
             /\ x = encode_varint(id) /\ y = encode_varint(alias) /\ z = encode_varint(0)
             /\ Len(x) \in 1 .. 8 /\ Len(y) \in 1 .. 8 /\ Len(z) \in 1 .. 8
    BY <1>3, NumberBytes
  <1>7. PICK w \in Seq(Bytes) : w = x \o y /\ Len(w) = Len(x) + Len(y)
    <2>1. x \o y \in Seq(Bytes) /\ Len(x \o y) = Len(x) + Len(y)
      BY Joined
    <2> QED BY <2>1, Zenon
  <1>8. PICK c \in Seq(Bytes) : c = w \o z /\ Len(c) = Len(w) + Len(z)
    <2>1. w \o z \in Seq(Bytes) /\ Len(w \o z) = Len(w) + Len(z)
      BY Joined
    <2> QED BY <2>1, Zenon
  <1>12. Len(c) <= 24
    <2>1. PICK k \in 1 .. 8, l \in 1 .. 8, n \in 1 .. 8 : k = Len(x) /\ l = Len(y) /\ n = Len(z)
      BY <1>6
    <2>2. Len(c) = (k + l) + n
      BY <1>7, <1>8, <2>1, Zenon
    <2> QED BY <2>2
  <1>9. (encode_varint(b.request_id) \o encode_varint(b.track_alias)) \o
        encode_params(SubscribeOkParams(b)) = c
    BY <1>2, <1>5, <1>6, <1>7, <1>8, NoParams, Zenon
  <1>10. Frame(m) = build_control_message(4, c)
    BY <1>1, <1>9 DEF Frame, build_subscribe_ok, MessageType
  <1>11. 4 \in Numbers
    BY TypesAre
  <1> QED BY <1>4, <1>10, <1>11, <1>12, ShortMessage

\* The elements of a sequence are those that occur in it.
LEMMA SeqOfItsOwn == ASSUME NEW T, NEW s \in Seq(T) PROVE s \in Seq(ToSet(s))
  <1>1. PICK n \in Nat : n = Len(s) /\ DOMAIN s = 1 .. n /\ s = [i \in 1 .. n |-> s[i]]
    OBVIOUS
  <1>2. PICK U : U = ToSet(s)
    OBVIOUS
  <1>3. \A i \in 1 .. n : s[i] \in U
    BY <1>1, <1>2, Zenon DEF ToSet
  <1>4. s \in [1 .. n -> U]
    BY <1>1, <1>3, Zenon
  <1> QED BY <1>2, <1>4

\* Messages that can be written, one after the other.
LEMMA WellFormedParts ==
    /\ WellFormed(<<>>)
    /\ \A m : IsMessage(m) => WellFormed(<<m>>)
    /\ \A s, t : WellFormed(s) /\ WellFormed(t) => WellFormed(s \o t)
  <1>1. WellFormed(<<>>)
    BY DEF WellFormed
  <1>2. ASSUME NEW m, IsMessage(m) PROVE WellFormed(<<m>>)
    <2>1. PICK s : s = <<m>>
      OBVIOUS
    <2>2. s \in Seq({m}) /\ \A i \in DOMAIN s : s[i] = m
      BY <2>1
    <2>3. s \in Seq(ToSet(s))
      BY <2>2, SeqOfItsOwn
    <2> QED BY <1>2, <2>1, <2>2, <2>3, Zenon DEF WellFormed
  <1>3. ASSUME NEW s, NEW t, WellFormed(s), WellFormed(t) PROVE WellFormed(s \o t)
    <2>1. PICK V : s \in Seq(V) /\ t \in Seq(V)
      <3>1. PICK A, B : s \in Seq(A) /\ t \in Seq(B)
        BY <1>3 DEF WellFormed
      <3>2. s \in Seq(A \cup B) /\ t \in Seq(A \cup B)
        BY <3>1
      <3> QED BY <3>2
    <2>2. PICK k \in Nat, l \in Nat : k = Len(s) /\ l = Len(t) /\ DOMAIN s = 1 .. k /\ DOMAIN t = 1 .. l
      BY <2>1
    <2>3. PICK u : u = s \o t
      OBVIOUS
    <2>4. /\ u \in Seq(V) /\ Len(u) = k + l
          /\ \A i \in 1 .. k + l : u[i] = IF i <= k THEN s[i] ELSE t[i - k]
      BY <2>1, <2>2, <2>3, ConcatProperties
    <2>5. DOMAIN u = 1 .. k + l
      BY <2>4
    <2>6. ASSUME NEW i \in 1 .. k + l PROVE IsMessage(u[i])
      <3>1. CASE i <= k
        <4>1. i \in 1 .. k
          BY <3>1
        <4> QED BY <1>3, <2>2, <2>4, <3>1, <4>1, Zenon DEF WellFormed
      <3>2. CASE ~(i <= k)
        <4>1. i - k \in 1 .. l
          BY <3>2
        <4> QED BY <1>3, <2>2, <2>4, <3>2, <4>1, Zenon DEF WellFormed
      <3> QED BY <3>1, <3>2
    <2>7. u \in Seq(ToSet(u))
      BY <2>4, SeqOfItsOwn
    <2> QED BY <2>3, <2>5, <2>6, <2>7, Zenon DEF WellFormed
  <1> QED BY <1>1, <1>2, <1>3, Zenon

\* handle_control_message() answers with messages that can be written.
LEMMA AnswerWellFormed ==
    ASSUME NEW m, IsMessage(m), aliases \in Numbers
    PROVE  /\ WellFormed(Answer(MessageType[m.type], Meaning(m)))
           /\ WellFormed(<<>>)
  <1>0. WellFormed(<<>>)
    BY WellFormedParts
  <1>1. IsBody(m.type, m.body)
    BY DEF IsMessage
  <1>2. PICK t, r : t = MessageType[m.type] /\ r = Meaning(m)
    OBVIOUS
  <1>3. CASE m.type = "Announce"
    <2>1. PICK id \in Numbers : r.request_id = id
      BY <1>1, <1>2, <1>3 DEF IsBody, Meaning
    <2>2. PICK a : a = [type |-> "AnnounceOk", body |-> [request_id |-> id]]
      OBVIOUS
    <2>3. Answer(t, r) = <<a>>
      BY <1>2, <1>3, <2>1, <2>2 DEF Answer, MessageType
    <2>4. IsMessage(a)
      BY <2>2, OkIsMessage
    <2> QED BY <1>0, <1>2, <2>3, <2>4, WellFormedParts, Zenon
  <1>4. CASE m.type = "SubscribeAnnounces"
    <2>1. PICK id \in Numbers : r.request_id = id
      BY <1>1, <1>2, <1>4 DEF IsBody, Meaning
    <2>2. PICK a : a = [type |-> "SubscribeAnnouncesOk", body |-> [request_id |-> id]]
      OBVIOUS
    <2>3. Answer(t, r) = <<a>>
      BY <1>2, <1>4, <2>1, <2>2 DEF Answer, MessageType
    <2>4. IsMessage(a)
      BY <2>2, OkIsMessage
    <2> QED BY <1>0, <1>2, <2>3, <2>4, WellFormedParts, Zenon
  <1>5. CASE m.type = "Subscribe"
    <2>1. PICK id \in Numbers : r.request_id = id
      BY <1>1, <1>2, <1>5 DEF IsBody, Meaning
    <2>2. PICK a : a = [type |-> "SubscribeOk", body |-> Accepted(id, aliases)]
      OBVIOUS
    <2>3. Answer(t, r) = <<a>> \/ Answer(t, r) = <<>>
      <3>1. t = 3 /\ MessageType.Announce = 6 /\ MessageType.SubscribeAnnounces = 17
            /\ MessageType.Subscribe = 3
        BY <1>2, <1>5 DEF MessageType
      <3>2. CASE r.track_namespace \in Published
        <4>1. t # MessageType.Announce /\ t # MessageType.SubscribeAnnounces
              /\ t = MessageType.Subscribe
          BY <3>1
        <4>2. Answer(t, r) = <<[type |-> "SubscribeOk", body |-> Accepted(r.request_id, aliases)]>>
          BY <3>2, <4>1, Zenon DEF Answer, Accepted
        <4> QED BY <2>1, <2>2, <4>2, Zenon
      <3>3. CASE r.track_namespace \notin Published
        BY <3>1, <3>3 DEF Answer
      <3> QED BY <3>2, <3>3
    <2>4. IsMessage(a)
      BY <2>2, AcceptedIsMessage
    <2> QED BY <1>0, <1>2, <2>3, <2>4, WellFormedParts, Zenon
  <1>6. CASE m.type \notin {"Announce", "SubscribeAnnounces", "Subscribe"}
    <2>1. Answer(t, r) = <<>>
      BY <1>1, <1>2, <1>6 DEF IsBody, Answer, MessageType
    <2> QED BY <1>0, <1>2, <2>1, Zenon
  <1> QED BY <1>3, <1>4, <1>5, <1>6

\* The stream begins with the bytes r.
Begins(stream, r) == \E y \in Seq(Bytes) : stream = r \o y

\* The unparsed bytes stand at the beginning of the stream.
LEMMA BufferInFront ==
    \A r, p, w, t \in Seq(Bytes) : Begins(((r \o p) \o w) \o t, r)
  <1> SUFFICES ASSUME NEW r \in Seq(Bytes), NEW p \in Seq(Bytes), NEW w \in Seq(Bytes),
                      NEW t \in Seq(Bytes)
               PROVE  Begins(((r \o p) \o w) \o t, r)
    OBVIOUS
  <1>1. PICK x \in Seq(Bytes) : x = p \o w
    <2>1. p \o w \in Seq(Bytes)
      BY Joined
    <2> QED BY <2>1, Zenon
  <1>2. PICK y \in Seq(Bytes) : y = x \o t
    <2>1. x \o t \in Seq(Bytes)
      BY Joined
    <2> QED BY <2>1, Zenon
  <1>3. Pieces(r, p, w) /\ Pieces(r, x, t)
    BY PiecesJoined
  <1> QED BY <1>1, <1>2, <1>3, Zenon DEF Pieces, Begins

\* What process_incoming() finds at the front of its buffer: the first message that is not
\* handled, or nothing yet.
LEMMA FrontMessage ==
    ASSUME NEW msgs, WellFormed(msgs), NEW h \in Nat, NEW s \in Nat, h <= s, s <= Len(msgs),
           NEW r \in Seq(Bytes), Begins(FlattenSeq(Frames(msgs, h, s)), r),
           parse_control_message(r) # Failed
    PROVE  /\ h < s /\ IsMessage(msgs[h + 1]) /\ Found(r, 0, Frame(msgs[h + 1]))
           /\ FlattenSeq(Frames(msgs, h, s)) =
                 Frame(msgs[h + 1]) \o FlattenSeq(Frames(msgs, h + 1, s))
           /\ FlattenSeq(Frames(msgs, h + 1, s)) \in Seq(Bytes)
  <1>0. PICK y \in Seq(Bytes) : FlattenSeq(Frames(msgs, h, s)) = r \o y
    BY Zenon DEF Begins
  <1>1. h < s
    <2> SUFFICES ASSUME h = s PROVE FALSE
      OBVIOUS
    <2>1. r \o y = <<>>
      BY <1>0, FramesNone, Zenon
    <2>2. Len(r \o y) = Len(r) + Len(y) /\ Len(r) \in Nat /\ Len(y) \in Nat
      BY Joined
    <2>3. Len(<<>>) = 0
      OBVIOUS
    <2>4. PICK k \in Nat, l \in Nat : k = Len(r) /\ l = Len(y) /\ k + l = 0
      BY <2>1, <2>2, <2>3, Zenon
    <2>5. k < 3
      BY <2>4
    <2>6. Len(r) < 3
      BY <2>4, <2>5, Zenon
    <2>7. parse_control_message(r) = Failed
      BY <2>6, Zenon DEF parse_control_message
    <2> QED BY <2>7, Zenon
  <1>2. PICK q \in Nat : q = h + 1 /\ q <= s /\ 1 \in 1 .. s - h
    BY <1>1
  <1>3. PICK m : m = msgs[q]
    OBVIOUS
  <1>4. IsMessage(m)
    BY <1>2, <1>3, FramesAre, Zenon
  <1>5. PICK f \in Seq(Bytes) : f = Frame(m)
    BY <1>4, FrameBytes, Zenon
  <1>6. PICK z : z = FlattenSeq(Frames(msgs, q, s))
    OBVIOUS
  <1>7. z \in Seq(Bytes)
    <2>1. Frames(msgs, q, s) \in Seq(Seq(Bytes))
      BY <1>2, FramesAre, Zenon
    <2> QED BY <1>6, <2>1, FlattenType, Zenon
  <1>8. FlattenSeq(Frames(msgs, h, s)) = f \o z
    BY <1>1, <1>2, <1>3, <1>5, <1>6, FramesLess, Zenon
  <1>9. f \o z = r \o y
    BY <1>0, <1>8, Zenon
  <1>10. Found(r, 0, f)
    <2>1. CASE Len(f) <= Len(r)
      BY <1>7, <1>9, <2>1, PrefixOf
    <2>2. CASE ~(Len(f) <= Len(r))
      <3>1. Len(r) < Len(f) /\ Len(r) <= Len(f)
        BY <2>2
      <3>2. Found(f, 0, r)
        BY <1>7, <1>9, <3>1, PrefixOf
      <3>3. parse_control_message(r) = Failed
        <4>1. Found(Frame(m), 0, r) /\ Len(r) < Len(Frame(m))
          BY <1>5, <3>1, <3>2, Zenon
        <4> QED BY <1>4, <4>1, MessageCut, Zenon
      <3> QED BY <3>3, Zenon
    <2> QED BY <2>1, <2>2
  <1> QED BY <1>1, <1>2, <1>3, <1>4, <1>5, <1>6, <1>7, <1>8, <1>10, Zenon

----------------------------------------------------------------------------
(* The inductive invariant *)

\* What the session thread has not handled yet, in three places, ...
Unparsed == SubSeq(recv_buffer, offset + 1, Len(recv_buffer))

Received == Unparsed \o FlattenSeq(pending_control_data)

\* ... and what the server has written for the messages it has sent and that are not
\* handled.
Unhandled == Frames(script, Len(handled), sent)

\* The second is the first, followed by what was lost with the connection.
UnderWay(tail) == FlattenSeq(Unhandled) = (Received \o wire) \o tail

Types ==
    /\ TypeOK
    /\ pending_control_data \in Seq(Seq(Bytes))
    /\ pc # "parse" => offset = 0

HandledInOrder ==
    /\ Len(handled) \in 0 .. sent
    /\ handled = [i \in 1 .. Len(handled) |-> AsRead(script[i])]

NothingLost == \E tail \in Seq(Bytes) : UnderWay(tail) /\ (open => tail = <<>>)

Spoken ==
    /\ WellFormed(said)
    /\ aliases <= Len(handled) + 1

CleanBetween ==
    current_state = "Disconnected" =>
        /\ pc = "idle" /\ recv_buffer = <<>> /\ pending_control_data = <<>>
        /\ wire = <<>> /\ sent = 0 /\ said = <<>>

IInv == Types /\ HandledInOrder /\ NothingLost /\ Spoken /\ CleanBetween

\* What the server sends can be written.
LEMMA ScriptsWellFormed ==
    ASSUME NEW s \in Scripts
    PROVE  WellFormed(s) /\ Len(s) \in Nat /\ Len(s) + 1 \in Numbers
  <1>1. s \in Seq(Messages) /\ Len(s) + 1 \in Numbers
    BY MessagesAssumption
  <1>2. \A m \in Messages : IsMessage(m)
    BY MessagesAssumption
  <1>3. PICK n \in Nat : n = Len(s) /\ DOMAIN s = 1 .. n /\ \A i \in 1 .. n : s[i] \in Messages
    BY <1>1
  <1>4. s \in Seq(ToSet(s))
    BY <1>1, SeqOfItsOwn
  <1> QED BY <1>1, <1>2, <1>3, <1>4, Zenon DEF WellFormed

\* What the client sends of its own accord can be written.
LEMMA RequestsWellFormed ==
    /\ WellFormed(Requests)
    /\ WellFormed(<<[type |-> "ClientSetup", body |-> Setup]>>)
  <1>1. Requests \in Seq(ToSet(Requests))
    BY MessagesAssumption
  <1>2. \A m \in ToSet(Requests) \cup {[type |-> "ClientSetup", body |-> Setup]} : IsMessage(m)
    BY MessagesAssumption
  <1>3. \A i \in DOMAIN Requests : Requests[i] \in ToSet(Requests)
    BY DEF ToSet
  <1>4. WellFormed(Requests)
    BY <1>1, <1>2, <1>3, Zenon DEF WellFormed
  <1>5. IsMessage([type |-> "ClientSetup", body |-> Setup])
    BY <1>2
  <1> QED BY <1>4, <1>5, WellFormedParts, Zenon

\* The types of what the invariant speaks of.
LEMMA StateTypes ==
    ASSUME IInv
    PROVE  /\ WellFormed(script) /\ Len(script) \in Nat /\ Len(script) + 1 \in Numbers
           /\ Len(handled) \in Nat /\ sent \in Nat
           /\ Len(handled) <= sent /\ sent <= Len(script)
           /\ recv_buffer \in Seq(Bytes) /\ Len(recv_buffer) \in Nat
           /\ offset \in 0 .. Len(recv_buffer) /\ wire \in Seq(Bytes)
           /\ pending_control_data \in Seq(Seq(Bytes))
           /\ Unparsed \in Seq(Bytes) /\ FlattenSeq(pending_control_data) \in Seq(Bytes)
           /\ Received \in Seq(Bytes)
           /\ Unhandled \in Seq(Seq(Bytes))
  <1>1. TypeOK /\ pending_control_data \in Seq(Seq(Bytes)) /\ Len(handled) \in 0 .. sent
    BY DEF IInv, Types, HandledInOrder
  <1>2. script \in Scripts
    BY <1>1 DEF TypeOK
  <1>3. WellFormed(script) /\ Len(script) \in Nat /\ Len(script) + 1 \in Numbers
    BY <1>2, ScriptsWellFormed
  <1>4. sent \in 0 .. Len(script)
    BY <1>1 DEF TypeOK
  <1>5. sent \in Nat /\ Len(handled) \in Nat /\ Len(handled) <= sent /\ sent <= Len(script)
    BY <1>1, <1>3, <1>4
  <1>6. recv_buffer \in Seq(Bytes) /\ offset \in 0 .. Len(recv_buffer) /\ wire \in Seq(Bytes)
    BY <1>1 DEF TypeOK
  <1>7. Len(recv_buffer) \in Nat
    BY <1>6
  <1>8. Unparsed \in Seq(Bytes)
    BY <1>6, After DEF Unparsed
  <1>9. FlattenSeq(pending_control_data) \in Seq(Bytes)
    BY <1>1, FlattenType
  <1>10. Received \in Seq(Bytes)
    BY <1>8, <1>9, Joined DEF Received
  <1>11. Unhandled \in Seq(Seq(Bytes))
    BY <1>3, <1>5, FramesAre, Zenon DEF Unhandled
  <1> QED BY <1>1, <1>3, <1>5, <1>6, <1>7, <1>8, <1>9, <1>10, <1>11, Zenon

\* An empty connection.
LEMMA NothingUnderWay ==
    ASSUME NEW msgs
    PROVE  FlattenSeq(Frames(msgs, 0, 0)) =
              ((SubSeq(<<>>, 0 + 1, Len(<<>>)) \o FlattenSeq(<<>>)) \o <<>>) \o <<>>
  <1>1. SubSeq(<<>>, 0 + 1, Len(<<>>)) = <<>>
    <2>1. <<>> \in Seq(Bytes) /\ 0 \in 0 .. Len(<<>>)
      OBVIOUS
    <2> QED BY <2>1, After
  <1>2. <<>> \o <<>> = <<>>
    OBVIOUS
  <1>3. FlattenSeq(Frames(msgs, 0, 0)) = <<>>
    BY FramesNone
  <1> QED BY <1>1, <1>2, <1>3, FlattenEmpty, Zenon

\* The initial states.
LEMMA InitInv == Init => IInv
  <1> SUFFICES ASSUME Init PROVE IInv
    OBVIOUS
  <1>0. /\ open = FALSE /\ current_state = "Disconnected"
        /\ pending_control_data = <<>> /\ recv_buffer = <<>>
        /\ pc = "idle" /\ offset = 0
        /\ script \in Scripts /\ sent = 0 /\ wire = <<>>
        /\ handled = <<>> /\ said = <<>> /\ aliases = 1 /\ connections = 0
    BY DEF Init
  <1>1. Len(script) \in Nat
    BY <1>0, ScriptsWellFormed
  <1>2. Types
    <2>1. open \in BOOLEAN
      BY <1>0
    <2> QED BY <1>0, <1>1, <2>1, BoundsAssumption DEF Types, TypeOK
  <1>3. HandledInOrder
    BY <1>0 DEF HandledInOrder
  <1>4. NothingLost
    <2>1. Len(handled) = 0 /\ <<>> \in Seq(Bytes)
      BY <1>0
    <2>2. UnderWay(<<>>)
      BY <1>0, <2>1, NothingUnderWay, Zenon DEF UnderWay, Unhandled, Received, Unparsed
    <2> QED BY <2>1, <2>2, Zenon DEF NothingLost
  <1>5. Spoken
    <2>1. WellFormed(said)
      BY <1>0, WellFormedParts
    <2>2. aliases <= Len(handled) + 1
      BY <1>0
    <2> QED BY <2>1, <2>2, Zenon DEF Spoken
  <1>6. CleanBetween
    BY <1>0 DEF CleanBetween
  <1> QED BY <1>2, <1>3, <1>4, <1>5, <1>6, Zenon DEF IInv

----------------------------------------------------------------------------
(* The connection *)

\* A connection starts with empty hands.
LEMMA StartMoqSessionInv == ASSUME IInv, StartMoqSession PROVE IInv'
  <1>0. /\ current_state = "Disconnected" /\ pc = "idle" /\ connections < MaxConnections
        /\ connections' = connections + 1 /\ open' = TRUE /\ current_state' = "Connected"
        /\ said' = <<[type |-> "ClientSetup", body |-> Setup]>>
        /\ pending_control_data' = pending_control_data /\ recv_buffer' = recv_buffer
        /\ pc' = pc /\ offset' = offset /\ script' = script /\ sent' = sent /\ wire' = wire
        /\ handled' = handled /\ aliases' = aliases
    BY DEF StartMoqSession, thread
  <1>1. /\ pending_control_data = <<>> /\ recv_buffer = <<>> /\ wire = <<>> /\ sent = 0 /\ offset = 0
    BY <1>0 DEF IInv, CleanBetween, Types
  <1>2. Len(handled) = 0
    BY <1>1, StateTypes
  <1>3. Types'
    <2>1. open' \in BOOLEAN
      BY <1>0
    <2> QED BY <1>0, <2>1, BoundsAssumption DEF IInv, Types, TypeOK
  <1>4. HandledInOrder'
    BY <1>0, Zenon DEF IInv, HandledInOrder
  <1>5. NothingLost'
    <2>1. <<>> \in Seq(Bytes)
      OBVIOUS
    <2>2. UnderWay(<<>>)'
      BY <1>0, <1>1, <1>2, NothingUnderWay, Zenon DEF UnderWay, Unhandled, Received, Unparsed
    <2> QED BY <2>1, <2>2, Zenon DEF NothingLost
  <1>6. Spoken'
    BY <1>0, RequestsWellFormed, Zenon DEF IInv, Spoken
  <1>7. CleanBetween'
    BY <1>0 DEF CleanBetween
  <1> QED BY <1>3, <1>4, <1>5, <1>6, <1>7, Zenon DEF IInv

\* The bytes that were on their way are lost.
LEMMA StreamCloses ==
    ASSUME IInv, ~open', wire' = <<>>, recv_buffer' = recv_buffer, offset' = offset,
           pending_control_data' = pending_control_data, script' = script, sent' = sent,
           handled' = handled
    PROVE  NothingLost'
  <1>1. PICK tail \in Seq(Bytes) : UnderWay(tail)
    BY Zenon DEF IInv, NothingLost
  <1>2. PICK x \in Seq(Bytes), w \in Seq(Bytes) : x = Received /\ w = wire
    BY StateTypes
  <1>3. FlattenSeq(Unhandled) = (x \o w) \o tail
    BY <1>1, <1>2, Zenon DEF UnderWay
  <1>4. w \o tail \in Seq(Bytes) /\ (x \o w) \o tail = (x \o <<>>) \o (w \o tail)
    BY PiecesLost
  <1>5. PICK t \in Seq(Bytes) : t = w \o tail
    BY <1>4, Zenon
  <1>6. Unhandled' = Unhandled /\ Received' = Received
    BY Zenon DEF Unhandled, Received, Unparsed
  <1>7. UnderWay(t)'
    BY <1>2, <1>3, <1>4, <1>5, <1>6, Zenon DEF UnderWay
  <1> QED BY <1>7, Zenon DEF NothingLost

\* The connection is lost.
LEMMA ConnectionDiesInv == ASSUME IInv, ConnectionDies PROVE IInv'
  <1>0. /\ open' = FALSE /\ wire' = <<>> /\ current_state' = current_state
        /\ pending_control_data' = pending_control_data /\ recv_buffer' = recv_buffer
        /\ pc' = pc /\ offset' = offset /\ script' = script /\ sent' = sent
        /\ connections' = connections /\ handled' = handled /\ said' = said /\ aliases' = aliases
    BY DEF ConnectionDies, thread, client
  <1>3. Types'
    <2>1. open' \in BOOLEAN
      BY <1>0
    <2>2. wire' \in Seq(Bytes)
      BY <1>0
    <2> QED BY <1>0, <2>1, <2>2, Zenon DEF IInv, Types, TypeOK
  <1>4. HandledInOrder'
    BY <1>0, Zenon DEF IInv, HandledInOrder
  <1>5. NothingLost'
    BY <1>0, StreamCloses
  <1>6. Spoken'
    BY <1>0, Zenon DEF IInv, Spoken
  <1>7. CleanBetween'
    BY <1>0, Zenon DEF IInv, CleanBetween
  <1> QED BY <1>3, <1>4, <1>5, <1>6, <1>7, Zenon DEF IInv

\* disconnect() closes the stream, ...
LEMMA DisconnectCloseInv == ASSUME IInv, DisconnectClose PROVE IInv'
  <1>0. /\ pc = "idle" /\ current_state # "Disconnected"
        /\ open' = FALSE /\ wire' = <<>> /\ current_state' = current_state
        /\ pending_control_data' = pending_control_data /\ recv_buffer' = recv_buffer
        /\ pc' = "clear" /\ offset' = offset /\ script' = script /\ sent' = sent
        /\ connections' = connections /\ handled' = handled /\ said' = said /\ aliases' = aliases
    BY DEF DisconnectClose, client
  <1>3. Types'
    <2>1. open' \in BOOLEAN
      BY <1>0
    <2>2. wire' \in Seq(Bytes)
      BY <1>0
    <2>3. TypeOK'
      BY <1>0, <2>1, <2>2, Zenon DEF IInv, Types, TypeOK
    <2>4. offset' = 0
      BY <1>0 DEF IInv, Types
    <2> QED BY <1>0, <2>3, <2>4, Zenon DEF IInv, Types
  <1>4. HandledInOrder'
    BY <1>0, Zenon DEF IInv, HandledInOrder
  <1>5. NothingLost'
    BY <1>0, StreamCloses
  <1>6. Spoken'
    BY <1>0, Zenon DEF IInv, Spoken
  <1>7. CleanBetween'
    BY <1>0, Zenon DEF CleanBetween
  <1> QED BY <1>3, <1>4, <1>5, <1>6, <1>7, Zenon DEF IInv

\* ... and forgets what it brought.
LEMMA DisconnectClearInv == ASSUME IInv, DisconnectClear PROVE IInv'
  <1>0. /\ pc = "clear" /\ pending_control_data' = <<>> /\ recv_buffer' = <<>>
        /\ current_state' = "Disconnected" /\ pc' = "idle" /\ script' \in Scripts
        /\ wire' = <<>> /\ sent' = 0 /\ handled' = <<>> /\ said' = <<>> /\ aliases' = 1
        /\ offset' = offset /\ open' = open /\ connections' = connections
    BY DEF DisconnectClear, Fresh
  <1>1. offset' = 0
    BY <1>0 DEF IInv, Types
  <1>2. Len(handled') = 0 /\ Len(script') \in Nat
    BY <1>0, ScriptsWellFormed
  <1>3. Types'
    <2>1. open' \in BOOLEAN /\ connections' \in 0 .. MaxConnections
      BY <1>0, Zenon DEF IInv, Types, TypeOK
    <2>2. connections' \in 0 .. MaxConnections
      BY <2>1, Zenon
    <2>3. /\ current_state' \in {"Disconnected", "Connected", "Ready"}
          /\ pending_control_data' \in Seq(Seq(Bytes)) /\ DOMAIN pending_control_data' = {}
          /\ recv_buffer' \in Seq(Bytes) /\ wire' \in Seq(Bytes)
          /\ pc' \in {"idle", "drain", "parse", "clear"} /\ offset' \in 0 .. Len(recv_buffer')
          /\ script' \in Scripts /\ sent' \in 0 .. Len(script') /\ aliases' \in Nat \ {0}
      BY <1>0, <1>1, <1>2
    <2> QED BY <1>1, <2>1, <2>2, <2>3, Zenon DEF Types, TypeOK
  <1>4. HandledInOrder'
    BY <1>0, <1>2 DEF HandledInOrder
  <1>5. NothingLost'
    <2>1. <<>> \in Seq(Bytes)
      OBVIOUS
    <2>2. UnderWay(<<>>)'
      BY <1>0, <1>1, <1>2, NothingUnderWay, Zenon DEF UnderWay, Unhandled, Received, Unparsed
    <2> QED BY <2>1, <2>2, Zenon DEF NothingLost
  <1>6. Spoken'
    <2>1. WellFormed(said')
      BY <1>0, WellFormedParts
    <2>2. aliases' <= Len(handled') + 1
      BY <1>0, <1>2
    <2> QED BY <2>1, <2>2, Zenon DEF Spoken
  <1>7. CleanBetween'
    BY <1>0 DEF CleanBetween
  <1> QED BY <1>3, <1>4, <1>5, <1>6, <1>7, Zenon DEF IInv

----------------------------------------------------------------------------
(* The server, the network and the msquic worker *)

\* A message more is under way.
LEMMA ServerSendsInv == ASSUME IInv, ServerSends PROVE IInv'
  <1>0. /\ open /\ said # <<>> /\ sent < Len(script) /\ sent' = sent + 1
        /\ wire' = wire \o Frame(script[sent + 1])
        /\ open' = open /\ current_state' = current_state
        /\ pending_control_data' = pending_control_data /\ recv_buffer' = recv_buffer
        /\ pc' = pc /\ offset' = offset /\ script' = script
        /\ connections' = connections /\ handled' = handled /\ said' = said /\ aliases' = aliases
    BY DEF ServerSends, thread, client
  <1>1. PICK h \in Nat, s \in Nat : /\ h = Len(handled) /\ s = sent /\ h <= s /\ s < Len(script)
                                    /\ s + 1 \in Nat /\ s + 1 <= Len(script) /\ h <= s + 1
    <2>1. Len(handled) \in Nat /\ sent \in Nat /\ Len(script) \in Nat /\ Len(handled) <= sent
      BY StateTypes, Zenon
    <2>2. sent + 1 \in Nat /\ sent + 1 <= Len(script) /\ Len(handled) <= sent + 1
      BY <1>0, <2>1
    <2> QED BY <1>0, <2>1, <2>2, Zenon
  <1>2. PICK f \in Seq(Bytes) : f = Frame(script[s + 1])
    <2>1. PICK k \in Nat : k = (s + 1) - h /\ h + k = s + 1 /\ k \in 1 .. k
      BY <1>1
    <2>2. Frame(script[h + k]) \in Seq(Bytes)
      BY <1>1, <2>1, StateTypes, FramesAre, Zenon
    <2> QED BY <2>1, <2>2, Zenon
  <1>3. PICK x \in Seq(Bytes), w \in Seq(Bytes) : x = Received /\ w = wire
    BY StateTypes
  <1>4. w \o f \in Seq(Bytes) /\ wire' = w \o f
    <2>1. w \o f \in Seq(Bytes)
      BY Joined
    <2> QED BY <1>0, <1>1, <1>2, <1>3, <2>1, Zenon
  <1>5. Types'
    <2>1. sent' \in 0 .. Len(script')
      <3>1. PICK l \in Nat : l = Len(script)
        BY StateTypes, Zenon
      <3>2. s + 1 \in 0 .. l
        BY <1>1, <3>1
      <3> QED BY <1>0, <1>1, <3>1, <3>2, Zenon
    <2>2. wire' \in Seq(Bytes)
      BY <1>4, Zenon
    <2> QED BY <1>0, <2>1, <2>2, Zenon DEF IInv, Types, TypeOK
  <1>6. HandledInOrder'
    <2>1. Len(handled) \in 0 .. sent'
      BY <1>0, <1>1
    <2> QED BY <1>0, <2>1, Zenon DEF IInv, HandledInOrder
  <1>7. NothingLost'
    <2>1. PICK tail \in Seq(Bytes) : UnderWay(tail) /\ tail = <<>>
      BY <1>0, Zenon DEF IInv, NothingLost
    <2>2. PICK u \in Seq(Seq(Bytes)) : u = Unhandled
      BY StateTypes, Zenon
    <2>3. FlattenSeq(u) = (x \o w) \o <<>>
      BY <1>3, <2>1, <2>2, Zenon DEF UnderWay
    <2>4. FlattenSeq(Append(u, f)) = FlattenSeq(u) \o f
      BY FlattenAppend
    <2>5. Unhandled' = Append(u, f)
      <3>1. Frames(script, h, s + 1) = Append(Frames(script, h, s), Frame(script[s + 1]))
        BY <1>1, StateTypes, FramesMore, Zenon
      <3> QED BY <1>0, <1>1, <1>2, <2>2, <3>1, Zenon DEF Unhandled
    <2>6. ((x \o w) \o <<>>) \o f = (x \o (w \o f)) \o <<>>
      BY PiecesSent
    <2>7. Received' = x
      BY <1>0, <1>3, Zenon DEF Received, Unparsed
    <2>8. UnderWay(<<>>)'
      BY <1>4, <2>3, <2>4, <2>5, <2>6, <2>7, Zenon DEF UnderWay
    <2> QED BY <2>1, <2>8, Zenon DEF NothingLost
  <1>8. Spoken'
    BY <1>0, Zenon DEF IInv, Spoken
  <1>9. CleanBetween'
    BY <1>0, Zenon DEF IInv, CleanBetween
  <1> QED BY <1>5, <1>6, <1>7, <1>8, <1>9, Zenon DEF IInv

\* A piece goes from the network to the queue, ...
LEMMA ReceivePieceInv == ASSUME IInv, NEW n \in PieceSizes, ReceivePiece(n) PROVE IInv'
  <1>0. /\ open /\ n <= Len(wire)
        /\ pending_control_data' = Append(pending_control_data, SubSeq(wire, 1, n))
        /\ wire' = SubSeq(wire, n + 1, Len(wire))
        /\ open' = open /\ current_state' = current_state /\ recv_buffer' = recv_buffer
        /\ pc' = pc /\ offset' = offset /\ script' = script /\ sent' = sent
        /\ connections' = connections /\ handled' = handled /\ said' = said /\ aliases' = aliases
    BY DEF ReceivePiece, thread, client
  <1>1. n \in Nat \ {0}
    BY BoundsAssumption
  <1>2. PICK w \in Seq(Bytes) : w = wire
    BY StateTypes
  <1>3. n \in 0 .. Len(w)
    BY <1>0, <1>1, <1>2
  <1>4. PICK b \in Seq(Bytes), c \in Seq(Bytes) :
             b = SubSeq(w, 1, n) /\ c = SubSeq(w, n + 1, Len(w)) /\ b \o c = w
    <2>1. /\ SubSeq(w, 1, n) \in Seq(Bytes) /\ SubSeq(w, n + 1, Len(w)) \in Seq(Bytes)
          /\ SubSeq(w, 1, n) \o SubSeq(w, n + 1, Len(w)) = w
      BY <1>3, After, Zenon
    <2> QED BY <2>1, Zenon
  <1>5. PICK q \in Seq(Seq(Bytes)) : q = pending_control_data
    BY StateTypes
  <1>6. pending_control_data' = Append(q, b) /\ wire' = c
    BY <1>0, <1>2, <1>4, <1>5, Zenon
  <1>7. Append(q, b) \in Seq(Seq(Bytes))
    BY AppendProperties
  <1>8. Types'
    <2>1. pending_control_data' \in Seq(Seq(Bytes)) /\ wire' \in Seq(Bytes)
      BY <1>6, <1>7, Zenon
    <2>2. \A i \in DOMAIN pending_control_data' : pending_control_data'[i] \in Seq(Bytes)
      BY <2>1
    <2> QED BY <1>0, <2>1, <2>2, Zenon DEF IInv, Types, TypeOK
  <1>9. HandledInOrder'
    BY <1>0, Zenon DEF IInv, HandledInOrder
  <1>10. NothingLost'
    <2>1. PICK tail \in Seq(Bytes) : UnderWay(tail) /\ tail = <<>>
      BY <1>0, Zenon DEF IInv, NothingLost
    <2>2. PICK r \in Seq(Bytes), a \in Seq(Bytes) : r = Unparsed /\ a = FlattenSeq(q)
      BY <1>5, StateTypes, Zenon
    <2>3. FlattenSeq(Append(q, b)) = a \o b
      BY <2>2, FlattenAppend
    <2>4. (r \o a) \o (b \o c) = (r \o (a \o b)) \o c
      <3>1. PICK x \in Seq(Bytes) : x = r \o a
        <4>1. r \o a \in Seq(Bytes)
          BY Joined
        <4> QED BY <4>1, Zenon
      <3>2. Pieces(r, a, b) /\ Pieces(x, b, c)
        BY PiecesJoined
      <3> QED BY <3>1, <3>2, Zenon DEF Pieces
    <2>5. Received = r \o a /\ Received' = r \o (a \o b)
      BY <1>0, <1>5, <1>6, <2>2, <2>3, Zenon DEF Received, Unparsed
    <2>6. FlattenSeq(Unhandled) = ((r \o a) \o (b \o c)) \o <<>>
      BY <1>2, <1>4, <2>1, <2>5, Zenon DEF UnderWay
    <2>7. Unhandled' = Unhandled
      BY <1>0, Zenon DEF Unhandled
    <2>8. UnderWay(<<>>)'
      BY <1>6, <2>4, <2>5, <2>6, <2>7, Zenon DEF UnderWay
    <2> QED BY <2>1, <2>8, Zenon DEF NothingLost
  <1>11. Spoken'
    BY <1>0, Zenon DEF IInv, Spoken
  <1>12. CleanBetween'
    <2>1. current_state # "Disconnected"
      <3> SUFFICES ASSUME current_state = "Disconnected" PROVE FALSE
        OBVIOUS
      <3>1. wire = <<>>
        BY DEF IInv, CleanBetween
      <3> QED BY <1>0, <1>1, <3>1
    <2> QED BY <1>0, <2>1, Zenon DEF CleanBetween
  <1> QED BY <1>8, <1>9, <1>10, <1>11, <1>12, Zenon DEF IInv

----------------------------------------------------------------------------
(* The session thread *)

\* ... and from the queue to recv_buffer_.
LEMMA DrainPieceInv == ASSUME IInv, DrainPiece PROVE IInv'
  <1>0. /\ pc \in {"idle", "drain"} /\ pending_control_data # <<>> /\ pc' = "drain"
        /\ recv_buffer' = recv_buffer \o Head(pending_control_data)
        /\ pending_control_data' = Tail(pending_control_data)
        /\ open' = open /\ current_state' = current_state /\ wire' = wire
        /\ offset' = offset /\ script' = script /\ sent' = sent
        /\ connections' = connections /\ handled' = handled /\ said' = said /\ aliases' = aliases
    BY DEF DrainPiece, network, client
  <1>1. offset = 0 /\ pc # "parse"
    BY <1>0 DEF IInv, Types
  <1>2. PICK q \in Seq(Seq(Bytes)) : q = pending_control_data /\ q # <<>>
    BY <1>0, StateTypes
  <1>3. PICK a \in Seq(Bytes), rest \in Seq(Seq(Bytes)) : a = Head(q) /\ rest = Tail(q)
    BY <1>2, HeadTailProperties
  <1>4. PICK r \in Seq(Bytes), b \in Seq(Bytes), w \in Seq(Bytes) :
             r = recv_buffer /\ b = FlattenSeq(rest) /\ w = wire
    <2>1. FlattenSeq(rest) \in Seq(Bytes)
      BY FlattenType
    <2> QED BY <2>1, StateTypes, Zenon
  <1>5. FlattenSeq(q) = a \o b
    BY <1>2, <1>3, <1>4, FlattenFirst
  <1>6. PICK v \in Seq(Bytes) : v = r \o a
    <2>1. r \o a \in Seq(Bytes)
      BY Joined
    <2> QED BY <2>1, Zenon
  <1>7. recv_buffer' = v /\ pending_control_data' = rest
    BY <1>0, <1>2, <1>3, <1>4, <1>6, Zenon
  <1>8. Types'
    <2>1. pending_control_data' \in Seq(Seq(Bytes)) /\ recv_buffer' \in Seq(Bytes)
      BY <1>7, Zenon
    <2>2. \A i \in DOMAIN pending_control_data' : pending_control_data'[i] \in Seq(Bytes)
      BY <2>1
    <2>3. offset' \in 0 .. Len(recv_buffer')
      BY <1>0, <1>1, <2>1
    <2>4. pc' \in {"idle", "drain", "parse", "clear"} /\ offset' = 0
      BY <1>0, <1>1
    <2> QED BY <1>0, <2>1, <2>2, <2>3, <2>4, Zenon DEF IInv, Types, TypeOK
  <1>9. HandledInOrder'
    BY <1>0, Zenon DEF IInv, HandledInOrder
  <1>10. NothingLost'
    <2>1. PICK tail \in Seq(Bytes) : UnderWay(tail) /\ (open => tail = <<>>)
      BY Zenon DEF IInv, NothingLost
    <2>2. /\ SubSeq(r, 0 + 1, Len(r)) = r /\ SubSeq(v, 0 + 1, Len(v)) = v
      <3>1. 0 \in 0 .. Len(r) /\ 0 \in 0 .. Len(v)
        OBVIOUS
      <3> QED BY <3>1, After
    <2>3. Received = r \o (a \o b)
      BY <1>1, <1>2, <1>4, <1>5, <2>2, Zenon DEF Received, Unparsed
    <2>4. Received' = (r \o a) \o b
      BY <1>0, <1>1, <1>4, <1>6, <1>7, <2>2, Zenon DEF Received, Unparsed
    <2>5. r \o (a \o b) = (r \o a) \o b
      <3>1. Pieces(r, a, b)
        BY PiecesJoined
      <3> QED BY <3>1, Zenon DEF Pieces
    <2>6. Received' = Received
      BY <2>3, <2>4, <2>5, Zenon
    <2>7. Unhandled' = Unhandled
      BY <1>0, Zenon DEF Unhandled
    <2>8. UnderWay(tail)'
      BY <1>0, <2>1, <2>6, <2>7, Zenon DEF UnderWay
    <2> QED BY <1>0, <2>1, <2>8, Zenon DEF NothingLost
  <1>11. Spoken'
    BY <1>0, Zenon DEF IInv, Spoken
  <1>12. CleanBetween'
    BY <1>0, Zenon DEF IInv, CleanBetween
  <1> QED BY <1>8, <1>9, <1>10, <1>11, <1>12, Zenon DEF IInv

\* The bytes that are not parsed stay where they are.
LEMMA NothingMoves ==
    ASSUME IInv, open' = open, wire' = wire, script' = script, sent' = sent, handled' = handled,
           Received' = Received
    PROVE  NothingLost'
  <1>1. PICK tail \in Seq(Bytes) : UnderWay(tail) /\ (open => tail = <<>>)
    BY Zenon DEF IInv, NothingLost
  <1>2. Unhandled' = Unhandled
    BY Zenon DEF Unhandled
  <1>3. UnderWay(tail)'
    BY <1>1, <1>2, Zenon DEF UnderWay
  <1> QED BY <1>1, <1>3, Zenon DEF NothingLost

\* Parsing starts at the beginning of recv_buffer_.
LEMMA StartParsingInv == ASSUME IInv, StartParsing PROVE IInv'
  <1>0. /\ pc \in {"idle", "drain"} /\ recv_buffer # <<>> /\ pc' = "parse" /\ offset' = 0
        /\ recv_buffer' = recv_buffer /\ pending_control_data' = pending_control_data
        /\ open' = open /\ current_state' = current_state /\ wire' = wire
        /\ script' = script /\ sent' = sent
        /\ connections' = connections /\ handled' = handled /\ said' = said /\ aliases' = aliases
    BY DEF StartParsing, network, client
  <1>1. offset = 0
    BY <1>0 DEF IInv, Types
  <1>2. Types'
    <2>1. pc' \in {"idle", "drain", "parse", "clear"} /\ offset' = offset
      BY <1>0, <1>1
    <2> QED BY <1>0, <2>1, Zenon DEF IInv, Types, TypeOK
  <1>3. HandledInOrder'
    BY <1>0, Zenon DEF IInv, HandledInOrder
  <1>4. NothingLost'
    <2>1. Received' = Received
      BY <1>0, <1>1, Zenon DEF Received, Unparsed
    <2> QED BY <1>0, <2>1, NothingMoves, Zenon
  <1>5. Spoken'
    BY <1>0, Zenon DEF IInv, Spoken
  <1>6. CleanBetween'
    BY <1>0, Zenon DEF IInv, CleanBetween
  <1> QED BY <1>2, <1>3, <1>4, <1>5, <1>6, Zenon DEF IInv

\* The incomplete message at the end stays.
LEMMA StopParsingInv == ASSUME IInv, StopParsing PROVE IInv'
  <1>0. /\ pc = "parse" /\ pc' = "idle" /\ offset' = 0
        /\ recv_buffer' = SubSeq(recv_buffer, offset + 1, Len(recv_buffer))
        /\ pending_control_data' = pending_control_data
        /\ open' = open /\ current_state' = current_state /\ wire' = wire
        /\ script' = script /\ sent' = sent
        /\ connections' = connections /\ handled' = handled /\ said' = said /\ aliases' = aliases
    BY DEF StopParsing, network, client
  <1>1. PICK r \in Seq(Bytes) : r = Unparsed /\ recv_buffer' = r
    BY <1>0, StateTypes, Zenon DEF Unparsed
  <1>2. Types'
    <2>1. pc' \in {"idle", "drain", "parse", "clear"}
      BY <1>0
    <2>2. recv_buffer' \in Seq(Bytes)
      BY <1>1, Zenon
    <2>3. offset' \in 0 .. Len(recv_buffer')
      <3>1. Len(recv_buffer') \in Nat /\ offset' = 0
        BY <1>0, <2>2
      <3> QED BY <3>1
    <2> QED BY <1>0, <2>1, <2>2, <2>3, Zenon DEF IInv, Types, TypeOK
  <1>3. HandledInOrder'
    BY <1>0, Zenon DEF IInv, HandledInOrder
  <1>4. NothingLost'
    <2>1. SubSeq(r, 0 + 1, Len(r)) = r
      <3>1. 0 \in 0 .. Len(r)
        OBVIOUS
      <3> QED BY <3>1, After
    <2>2. Received' = Received
      BY <1>0, <1>1, <2>1, Zenon DEF Received, Unparsed
    <2> QED BY <1>0, <2>2, NothingMoves, Zenon
  <1>5. Spoken'
    BY <1>0, Zenon DEF IInv, Spoken
  <1>6. CleanBetween'
    <2>1. current_state # "Disconnected"
      BY <1>0 DEF IInv, CleanBetween
    <2> QED BY <1>0, <2>1, Zenon DEF CleanBetween
  <1> QED BY <1>2, <1>3, <1>4, <1>5, <1>6, Zenon DEF IInv

\* The client sends its requests.
LEMMA OrchestrateInv == ASSUME IInv, Orchestrate PROVE IInv'
  <1>0. /\ current_state = "Ready" /\ said' = said \o Requests
        /\ recv_buffer' = recv_buffer /\ pending_control_data' = pending_control_data
        /\ open' = open /\ current_state' = current_state /\ wire' = wire /\ pc' = pc
        /\ offset' = offset /\ script' = script /\ sent' = sent
        /\ connections' = connections /\ handled' = handled /\ aliases' = aliases
    BY DEF Orchestrate, thread, network
  <1>2. Types'
    BY <1>0, Zenon DEF IInv, Types, TypeOK
  <1>3. HandledInOrder'
    BY <1>0, Zenon DEF IInv, HandledInOrder
  <1>4. NothingLost'
    <2>1. Received' = Received
      BY <1>0, Zenon DEF Received, Unparsed
    <2> QED BY <1>0, <2>1, NothingMoves, Zenon
  <1>5. Spoken'
    <2>1. WellFormed(said')
      BY <1>0, RequestsWellFormed, WellFormedParts, Zenon DEF IInv, Spoken
    <2> QED BY <1>0, <2>1, Zenon DEF IInv, Spoken
  <1>6. CleanBetween'
    <2>1. current_state' # "Disconnected"
      BY <1>0
    <2> QED BY <2>1, Zenon DEF CleanBetween
  <1> QED BY <1>2, <1>3, <1>4, <1>5, <1>6, Zenon DEF IInv

\* What is left after k elements and then after l more.
LEMMA AfterMore ==
    ASSUME NEW T, NEW s \in Seq(T), NEW k \in 0 .. Len(s), NEW l \in 0 .. Len(s) - k, NEW r,
           r = SubSeq(s, k + 1, Len(s))
    PROVE  SubSeq(s, (k + l) + 1, Len(s)) = SubSeq(r, l + 1, Len(r))
  <1>1. PICK n \in Nat : n = Len(s)
    OBVIOUS
  <1>2. k \in Nat /\ l \in Nat /\ k <= n /\ l <= n - k
    BY <1>1
  <1>3. r \in Seq(T) /\ Len(r) = n - k /\ \A i \in 1 .. n - k : r[i] = s[k + i]
    BY <1>1, After, Zenon
  <1>4. PICK kl \in Nat, m \in Nat, d \in Nat : kl = k + l /\ m = n - k /\ d = m - l
    BY <1>2
  <1>5. kl \in 0 .. Len(s) /\ l \in 0 .. Len(r) /\ d = n - kl /\ Len(r) = m
    BY <1>1, <1>2, <1>3, <1>4
  <1>6. PICK a : a = SubSeq(s, kl + 1, Len(s))
    OBVIOUS
  <1>7. a \in Seq(T) /\ Len(a) = d /\ \A i \in 1 .. d : a[i] = s[kl + i]
    <2>1. /\ SubSeq(s, kl + 1, Len(s)) \in Seq(T) /\ Len(SubSeq(s, kl + 1, Len(s))) = Len(s) - kl
          /\ \A i \in 1 .. Len(s) - kl : SubSeq(s, kl + 1, Len(s))[i] = s[kl + i]
      BY <1>5, After, Zenon
    <2> QED BY <1>1, <1>5, <1>6, <2>1, Zenon
  <1>8. PICK b : b = SubSeq(r, l + 1, Len(r))
    OBVIOUS
  <1>9. b \in Seq(T) /\ Len(b) = d /\ \A i \in 1 .. d : b[i] = r[l + i]
    <2>1. /\ SubSeq(r, l + 1, Len(r)) \in Seq(T) /\ Len(SubSeq(r, l + 1, Len(r))) = Len(r) - l
          /\ \A i \in 1 .. Len(r) - l : SubSeq(r, l + 1, Len(r))[i] = r[l + i]
      BY <1>3, <1>5, After, Zenon
    <2> QED BY <1>4, <1>5, <1>8, <2>1, Zenon
  <1>10. \A i \in 1 .. d : a[i] = b[i]
    <2> SUFFICES ASSUME NEW i \in 1 .. d PROVE a[i] = b[i]
      OBVIOUS
    <2>1. l + i \in 1 .. n - k /\ k + (l + i) = kl + i
      BY <1>2, <1>4
    <2> QED BY <1>3, <1>7, <1>9, <2>1, Zenon
  <1>11. a = b
    BY <1>7, <1>9, <1>10, SeqEqual
  <1> QED BY <1>4, <1>6, <1>8, <1>11, Zenon

\* What stands at the front, and the rest.
LEMMA FrontAndRest ==
    ASSUME NEW T, NEW r \in Seq(T), NEW f \in Seq(T), Found(r, 0, f)
    PROVE  /\ Len(f) \in 0 .. Len(r)
           /\ SubSeq(r, Len(f) + 1, Len(r)) \in Seq(T)
           /\ f \o SubSeq(r, Len(f) + 1, Len(r)) = r
  <1>1. PICK k \in Nat, n \in Nat : k = Len(f) /\ n = Len(r)
    OBVIOUS
  <1>2. k <= n /\ \A i \in 1 .. k : r[i] = f[i]
    <2>1. 0 + k <= n /\ \A i \in 1 .. k : r[0 + i] = f[i]
      BY <1>1, Zenon DEF Found
    <2>2. 0 + k = k /\ \A i \in 1 .. k : 0 + i = i
      OBVIOUS
    <2> QED BY <2>1, <2>2, Zenon
  <1>3. k \in 0 .. Len(r)
    BY <1>1, <1>2
  <1>4. PICK a, b : a = SubSeq(r, 1, k) /\ b = SubSeq(r, k + 1, Len(r))
    OBVIOUS
  <1>5. a \in Seq(T) /\ Len(a) = k /\ a \o b = r /\ b \in Seq(T)
    BY <1>3, <1>4, After, Zenon
  <1>6. \A i \in 1 .. k : a[i] = f[i]
    <2>1. \A i \in 1 .. k : a[i] = r[i]
      BY <1>1, <1>2, <1>4
    <2> QED BY <1>2, <2>1, Zenon
  <1>7. a = f
    BY <1>1, <1>5, <1>6, SeqEqual
  <1> QED BY <1>1, <1>3, <1>4, <1>5, <1>7, Zenon

\* The message that process_incoming() hands over is the first that is not handled yet: it
\* means what the server meant, and the bytes after it are the messages after it.
LEMMA NextHandled ==
    ASSUME IInv, pc = "parse", NextMessage.ok
    PROVE  LET m == script[Len(handled) + 1]
           IN  /\ Len(handled) < sent /\ IsMessage(m)
               /\ Len(Frame(m)) \in Nat /\ offset + Len(Frame(m)) \in 0 .. Len(recv_buffer)
               /\ NextMessage.val.type = MessageType[m.type]
               /\ NextMessage.at = Len(Frame(m))
               /\ \E at : Parsed(NextMessage.val.type, NextMessage.val.content) = Read(Meaning(m), at)
               /\ \E tail \in Seq(Bytes) :
                     /\ open => tail = <<>>
                     /\ FlattenSeq(Frames(script, Len(handled) + 1, sent)) =
                           ((SubSeq(recv_buffer, (offset + Len(Frame(m))) + 1, Len(recv_buffer))
                             \o FlattenSeq(pending_control_data)) \o wire) \o tail
  <1>1. PICK tail \in Seq(Bytes) : UnderWay(tail) /\ (open => tail = <<>>)
    BY Zenon DEF IInv, NothingLost
  <1>2. PICK r \in Seq(Bytes), p \in Seq(Bytes), w \in Seq(Bytes) :
             r = Unparsed /\ p = FlattenSeq(pending_control_data) /\ w = wire
    BY StateTypes, Zenon
  <1>3. PICK h \in Nat, s \in Nat : h = Len(handled) /\ s = sent /\ h <= s /\ s <= Len(script)
    BY StateTypes, Zenon
  <1>4. FlattenSeq(Frames(script, h, s)) = ((r \o p) \o w) \o tail
    BY <1>1, <1>2, <1>3, Zenon DEF UnderWay, Unhandled, Received
  <1>5. Begins(((r \o p) \o w) \o tail, r)
    BY BufferInFront
  <1>6. parse_control_message(r) = NextMessage
    BY <1>2, Zenon DEF NextMessage, Unparsed
  <1>7. parse_control_message(r) # Failed
    <2>1. ~Failed.ok
      BY NothingRead
    <2> QED BY <1>6, <2>1, Zenon
  <1>8. PICK m : m = script[h + 1]
    OBVIOUS
  <1>9. PICK z : z = FlattenSeq(Frames(script, h + 1, s))
    OBVIOUS
  <1>10. /\ h < s /\ IsMessage(m) /\ Found(r, 0, Frame(m)) /\ z \in Seq(Bytes)
         /\ ((r \o p) \o w) \o tail = Frame(m) \o z
    <2>1. WellFormed(script) /\ Begins(FlattenSeq(Frames(script, h, s)), r)
      BY <1>4, <1>5, StateTypes, Zenon
    <2>2. /\ h < s /\ IsMessage(script[h + 1]) /\ Found(r, 0, Frame(script[h + 1]))
          /\ FlattenSeq(Frames(script, h, s)) =
                Frame(script[h + 1]) \o FlattenSeq(Frames(script, h + 1, s))
          /\ FlattenSeq(Frames(script, h + 1, s)) \in Seq(Bytes)
      BY <1>3, <1>7, <2>1, FrontMessage
    <2> QED BY <1>4, <1>8, <1>9, <2>2, Zenon
  <1>11. PICK f \in Seq(Bytes), l \in Nat : f = Frame(m) /\ l = Len(f)
    BY <1>10, FrameBytes, Zenon
  <1>12. PICK rest \in Seq(Bytes) : rest = SubSeq(r, l + 1, Len(r)) /\ f \o rest = r /\ l \in 0 .. Len(r)
    BY <1>10, <1>11, FrontAndRest, Zenon
  <1>13. PICK content :
             /\ NextMessage = Read([type |-> MessageType[m.type], content |-> content], l)
             /\ Parsed(MessageType[m.type], content) = Read(Meaning(m), Len(content))
    BY <1>6, <1>10, <1>11, MessageRead, Zenon
  <1>14. PICK q : q = [type |-> MessageType[m.type], content |-> content]
    OBVIOUS
  <1>15. q.type = MessageType[m.type] /\ q.content = content
    BY <1>14
  <1>16. NextMessage.val = q /\ NextMessage.at = l
    <2>1. NextMessage = Read(q, l)
      BY <1>13, <1>14, Zenon
    <2> QED BY <2>1, ReadIs, Zenon
  <1>17. offset + l \in 0 .. Len(recv_buffer) /\ SubSeq(recv_buffer, (offset + l) + 1, Len(recv_buffer)) = rest
    <2>1. PICK k \in Nat, n \in Nat : /\ k = offset /\ n = Len(recv_buffer) /\ k <= n
      <3>1. offset \in 0 .. Len(recv_buffer) /\ Len(recv_buffer) \in Nat
        BY StateTypes, Zenon
      <3>2. offset \in Nat /\ offset <= Len(recv_buffer)
        BY <3>1
      <3> QED BY <3>1, <3>2, Zenon
    <2>2. recv_buffer \in Seq(Bytes) /\ k \in 0 .. Len(recv_buffer)
          /\ r = SubSeq(recv_buffer, k + 1, Len(recv_buffer))
      BY <1>2, <2>1, StateTypes, Zenon DEF Unparsed
    <2>3. Len(r) = Len(recv_buffer) - k
      BY <2>2, After, Zenon
    <2>4. l \in 0 .. Len(recv_buffer) - k
      BY <1>12, <2>3, Zenon
    <2>5. SubSeq(recv_buffer, (k + l) + 1, Len(recv_buffer)) = SubSeq(r, l + 1, Len(r))
      BY <2>2, <2>4, AfterMore, Zenon
    <2>6. l \in 0 .. n - k
      BY <2>1, <2>4, Zenon
    <2>7. k + l \in 0 .. n
      BY <2>1, <2>6
    <2> QED BY <1>12, <2>1, <2>5, <2>7, Zenon
  <1>18. z = ((rest \o p) \o w) \o tail
    <2>1. /\ ((rest \o p) \o w) \o tail \in Seq(Bytes)
          /\ (((f \o rest) \o p) \o w) \o tail = f \o (((rest \o p) \o w) \o tail)
      <3>1. InFront(f, rest, p, w, tail)
        BY PieceInFront
      <3> QED BY <3>1, Zenon DEF InFront
    <2>2. f \o z = f \o (((rest \o p) \o w) \o tail)
      BY <1>10, <1>11, <1>12, <2>1, Zenon
    <2> QED BY <1>10, <2>1, <2>2, PieceTaken, Zenon
  <1> QED BY <1>1, <1>2, <1>3, <1>8, <1>9, <1>10, <1>11, <1>13, <1>15, <1>16, <1>17, <1>18, Zenon

\* What HandleMessage does, in the words of the script.
LEMMA HandleMessageIs ==
    ASSUME IInv, HandleMessage
    PROVE  LET m == script[Len(handled) + 1]
               answer == Answer(MessageType[m.type], Meaning(m))
           IN  /\ pc = "parse" /\ NextMessage.ok
               /\ current_state' \in {current_state, "Ready"}
               /\ handled' = Append(handled, AsRead(m))
               /\ said' = said \o answer
               /\ aliases' \in {aliases, aliases + 1}
               /\ offset' = offset + Len(Frame(m))
               /\ recv_buffer' = recv_buffer /\ pending_control_data' = pending_control_data
               /\ open' = open /\ wire' = wire /\ pc' = pc /\ script' = script /\ sent' = sent
               /\ connections' = connections
  <1>1. PICK m : m = script[Len(handled) + 1]
    OBVIOUS
  <1>2. /\ pc = "parse" /\ NextMessage.ok /\ offset' = offset + NextMessage.at
        /\ recv_buffer' = recv_buffer /\ pending_control_data' = pending_control_data
        /\ open' = open /\ wire' = wire /\ pc' = pc /\ script' = script /\ sent' = sent
        /\ connections' = connections
    BY DEF HandleMessage, network
  <1>3. PICK n, r : n = NextMessage.val /\ r = Parsed(n.type, n.content)
    OBVIOUS
  <1>4. n.type = MessageType[m.type] /\ NextMessage.at = Len(Frame(m))
    BY <1>1, <1>2, <1>3, NextHandled, Zenon
  <1>5. r.ok /\ r.val = Meaning(m)
    <2>1. PICK at : r = Read(Meaning(m), at)
      BY <1>1, <1>2, <1>3, NextHandled, Zenon
    <2> QED BY <2>1, ReadIs, Zenon
  <1>6. /\ current_state' = IF n.type = MessageType.ServerSetup /\ r.ok THEN "Ready" ELSE current_state
        /\ handled' = IF r.ok THEN Append(handled, [type |-> n.type, read |-> r.val]) ELSE handled
        /\ said' = said \o (IF r.ok THEN Answer(n.type, r.val) ELSE <<>>)
        /\ aliases' = IF n.type = MessageType.Subscribe /\
                         (IF r.ok THEN Answer(n.type, r.val) ELSE <<>>) # <<>>
                      THEN aliases + 1 ELSE aliases
    BY <1>3, Zenon DEF HandleMessage
  <1>7. current_state' \in {current_state, "Ready"} /\ aliases' \in {aliases, aliases + 1}
    BY <1>6, Zenon
  <1>8. handled' = Append(handled, AsRead(m))
    BY <1>4, <1>5, <1>6, Zenon DEF AsRead
  <1>9. said' = said \o Answer(MessageType[m.type], Meaning(m))
    BY <1>4, <1>5, <1>6, Zenon
  <1> QED BY <1>1, <1>2, <1>4, <1>7, <1>8, <1>9, Zenon

\* The messages that have been handled, and the next.
LEMMA OneMoreHandled ==
    ASSUME IInv, handled' = Append(handled, AsRead(script[Len(handled) + 1]))
    PROVE  /\ Len(handled') = Len(handled) + 1
           /\ handled' = [i \in 1 .. Len(handled) + 1 |-> AsRead(script[i])]
  <1>1. PICK h \in Nat : h = Len(handled)
    BY StateTypes, Zenon
  <1>2. handled = [i \in 1 .. h |-> AsRead(script[i])]
    BY <1>1, Zenon DEF IInv, HandledInOrder
  <1>3. PICK g : g = [i \in 1 .. h + 1 |-> AsRead(script[i])]
    OBVIOUS
  <1>4. PICK V : /\ handled \in Seq(V) /\ AsRead(script[h + 1]) \in V /\ g \in Seq(V) /\ Len(g) = h + 1
                 /\ \A i \in 1 .. h + 1 : g[i] = AsRead(script[i])
    <2> DEFINE A == {AsRead(script[i]) : i \in 1 .. h + 1}
    <2>1. \A i \in 1 .. h : i \in 1 .. h + 1
      OBVIOUS
    <2>2. h + 1 \in 1 .. h + 1
      OBVIOUS
    <2>3. handled \in [1 .. h -> A] /\ AsRead(script[h + 1]) \in A
      BY <1>2, <2>1, <2>2, Zenon
    <2>4. g \in [1 .. h + 1 -> A] /\ \A i \in 1 .. h + 1 : g[i] = AsRead(script[i])
      BY <1>3, Zenon
    <2> HIDE DEF A
    <2>5. handled \in [1 .. h -> A] /\ g \in [1 .. h + 1 -> A]
      BY <2>3, <2>4, Zenon
    <2>6. handled \in Seq(A) /\ g \in Seq(A) /\ Len(g) = h + 1
      <3>1. PICK k \in Nat : k = h + 1
        OBVIOUS
      <3>2. g \in [1 .. k -> A]
        BY <2>5, <3>1, Zenon
      <3>3. g \in Seq(A) /\ Len(g) = k
        BY <3>2
      <3>4. handled \in Seq(A)
        BY <2>5
      <3> QED BY <3>1, <3>3, <3>4, Zenon
    <2> QED BY <2>3, <2>4, <2>6, Zenon
  <1>5. PICK x \in V : x = AsRead(script[h + 1])
    BY <1>4, Zenon
  <1>6. PICK a : a = Append(handled, x)
    OBVIOUS
  <1>7. /\ a \in Seq(V) /\ Len(a) = h + 1 /\ a[h + 1] = x
        /\ \A i \in 1 .. h : a[i] = handled[i]
    BY <1>1, <1>4, <1>6, AppendProperties
  <1>8. \A i \in 1 .. h + 1 : a[i] = g[i]
    <2> SUFFICES ASSUME NEW i \in 1 .. h + 1 PROVE a[i] = g[i]
      OBVIOUS
    <2>1. CASE i = h + 1
      BY <1>4, <1>5, <1>7, <2>1, Zenon
    <2>2. CASE i # h + 1
      <3>1. i \in 1 .. h
        BY <2>2
      <3>2. handled[i] = AsRead(script[i])
        BY <1>2, <3>1, Zenon
      <3> QED BY <1>4, <1>7, <3>1, <3>2, Zenon
    <2> QED BY <2>1, <2>2
  <1>9. a = g
    BY <1>4, <1>7, <1>8, SeqEqual
  <1> QED BY <1>1, <1>3, <1>5, <1>6, <1>7, <1>9, Zenon

\* The first message that is not handled leaves recv_buffer_ and is handed over.
LEMMA HandleMessageInv == ASSUME IInv, HandleMessage PROVE IInv'
  <1>0. PICK m : m = script[Len(handled) + 1]
    OBVIOUS
  <1>1. /\ pc = "parse" /\ NextMessage.ok
        /\ current_state' \in {current_state, "Ready"}
        /\ handled' = Append(handled, AsRead(m))
        /\ said' = said \o Answer(MessageType[m.type], Meaning(m))
        /\ aliases' \in {aliases, aliases + 1}
        /\ offset' = offset + Len(Frame(m))
        /\ recv_buffer' = recv_buffer /\ pending_control_data' = pending_control_data
        /\ open' = open /\ wire' = wire /\ pc' = pc /\ script' = script /\ sent' = sent
        /\ connections' = connections
    BY <1>0, HandleMessageIs, Zenon
  <1>2. /\ Len(handled) < sent /\ IsMessage(m) /\ offset + Len(Frame(m)) \in 0 .. Len(recv_buffer)
    BY <1>0, <1>1, NextHandled, Zenon
  <1>3. /\ Len(handled') = Len(handled) + 1
        /\ handled' = [i \in 1 .. Len(handled) + 1 |-> AsRead(script[i])]
    BY <1>0, <1>1, OneMoreHandled, Zenon
  <1>4. PICK h \in Nat, s \in Nat : /\ h = Len(handled) /\ s = sent /\ h < s /\ s <= Len(script)
    BY <1>2, StateTypes, Zenon
  <1>5. aliases \in Nat \ {0} /\ aliases <= h + 1
    BY <1>4, Zenon DEF IInv, Spoken, Types, TypeOK
  <1>6. Types'
    <2>1. current_state' \in {"Disconnected", "Connected", "Ready"}
      BY <1>1, Zenon DEF IInv, Types, TypeOK
    <2>2. aliases' \in Nat \ {0}
      BY <1>1, <1>5
    <2>3. offset' \in 0 .. Len(recv_buffer')
      BY <1>1, <1>2, Zenon
    <2> QED BY <1>1, <2>1, <2>2, <2>3, Zenon DEF IInv, Types, TypeOK
  <1>7. HandledInOrder'
    <2>1. Len(handled') \in 0 .. sent'
      <3>1. h + 1 \in 0 .. s
        BY <1>4
      <3> QED BY <1>1, <1>3, <1>4, <3>1, Zenon
    <2> QED BY <1>1, <1>3, <2>1, Zenon DEF HandledInOrder
  <1>8. NothingLost'
    <2>1. PICK tail \in Seq(Bytes) :
             /\ open => tail = <<>>
             /\ FlattenSeq(Frames(script, Len(handled) + 1, sent)) =
                   ((SubSeq(recv_buffer, (offset + Len(Frame(m))) + 1, Len(recv_buffer))
                     \o FlattenSeq(pending_control_data)) \o wire) \o tail
      BY <1>0, <1>1, NextHandled, Zenon
    <2>2. UnderWay(tail)'
      BY <1>1, <1>3, <2>1, Zenon DEF UnderWay, Unhandled, Received, Unparsed
    <2> QED BY <1>1, <2>1, <2>2, Zenon DEF NothingLost
  <1>9. Spoken'
    <2>1. aliases \in Numbers
      <3>1. PICK n \in Nat, k \in Numbers : n = Len(script) /\ k = Len(script) + 1
        BY StateTypes, Zenon
      <3>2. aliases \in Nat /\ aliases <= k
        BY <1>4, <1>5, <3>1
      <3> QED BY <3>2, SmallerNumber
    <2>2. WellFormed(Answer(MessageType[m.type], Meaning(m)))
      BY <1>2, <2>1, AnswerWellFormed, Zenon
    <2>3. WellFormed(said')
      BY <1>1, <2>2, WellFormedParts, Zenon DEF IInv, Spoken
    <2>4. aliases' <= (h + 1) + 1
      BY <1>1, <1>5
    <2> QED BY <1>3, <1>4, <2>3, <2>4, Zenon DEF Spoken
  <1>10. CleanBetween'
    <2>1. current_state # "Disconnected"
      BY <1>1 DEF IInv, CleanBetween
    <2>2. current_state' # "Disconnected"
      BY <1>1, <2>1
    <2> QED BY <2>2, Zenon DEF CleanBetween
  <1> QED BY <1>6, <1>7, <1>8, <1>9, <1>10, Zenon DEF IInv

----------------------------------------------------------------------------
(* Theorems *)

\* A step that changes nothing.
LEMMA StutterInv == ASSUME IInv, UNCHANGED vars PROVE IInv'
  <1>1. /\ open' = open /\ current_state' = current_state /\ recv_buffer' = recv_buffer
        /\ pending_control_data' = pending_control_data /\ pc' = pc /\ offset' = offset
        /\ script' = script /\ sent' = sent /\ wire' = wire /\ connections' = connections
        /\ handled' = handled /\ said' = said /\ aliases' = aliases
    BY DEF vars, thread, network, client
  <1>2. Types' /\ HandledInOrder' /\ Spoken' /\ CleanBetween'
    BY <1>1, Zenon DEF IInv, Types, TypeOK, HandledInOrder, Spoken, CleanBetween
  <1>3. NothingLost'
    <2>1. Received' = Received
      BY <1>1, Zenon DEF Received, Unparsed
    <2> QED BY <1>1, <2>1, NothingMoves, Zenon
  <1> QED BY <1>2, <1>3, Zenon DEF IInv

\* Every step keeps the invariant.
LEMMA NextInv == IInv /\ [Next]_vars => IInv'
  <1> SUFFICES ASSUME IInv, [Next]_vars PROVE IInv'
    OBVIOUS
  <1>1. CASE ServerSends
    BY <1>1, ServerSendsInv
  <1>2. CASE ConnectionDies
    BY <1>2, ConnectionDiesInv
  <1>3. ASSUME NEW n \in PieceSizes, ReceivePiece(n) PROVE IInv'
    BY <1>3, ReceivePieceInv
  <1>4. CASE DrainPiece
    BY <1>4, DrainPieceInv
  <1>5. CASE StartParsing
    BY <1>5, StartParsingInv
  <1>6. CASE HandleMessage
    BY <1>6, HandleMessageInv
  <1>7. CASE StopParsing
    BY <1>7, StopParsingInv
  <1>8. CASE StartMoqSession
    BY <1>8, StartMoqSessionInv
  <1>9. CASE Orchestrate
    BY <1>9, OrchestrateInv
  <1>10. CASE DisconnectClose
    BY <1>10, DisconnectCloseInv
  <1>11. CASE DisconnectClear
    BY <1>11, DisconnectClearInv
  <1>12. CASE UNCHANGED vars
    BY <1>12, StutterInv
  <1> QED BY <1>1, <1>2, <1>3, <1>4, <1>5, <1>6, <1>7, <1>8, <1>9, <1>10, <1>11, <1>12
          DEF Next, Server, MsquicWorker, SessionThread, DrainAndParse

\* The invariant holds all the time: what was received, what is queued and what is on its
\* way are together the messages that the server has sent and that are not handled.
THEOREM StreamKept == Spec => []IInv
  BY InitInv, NextInv, PTL DEF Spec

\* Every variable keeps its type, and the session thread never counts past the end of
\* recv_buffer_.
THEOREM ControlStreamTypes == Spec => []TypeOK
  <1>1. IInv => TypeOK
    BY DEF IInv, Types
  <1> QED BY <1>1, StreamKept, PTL

\* The server finds in the client's stream exactly the messages the client meant, for every
\* size of a byte, every setup, every request of the host and every answer.
THEOREM ServerHearsAll == Spec => []ServerHears
  <1>1. ASSUME IInv PROVE ServerHears
    <2>1. WellFormed(said)
      BY <1>1 DEF IInv, Spoken
    <2>2. PICK V : said \in Seq(V) /\ \A i \in DOMAIN said : IsMessage(said[i])
      BY <2>1, Zenon DEF WellFormed
    <2> QED BY <2>2, StreamReadBack, Zenon DEF ServerHears
  <1> QED BY <1>1, StreamKept, PTL

----------------------------------------------------------------------------
(* The control stream is a message channel *)

\* The messages that the server has sent, as MessageChannel sees them.
Sent == [i \in 1 .. sent |-> AsRead(script[i])]

\* They are a sequence of the messages' meanings.
LEMMA SentIs ==
    ASSUME IInv
    PROVE  /\ Sent \in Seq({AsRead(m) : m \in Messages}) /\ Len(Sent) = sent
           /\ \A i \in 1 .. sent : Sent[i] = AsRead(script[i])
           /\ \A i \in 1 .. Len(script) : script[i] \in Messages
  <1>1. PICK n \in Nat, l \in Nat : n = sent /\ l = Len(script) /\ n <= l
    BY StateTypes, Zenon
  <1>2. script \in Seq(Messages)
    BY MessagesAssumption DEF IInv, Types, TypeOK
  <1>3. \A i \in 1 .. l : script[i] \in Messages
    BY <1>1, <1>2
  <1>4. PICK A : A = {AsRead(m) : m \in Messages}
    OBVIOUS
  <1>5. \A i \in 1 .. n : AsRead(script[i]) \in A
    <2>1. \A i \in 1 .. n : i \in 1 .. l
      BY <1>1
    <2> QED BY <1>3, <1>4, <2>1, Zenon
  <1>6. PICK f : f = [i \in 1 .. n |-> AsRead(script[i])]
    OBVIOUS
  <1>7. f \in [1 .. n -> A] /\ \A i \in 1 .. n : f[i] = AsRead(script[i])
    BY <1>5, <1>6, Zenon
  <1>8. f \in [1 .. n -> A]
    BY <1>7, Zenon
  <1>9. f \in Seq(A) /\ Len(f) = n
    BY <1>8
  <1>10. Sent = f
    BY <1>1, <1>6, Zenon DEF Sent
  <1> QED BY <1>1, <1>3, <1>4, <1>7, <1>9, <1>10, Zenon

\* The server sends a message.
LEMMA ServerSendsIsSend ==
    ASSUME IInv, IInv', ServerSends
    PROVE  \E x \in {AsRead(m) : m \in Messages} : Sent' = Append(Sent, x) /\ handled' = handled
  <1>1. sent < Len(script) /\ sent' = sent + 1 /\ script' = script /\ handled' = handled
    BY DEF ServerSends
  <1>2. PICK n \in Nat, l \in Nat : n = sent /\ l = Len(script) /\ n < l /\ n + 1 = sent'
    BY <1>1, StateTypes, Zenon
  <1>3. PICK A : A = {AsRead(m) : m \in Messages}
    OBVIOUS
  <1>4. PICK s, t : s = Sent /\ t = Sent'
    OBVIOUS
  <1>5. PICK x \in A : x = AsRead(script[n + 1])
    <2>1. n + 1 \in 1 .. l
      BY <1>2
    <2>2. script[n + 1] \in Messages
      BY <1>2, <2>1, SentIs, Zenon
    <2> QED BY <1>3, <2>2, Zenon
  <1>6. s \in Seq(A) /\ Len(s) = n /\ \A i \in 1 .. n : s[i] = AsRead(script[i])
    BY <1>2, <1>3, <1>4, SentIs, Zenon
  <1>7. t = [i \in 1 .. n + 1 |-> AsRead(script[i])]
    BY <1>1, <1>2, <1>4, Zenon DEF Sent
  <1>8. PICK a : a = Append(s, x)
    OBVIOUS
  <1>9. /\ a \in Seq(A) /\ Len(a) = n + 1 /\ a[n + 1] = x /\ \A i \in 1 .. n : a[i] = s[i]
    BY <1>6, <1>8, AppendProperties
  <1>10. a = [i \in 1 .. n + 1 |-> a[i]]
    BY <1>9
  <1>11. \A i \in 1 .. n + 1 : a[i] = AsRead(script[i])
    <2> SUFFICES ASSUME NEW i \in 1 .. n + 1 PROVE a[i] = AsRead(script[i])
      OBVIOUS
    <2>1. CASE i = n + 1
      BY <1>5, <1>9, <2>1, Zenon
    <2>2. CASE i # n + 1
      <3>1. i \in 1 .. n
        BY <2>2
      <3> QED BY <1>6, <1>9, <3>1, Zenon
    <2> QED BY <2>1, <2>2
  <1>12. t = a
    BY <1>7, <1>10, <1>11, Zenon
  <1> QED BY <1>1, <1>3, <1>4, <1>5, <1>8, <1>12, Zenon

\* The session hands over the next message of those that the server has sent.
LEMMA HandleMessageIsDeliver ==
    ASSUME IInv, HandleMessage
    PROVE  /\ Len(handled) < Len(Sent) /\ handled' = Append(handled, Sent[Len(handled) + 1])
           /\ Sent' = Sent
  <1>1. PICK m : m = script[Len(handled) + 1]
    OBVIOUS
  <1>2. /\ pc = "parse" /\ NextMessage.ok /\ handled' = Append(handled, AsRead(m))
        /\ script' = script /\ sent' = sent
    BY <1>1, HandleMessageIs, Zenon
  <1>3. Len(handled) < sent
    BY <1>2, NextHandled, Zenon
  <1>4. Len(handled) + 1 \in 1 .. sent
    BY <1>3, StateTypes
  <1>5. Sent[Len(handled) + 1] = AsRead(m) /\ Len(Sent) = sent
    BY <1>1, <1>4, SentIs, Zenon
  <1>6. Sent' = Sent
    BY <1>2, Zenon DEF Sent
  <1> QED BY <1>2, <1>3, <1>5, <1>6, Zenon

\* A new connection knows nothing of the last.
LEMMA DisconnectClearIsEnd == ASSUME DisconnectClear PROVE Sent' = <<>> /\ handled' = <<>>
  <1>1. sent' = 0 /\ handled' = <<>>
    BY DEF DisconnectClear, Fresh
  <1>2. 1 .. 0 = {}
    OBVIOUS
  <1> QED BY <1>1, <1>2 DEF Sent

\* Every step is a step of the channel, or none.
LEMMA StepOfChannel ==
    ASSUME IInv, IInv', [Next]_vars
    PROVE  [Channel!Next]_<<Sent, handled>>
  <1>1. CASE ServerSends
    <2>1. PICK x \in {AsRead(m) : m \in Messages} : Sent' = Append(Sent, x) /\ handled' = handled
      BY <1>1, ServerSendsIsSend
    <2> QED BY <2>1, Zenon DEF Channel!Next, Channel!Send, Sent
  <1>2. CASE HandleMessage
    BY <1>2, HandleMessageIsDeliver, Zenon DEF Channel!Next, Channel!Deliver, Sent
  <1>3. CASE DisconnectClear
    BY <1>3, DisconnectClearIsEnd, Zenon DEF Channel!Next, Channel!EndConnection, Sent
  <1>4. ASSUME script' = script, sent' = sent, handled' = handled
        PROVE  [Channel!Next]_<<Sent, handled>>
    BY <1>4, Zenon DEF Sent
  <1>5. CASE ConnectionDies
    BY <1>4, <1>5 DEF ConnectionDies
  <1>6. ASSUME NEW n \in PieceSizes, ReceivePiece(n) PROVE [Channel!Next]_<<Sent, handled>>
    BY <1>4, <1>6 DEF ReceivePiece
  <1>7. CASE DrainPiece \/ StartParsing \/ StopParsing
    BY <1>4, <1>7 DEF DrainPiece, StartParsing, StopParsing, network
  <1>8. CASE StartMoqSession \/ Orchestrate \/ DisconnectClose
    BY <1>4, <1>8 DEF StartMoqSession, Orchestrate, DisconnectClose, network
  <1>9. CASE UNCHANGED vars
    BY <1>4, <1>9 DEF vars, network
  <1> QED BY <1>1, <1>2, <1>3, <1>5, <1>6, <1>7, <1>8, <1>9
          DEF Next, Server, MsquicWorker, SessionThread, DrainAndParse

\* The control stream implements the message channel: however the bytes are cut into pieces,
\* each message is handed over once, whole, with its meaning and in its order, and nothing
\* of one connection turns up in the next.
THEOREM StreamIsChannel == Spec => ImplementsChannel
  <1>1. Init => Channel!Init
    <2> SUFFICES ASSUME Init PROVE Channel!Init
      OBVIOUS
    <2>1. sent = 0 /\ handled = <<>> /\ 1 .. 0 = {}
      BY DEF Init
    <2> QED BY <2>1 DEF Channel!Init
  <1>2. IInv /\ IInv' /\ [Next]_vars => [Channel!Next]_<<Sent, handled>>
    BY StepOfChannel
  <1> QED BY <1>1, <1>2, StreamKept, PTL DEF Spec, ImplementsChannel, Channel!Spec, Sent

=============================================================================
