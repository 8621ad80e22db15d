------------------------------ MODULE MoqWire ------------------------------
(***************************************************************************)
(* The building blocks of the MOQ wire format (moq_protocol.cpp): varints, *)
(* strings, namespaces, parameters, the framing of control messages and    *)
(* object datagrams.  A string is the sequence of its bytes.  The number   *)
(* of values of a byte is a parameter, 256 in the code: with 16 the 64-bit *)
(* numbers of the format become 32-bit ones, which TLC can count to.       *)
(***************************************************************************)
EXTENDS Integers, Sequences, SequencesExt, FiniteSets

CONSTANT Byte

ASSUME ByteAssumption == Byte \in Nat /\ Byte > 4 /\ Byte % 4 = 0

Bytes   == 0 .. Byte - 1
Quarter == Byte \div 4   \* what the two prefix bits of a varint leave of its first byte

\* The weight of a byte, by the number of bytes after it.
Power[k \in 0 .. 7] == IF k = 0 THEN 1 ELSE Byte * Power[k - 1]

\* The lowest n bytes of v.
BigEndian(v, n) == [i \in 1 .. n |-> (v \div Power[n - i]) % Byte]

FromBigEndian(s) ==
    LET value[i \in 0 .. Len(s)] == IF i = 0 THEN 0 ELSE Byte * value[i - 1] + s[i]
    IN  value[Len(s)]

\* Reading at an offset of a buffer gives a value and the offset after it, or fails.
Failed       == [ok |-> FALSE]
Read(v, at)  == [ok |-> TRUE, val |-> v, at |-> at]

\* What is read after a successful read, from its value and from where it ended.
Then(r, Rest(_, _)) == IF r.ok THEN Rest(r.val, r.at) ELSE Failed

\* n values one after the other; R knows the values before its own.
ReadMany(R(_, _), n, at) ==
    LET More(vals, a) == Then(R(vals, a), LAMBDA v, b : Read(Append(vals, v), b))
        read[i \in 0 .. n] == IF i = 0 THEN Read(<<>>, at) ELSE Then(read[i - 1], More)
    IN  read[n]

----------------------------------------------------------------------------
(* Varints *)

\* The lengths that the prefixes 0 to 3 stand for.
VarintSizes == <<1, 2, 4, 8>>

varint_size(v) ==
    IF v < Quarter THEN 1
    ELSE IF v < Quarter * Power[1] THEN 2 ELSE IF v < Quarter * Power[3] THEN 4 ELSE 8

\* The prefix takes the place of the two highest bits, whatever they are.
encode_varint(v) ==
    LET n == varint_size(v)
        prefix == CHOOSE p \in 0 .. 3 : n = VarintSizes[p + 1]
    IN  [BigEndian(v, n) EXCEPT ![1] = prefix * Quarter + (@ % Quarter)]

decode_varint(buf, at) ==
    LET left == Len(buf) - at
        n    == VarintSizes[1 + buf[at + 1] \div Quarter]
    IN  IF left < 1 \/ left < n THEN Failed
        ELSE Read(FromBigEndian(<<buf[at + 1] % Quarter>> \o SubSeq(buf, at + 2, at + n)), at + n)

read_byte(buf, at) == IF at >= Len(buf) THEN Failed ELSE Read(buf[at + 1], at + 1)

----------------------------------------------------------------------------
(* Strings, namespaces and parameters *)

append_string_bytes(s) == encode_varint(Len(s)) \o s

\* Lengths are below 2^31, where the code's conversion to int32_t is exact.
read_string(buf, at) ==
    LET String(len, start) ==
            IF start + len > Len(buf) THEN Failed
            ELSE Read(SubSeq(buf, start + 1, start + len), start + len)
    IN  Then(decode_varint(buf, at), String)

\* A count and that many values.
ReadCounted(R(_, _), buf, at) ==
    Then(decode_varint(buf, at), LAMBDA count, a : ReadMany(R, count, a))

encode_namespace(parts) ==
    encode_varint(Len(parts)) \o
    FlattenSeq([i \in DOMAIN parts |-> append_string_bytes(parts[i])])

decode_namespace(buf, at) == ReadCounted(LAMBDA parts, a : read_string(buf, a), buf, at)

\* A KvpParam: an odd key carries its bytes, an even one its number.
IntParam(key, v)   == [key |-> key, int_value |-> v, bytes_value |-> <<>>]
BytesParam(key, s) == [key |-> key, int_value |-> 0, bytes_value |-> s]

\* What the format has room for: numbers of 62 bits, strings and lists that fit a control
\* message, and parameters whose value is of the kind that their key asks for.
Numbers    == {v \in Nat : v \div Power[7] < Quarter}
Strings    == {s \in Seq(Bytes) : Len(s) < Power[2]}
Namespaces == {s \in Seq(Strings) : Len(s) < Power[2]}
KvpParams  == {p \in [key : Numbers, int_value : Numbers, bytes_value : Strings] :
                  IF p.key % 2 = 1 THEN p.int_value = 0 ELSE p.bytes_value = <<>>}
Params     == {s \in Seq(KvpParams) : /\ Len(s) < Power[2]
                                      /\ \A i, j \in DOMAIN s : s[i].key = s[j].key => i = j}

\* The parameters in the order of their keys: before each stand as many as have a smaller key.
Sorted[params \in Params] ==
    LET all == ToSet(params)
    IN  [i \in DOMAIN params |->
            CHOOSE p \in all : Cardinality({q \in all : q.key < p.key}) = i - 1]

\* Mutation: the deltas are taken in the order of the call.
encode_params_Unsorted(params) ==
    LET delta(i) == params[i].key - (IF i = 1 THEN 0 ELSE params[i - 1].key)
        value(p) == IF p.key % 2 = 1 THEN append_string_bytes(p.bytes_value)
                                     ELSE encode_varint(p.int_value)
    IN  encode_varint(Len(params)) \o
        FlattenSeq([i \in DOMAIN params |->
                      encode_varint(IF delta(i) < 0 THEN 0 ELSE delta(i)) \o value(params[i])])

encode_params(params) ==
    LET sorted   == Sorted[params]
        delta(i) == sorted[i].key - (IF i = 1 THEN 0 ELSE sorted[i - 1].key)
        value(p) == IF p.key % 2 = 1 THEN append_string_bytes(p.bytes_value)
                                     ELSE encode_varint(p.int_value)
    IN  encode_varint(Len(sorted)) \o
        FlattenSeq([i \in DOMAIN sorted |-> encode_varint(delta(i)) \o value(sorted[i])])

decode_params(buf, at) ==
    LET KeyBefore(params) == IF params = <<>> THEN 0 ELSE Last(params).key
        Value(key, a) ==
            IF key % 2 = 1
            THEN Then(read_string(buf, a), LAMBDA s, b : Read(BytesParam(key, s), b))
            ELSE Then(decode_varint(buf, a), LAMBDA v, b : Read(IntParam(key, v), b))
        Param(params, a) ==
            Then(decode_varint(buf, a), LAMBDA delta, b : Value(KeyBefore(params) + delta, b))
    IN  ReadCounted(Param, buf, at)

\* The parse functions read field after field.
ReadField(kind, buf, at) ==
    CASE kind = "varint"    -> decode_varint(buf, at)
      [] kind = "byte"      -> read_byte(buf, at)
      [] kind = "string"    -> read_string(buf, at)
      [] kind = "namespace" -> decode_namespace(buf, at)
      [] kind = "params"    -> decode_params(buf, at)

ReadFields(layout, buf, at) ==
    ReadMany(LAMBDA vals, a : ReadField(layout[Len(vals) + 1], buf, a), Len(layout), at)

----------------------------------------------------------------------------
(* Control messages: [type][length, 2 bytes][content] *)

\* A content of Power[2] bytes or more keeps only the low part of its length.
build_control_message(type, content) ==
    encode_varint(type) \o BigEndian(Len(content), 2) \o content

\* Mutation: a message is handed over before its end has come.
parse_control_message_Eager(buf) ==
    LET Message(type, total, header) ==
            Read([type |-> type, content |->
                     SubSeq(buf, header + 1, IF total > Len(buf) THEN Len(buf) ELSE total)], total)
        Framed(type, at) ==
            IF at + 2 > Len(buf) THEN Failed
            ELSE Message(type, at + 2 + FromBigEndian(SubSeq(buf, at + 1, at + 2)), at + 2)
    IN  IF Len(buf) < 3 THEN Failed ELSE Then(decode_varint(buf, 0), Framed)

\* What is read is the message, and the offset the number of bytes consumed.
parse_control_message(buf) ==
    LET Message(type, total, header) ==
            IF total > Len(buf) THEN Failed
            ELSE Read([type |-> type, content |-> SubSeq(buf, header + 1, total)], total)
        Framed(type, at) ==
            IF at + 2 > Len(buf) THEN Failed
            ELSE Message(type, at + 2 + FromBigEndian(SubSeq(buf, at + 1, at + 2)), at + 2)
    IN  IF Len(buf) < 3 THEN Failed ELSE Then(decode_varint(buf, 0), Framed)

----------------------------------------------------------------------------
(* Object datagrams *)

kDatagramTypePlain      == 0
kDatagramTypeExtensions == 1

build_object_datagram_header(track_alias, group_id, object_id, priority) ==
    encode_varint(kDatagramTypePlain) \o encode_varint(track_alias) \o encode_varint(group_id) \o
    encode_varint(object_id) \o <<priority>>

build_object_datagram(track_alias, group_id, object_id, priority, payload) ==
    build_object_datagram_header(track_alias, group_id, object_id, priority) \o payload

\* The varint after what r has read.
NextVarint(data, r) == IF r.ok THEN decode_varint(data, r.at) ELSE Failed

ReadExtension(data, at) ==
    Then(decode_varint(data, at), LAMBDA key, a : read_string(data, a))

skip_extensions(data, at) == ReadCounted(LAMBDA skipped, a : ReadExtension(data, a), data, at)

\* The payload is what remains behind the header and the extensions.
parse_object_datagram(data) ==
    LET type     == decode_varint(data, 0)
        alias    == NextVarint(data, type)
        group    == NextVarint(data, alias)
        object   == NextVarint(data, group)
        priority == IF object.ok THEN read_byte(data, object.at) ELSE Failed
        body     == IF ~priority.ok \/ type.val \notin {kDatagramTypePlain, kDatagramTypeExtensions}
                    THEN Failed
                    ELSE IF type.val = kDatagramTypePlain THEN priority
                    ELSE skip_extensions(data, priority.at)
    IN  IF ~body.ok THEN Failed
        ELSE Read([track_alias |-> alias.val, group_id |-> group.val, object_id |-> object.val,
                   priority |-> priority.val, payload |-> SubSeq(data, body.at + 1, Len(data))],
                  Len(data))

=============================================================================
