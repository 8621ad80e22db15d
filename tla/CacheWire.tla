----------------------------- MODULE CacheWire -----------------------------
(***************************************************************************)
(* The envelope of a cache operation (cache_wire.cpp), the payload of the  *)
(* datagrams that StateCache merges:                                       *)
(*   [version][flags][op_id 8][node_id 4][topic_len 1][topic]              *)
(*   [key_len 2][key][value_len 4][value]                                  *)
(* Nothing but the tombstone bit of the flags is ever set.                 *)
(***************************************************************************)
EXTENDS MoqWire

CONSTANT kCacheWireVersion   \* 0xCA in the code

ASSUME VersionAssumption == kCacheWireVersion \in Bytes

kCacheFlagTombstone == 1

kCacheWireMinLen == 1 + 1 + 8 + 4 + 1 + 2 + 4

is_cache_envelope(data) == Len(data) > 0 /\ Head(data) = kCacheWireVersion

\* A string behind its length, a number of `width` bytes.
ReadSized(width, data, at) ==
    LET len == FromBigEndian(SubSeq(data, at + 1, at + width))
        end == at + width + len
    IN  IF at + width > Len(data) THEN Failed
        ELSE IF end > Len(data) THEN Failed
        ELSE Read(SubSeq(data, at + width + 1, end), end)

decode_cache_op(data) ==
    LET topic == ReadSized(1, data, 14)
        key   == Then(topic, LAMBDA before, at : ReadSized(2, data, at))
        value == Then(key, LAMBDA before, at : ReadSized(4, data, at))
        Op(before, end) ==
            Read([topic |-> topic.val, key |-> key.val, value |-> value.val,
                  op_id     |-> FromBigEndian(SubSeq(data, 3, 10)),
                  node_id   |-> FromBigEndian(SubSeq(data, 11, 14)),
                  tombstone |-> data[2] % 2 = kCacheFlagTombstone], end)
    IN  IF Len(data) < kCacheWireMinLen \/ ~is_cache_envelope(data) THEN Failed
        ELSE Then(value, Op)

\* Over-long fields are cut to what their length can say.
Sized(width, s) ==
    LET kept == SubSeq(s, 1, IF Len(s) < Power[width] THEN Len(s) ELSE Power[width] - 1)
    IN  BigEndian(Len(kept), width) \o kept

encode_cache_op(op) ==
    <<kCacheWireVersion, IF op.tombstone THEN kCacheFlagTombstone ELSE 0>> \o
    BigEndian(op.op_id, 8) \o BigEndian(op.node_id, 4) \o
    Sized(1, op.topic) \o Sized(2, op.key) \o Sized(4, op.value)

=============================================================================
