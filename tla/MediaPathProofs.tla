-------------------------- MODULE MediaPathProofs ---------------------------
(***************************************************************************)
(* That the buffers of MediaPath are long enough and that its datagrams    *)
(* bring what was meant, for every track, operation and size of a byte.    *)
(*                                                                         *)
(* The first sections are about the wire format alone: cache envelopes and *)
(* object datagrams are read as they were written, wherever they stand in  *)
(* a buffer.  The last one follows a datagram from client to client.       *)
(***************************************************************************)
EXTENDS MediaPath, WireProofs

\* So many frames are a whole number of frames ...
LEMMA FramesWhole == ASSUME NEW q \in Int, NEW c \in Nat \ {0} PROVE (q * c) % c = 0
  BY SMT

----------------------------------------------------------------------------
(* Cache envelopes *)

\* What encode_cache_op() keeps of a field.
Kept(width, s) == SubSeq(s, 1, IF Len(s) < Power[width] THEN Len(s) ELSE Power[width] - 1)

\* A field that its length can count is kept whole.
LEMMA KeptIs ==
    ASSUME NEW width \in {1, 2, 4}, NEW s \in Seq(Bytes)
    PROVE  /\ Kept(width, s) \in Seq(Bytes) /\ Len(Kept(width, s)) \in Nat
           /\ Len(Kept(width, s)) < Power[width]
           /\ Len(s) < Power[width] => Kept(width, s) = s
  <1>1. PICK c \in Nat \ {0} : c = Power[width]
    <2>1. width \in 0 .. 7
      OBVIOUS
    <2> QED BY <2>1, PowerFacts, Zenon
  <1>2. PICK n \in Int : n = IF Len(s) < c THEN Len(s) ELSE c - 1
    OBVIOUS
  <1>3. n \in Nat /\ n < c /\ n <= Len(s) /\ (Len(s) < c => n = Len(s))
    BY <1>1, <1>2
  <1>4. Kept(width, s) = SubSeq(s, 1, n)
    BY <1>1, <1>2 DEF Kept
  <1>5. \A i \in 1 .. n : s[i] \in Bytes
    BY <1>3
  <1>6. /\ SubSeq(s, 1, n) \in Seq(Bytes)
        /\ Len(SubSeq(s, 1, n)) = IF 1 <= n THEN n - 1 + 1 ELSE 0
    BY <1>5, SubSeqProperties
  <1>7. Len(SubSeq(s, 1, n)) = n
    BY <1>3, <1>6
  <1>8. SubSeq(s, 1, Len(s)) = s
    BY SubSeqFull
  <1> QED BY <1>1, <1>3, <1>4, <1>6, <1>7, <1>8

\* A field behind its length ...
LEMMA SizedIs ==
    ASSUME NEW width \in {1, 2, 4}, NEW s \in Seq(Bytes)
    PROVE  /\ Sized(width, s) = BigEndian(Len(Kept(width, s)), width) \o Kept(width, s)
           /\ Sized(width, s) \in Seq(Bytes)
           /\ Len(Sized(width, s)) = width + Len(Kept(width, s))
  <1>1. Sized(width, s) = BigEndian(Len(Kept(width, s)), width) \o Kept(width, s)
    BY DEF Sized, Kept
  <1>2. PICK k : k = Kept(width, s)
    OBVIOUS
  <1>3. k \in Seq(Bytes) /\ Len(k) \in Nat
    BY <1>2, KeptIs
  <1>4. PICK b : b = BigEndian(Len(k), width)
    OBVIOUS
  <1>5. b \in Seq(Bytes) /\ Len(b) = width
    <2>1. width \in 1 .. 8
      OBVIOUS
    <2> QED BY <1>3, <1>4, <2>1, BigEndianIs, Zenon
  <1> QED BY <1>1, <1>2, <1>3, <1>4, <1>5

\* ... is read as far as it was kept.
LEMMA SizedRead ==
    ASSUME NEW data \in Seq(Bytes), NEW at, NEW width \in {1, 2, 4}, NEW s \in Seq(Bytes),
           Found(data, at, Sized(width, s))
    PROVE  ReadSized(width, data, at) = Read(Kept(width, s), at + Len(Sized(width, s)))
  <1>1. PICK k : k = Kept(width, s)
    OBVIOUS
  <1>2. k \in Seq(Bytes) /\ Len(k) \in Nat /\ Len(k) < Power[width]
    BY <1>1, KeptIs
  <1>3. PICK b : b = BigEndian(Len(k), width)
    OBVIOUS
  <1>4. b \in Seq(Bytes) /\ Len(b) = width
    <2>1. width \in 1 .. 8
      OBVIOUS
    <2> QED BY <1>2, <1>3, <2>1, BigEndianIs, Zenon
  <1>5. Sized(width, s) = b \o k /\ Len(Sized(width, s)) = width + Len(k)
    BY <1>1, <1>3, SizedIs
  <1>6. Found(data, at, b) /\ Found(data, at + Len(b), k)
    BY <1>2, <1>4, <1>5, FoundParts
  <1>7. Len(k) \div Power[width - 1] < Byte
    <2>1. width \in 1 .. 7
      OBVIOUS
    <2> QED BY <1>2, <2>1, BelowPower, Zenon
  <1>8. FromBigEndian(b) = Len(k)
    <2>1. width \in 1 .. 8
      OBVIOUS
    <2> QED BY <1>2, <1>3, <1>7, <2>1, BigEndianRead
  <1>9. SubSeq(data, at + 1, at + width) = b
    BY <1>4, <1>6, FoundSubSeq
  <1>10. PICK m : m = at + width
    OBVIOUS
  <1>11. m \in Nat /\ ~(m > Len(data)) /\ ~(m + Len(k) > Len(data))
         /\ m + Len(k) = at + (width + Len(k))
    BY <1>2, <1>4, <1>6, <1>10 DEF Found
  <1>12. SubSeq(data, m + 1, m + Len(k)) = k
    BY <1>2, <1>4, <1>6, <1>10, FoundSubSeq
  <1>13. ReadSized(width, data, at) = Read(k, m + Len(k))
    BY <1>8, <1>9, <1>10, <1>11, <1>12, Zenon DEF ReadSized
  <1> QED BY <1>1, <1>5, <1>11, <1>13

\* An envelope brings the operation that was put into it.
THEOREM EnvelopeRead ==
    ASSUME NEW op \in [topic : Seq(Bytes), key : Seq(Bytes), value : Seq(Bytes),
                       op_id : Nat, node_id : Nat, tombstone : BOOLEAN],
           op.op_id \div Power[7] < Byte, op.node_id < Power[4], Len(op.value) < Power[4]
    PROVE  /\ encode_cache_op(op) \in Seq(Bytes)
           /\ decode_cache_op(encode_cache_op(op)).ok
           /\ decode_cache_op(encode_cache_op(op)).val =
                 [topic |-> Kept(1, op.topic), key |-> Kept(2, op.key), value |-> op.value,
                  op_id |-> op.op_id, node_id |-> op.node_id, tombstone |-> op.tombstone]
  <1>1. /\ op.topic \in Seq(Bytes) /\ op.key \in Seq(Bytes) /\ op.value \in Seq(Bytes)
        /\ op.op_id \in Nat /\ op.node_id \in Nat
    OBVIOUS
  <1>0. op.tombstone \in BOOLEAN
    BY Zenon
  <1>2. PICK flag : flag = IF op.tombstone THEN kCacheFlagTombstone ELSE 0
    OBVIOUS
  <1>3. flag \in Bytes /\ (flag % 2 = kCacheFlagTombstone <=> op.tombstone)
    <2>1. CASE op.tombstone
      BY <1>2, <2>1, ByteFacts DEF kCacheFlagTombstone, Bytes
    <2>2. CASE ~op.tombstone
      BY <1>2, <2>2, ByteFacts DEF kCacheFlagTombstone, Bytes
    <2> QED BY <2>1, <2>2
  <1>4. PICK a, b, c, d, e, f :
            /\ a = <<kCacheWireVersion, flag>> /\ b = BigEndian(op.op_id, 8)
            /\ c = BigEndian(op.node_id, 4) /\ d = Sized(1, op.topic)
            /\ e = Sized(2, op.key) /\ f = Sized(4, op.value)
    OBVIOUS
  <1>5. a \in Seq(Bytes) /\ Len(a) = 2 /\ a[1] = kCacheWireVersion /\ a[2] = flag
    BY <1>3, <1>4, VersionAssumption
  <1>6. b \in Seq(Bytes) /\ Len(b) = 8 /\ c \in Seq(Bytes) /\ Len(c) = 4
    <2>1. 8 \in 1 .. 8 /\ 4 \in 1 .. 8
      OBVIOUS
    <2> QED BY <1>1, <1>4, <2>1, BigEndianIs, Zenon
  <1>7. d \in Seq(Bytes) /\ e \in Seq(Bytes) /\ f \in Seq(Bytes)
        /\ Len(d) >= 1 /\ Len(e) >= 2 /\ Len(f) >= 4
    <2>1. 1 \in {1, 2, 4} /\ 2 \in {1, 2, 4} /\ 4 \in {1, 2, 4}
      OBVIOUS
    <2>2. /\ d \in Seq(Bytes) /\ e \in Seq(Bytes) /\ f \in Seq(Bytes)
          /\ Len(d) = 1 + Len(Kept(1, op.topic)) /\ Len(e) = 2 + Len(Kept(2, op.key))
          /\ Len(f) = 4 + Len(Kept(4, op.value))
      BY <1>1, <1>4, <2>1, SizedIs, Zenon
    <2>3. /\ Len(Kept(1, op.topic)) \in Nat /\ Len(Kept(2, op.key)) \in Nat
          /\ Len(Kept(4, op.value)) \in Nat
      BY <1>1, <2>1, KeptIs, Zenon
    <2>4. PICK i \in Nat, j \in Nat, k \in Nat :
              /\ i = Len(Kept(1, op.topic)) /\ j = Len(Kept(2, op.key)) /\ k = Len(Kept(4, op.value))
      BY <2>3, Zenon
    <2>5. Len(d) = 1 + i /\ Len(e) = 2 + j /\ Len(f) = 4 + k
      BY <2>2, <2>4, Zenon
    <2>6. 1 + i >= 1 /\ 2 + j >= 2 /\ 4 + k >= 4
      OBVIOUS
    <2> QED BY <2>2, <2>5, <2>6, Zenon
  <1>8. PICK ab, abc, abcd, abcde, data :
            /\ ab = a \o b /\ abc = ab \o c /\ abcd = abc \o d /\ abcde = abcd \o e
            /\ data = abcde \o f
    OBVIOUS
  <1>9. encode_cache_op(op) = data
    BY <1>2, <1>4, <1>8, Zenon DEF encode_cache_op
  <1>10. /\ ab \in Seq(Bytes) /\ Len(ab) = 10 /\ abc \in Seq(Bytes) /\ Len(abc) = 14
         /\ abcd \in Seq(Bytes) /\ Len(abcd) = 14 + Len(d)
    <2>0. \A s, t \in Seq(Bytes) : s \o t \in Seq(Bytes) /\ Len(s \o t) = Len(s) + Len(t)
      BY Joined
    <2>1. ab \in Seq(Bytes) /\ Len(ab) = Len(a) + Len(b)
      BY <1>5, <1>6, <1>8, <2>0, Zenon
    <2>2. abc \in Seq(Bytes) /\ Len(abc) = Len(ab) + Len(c)
      BY <1>6, <1>8, <2>0, <2>1, Zenon
    <2>3. abcd \in Seq(Bytes) /\ Len(abcd) = Len(abc) + Len(d)
      BY <1>7, <1>8, <2>0, <2>2, Zenon
    <2> QED BY <1>5, <1>6, <2>1, <2>2, <2>3
  <1>11. /\ abcd \in Seq(Bytes) /\ Len(abcd) = 14 + Len(d)
         /\ abcde \in Seq(Bytes) /\ Len(abcde) = Len(abcd) + Len(e)
         /\ data \in Seq(Bytes) /\ Len(data) = Len(abcde) + Len(f)
    <2>0. \A s, t \in Seq(Bytes) : s \o t \in Seq(Bytes) /\ Len(s \o t) = Len(s) + Len(t)
      BY Joined
    <2>1. abcde \in Seq(Bytes) /\ Len(abcde) = Len(abcd) + Len(e)
      BY <1>7, <1>8, <1>10, <2>0, Zenon
    <2>2. data \in Seq(Bytes) /\ Len(data) = Len(abcde) + Len(f)
      BY <1>7, <1>8, <2>0, <2>1, Zenon
    <2> QED BY <1>10, <2>1, <2>2
  <1>12. Len(d) \in Nat /\ Len(e) \in Nat /\ Len(f) \in Nat
    BY <1>7
  <1>13. Len(data) >= 21
    BY <1>7, <1>11, <1>12
  <1>14. Found(data, 0, abcde) /\ Found(data, 0 + Len(abcde), f)
    <2>1. Found(data, 0, abcde \o f)
      BY <1>8, <1>11, FoundWhole
    <2> QED BY <1>7, <1>11, <2>1, FoundParts, Zenon
  <1>15. Found(data, 0, abcd) /\ Found(data, 0 + Len(abcd), e)
    BY <1>7, <1>8, <1>11, <1>14, FoundParts, Zenon
  <1>16. Found(data, 0, abc) /\ Found(data, 0 + Len(abc), d)
    BY <1>7, <1>8, <1>10, <1>11, <1>15, FoundParts, Zenon
  <1>17. Found(data, 0, ab) /\ Found(data, 0 + Len(ab), c)
    BY <1>6, <1>8, <1>10, <1>11, <1>16, FoundParts, Zenon
  <1>18. Found(data, 0, a) /\ Found(data, 0 + Len(a), b)
    BY <1>5, <1>6, <1>8, <1>11, <1>17, FoundParts, Zenon
  <1>19. data[1] = kCacheWireVersion /\ data[2] = flag
    BY <1>5, <1>18 DEF Found
  <1>20. SubSeq(data, 3, 10) = b /\ SubSeq(data, 11, 14) = c
    <2>1. SubSeq(data, (0 + 2) + 1, (0 + 2) + 8) = b
      BY <1>5, <1>6, <1>11, <1>18, FoundSubSeq
    <2>2. SubSeq(data, (0 + 10) + 1, (0 + 10) + 4) = c
      BY <1>6, <1>10, <1>11, <1>17, FoundSubSeq
    <2> QED BY <2>1, <2>2
  <1>21. FromBigEndian(b) = op.op_id /\ FromBigEndian(c) = op.node_id
    <2>1. op.node_id \div Power[4 - 1] < Byte
      BY <1>1, BelowPower
    <2>2. 8 \in 1 .. 8 /\ 4 \in 1 .. 8 /\ op.op_id \div Power[8 - 1] < Byte
      OBVIOUS
    <2> QED BY <1>1, <1>4, <2>1, <2>2, BigEndianRead, Zenon
  <1>22. PICK p, q, r : /\ p = Read(Kept(1, op.topic), Len(abcd))
                        /\ q = Read(Kept(2, op.key), Len(abcde))
                        /\ r = Read(Kept(4, op.value), Len(data))
    OBVIOUS
  <1>23. /\ ReadSized(1, data, 14) = p
         /\ ReadSized(2, data, Len(abcd)) = q
         /\ ReadSized(4, data, Len(abcde)) = r
    <2>1. 1 \in {1, 2, 4} /\ 2 \in {1, 2, 4} /\ 4 \in {1, 2, 4}
      OBVIOUS
    <2>2. 0 + Len(abc) = 14 /\ 0 + Len(abcd) = Len(abcd) /\ 0 + Len(abcde) = Len(abcde)
      BY <1>10, <1>11, <1>12
    <2>3. Found(data, 14, d) /\ Found(data, Len(abcd), e) /\ Found(data, Len(abcde), f)
      BY <1>14, <1>15, <1>16, <2>2, Zenon
    <2>4. /\ Found(data, 14, Sized(1, op.topic)) /\ Found(data, Len(abcd), Sized(2, op.key))
          /\ Found(data, Len(abcde), Sized(4, op.value))
      BY <1>4, <2>3, Zenon
    <2>a. ASSUME NEW width \in {1, 2, 4}, NEW s \in Seq(Bytes), NEW at,
                 Found(data, at, Sized(width, s))
          PROVE  ReadSized(width, data, at) = Read(Kept(width, s), at + Len(Sized(width, s)))
      BY <1>11, <2>a, SizedRead
    <2>5. ReadSized(1, data, 14) = Read(Kept(1, op.topic), 14 + Len(Sized(1, op.topic)))
      BY <1>1, <2>1, <2>4, <2>a, Zenon
    <2>6. ReadSized(2, data, Len(abcd)) =
              Read(Kept(2, op.key), Len(abcd) + Len(Sized(2, op.key)))
      BY <1>1, <2>1, <2>4, <2>a, Zenon
    <2>7. ReadSized(4, data, Len(abcde)) =
              Read(Kept(4, op.value), Len(abcde) + Len(Sized(4, op.value)))
      BY <1>1, <2>1, <2>4, <2>a, Zenon
    <2> QED
      BY <1>4, <1>11, <1>22, <2>5, <2>6, <2>7, Zenon
  <1>24. /\ p.ok /\ p.val = Kept(1, op.topic) /\ p.at = Len(abcd)
         /\ q.ok /\ q.val = Kept(2, op.key) /\ q.at = Len(abcde)
         /\ r.ok /\ r.val = op.value
    <2>1. 4 \in {1, 2, 4}
      OBVIOUS
    <2>2. Kept(4, op.value) = op.value
      BY <1>1, <2>1, KeptIs, Zenon
    <2> QED BY <1>22, <2>2, ReadIs, Zenon
  <1>25. ~(Len(data) < kCacheWireMinLen) /\ is_cache_envelope(data)
    BY <1>13, <1>19 DEF kCacheWireMinLen, is_cache_envelope
  <1>26. decode_cache_op(data) =
            Read([topic |-> p.val, key |-> q.val, value |-> r.val, op_id |-> FromBigEndian(b),
                  node_id |-> FromBigEndian(c), tombstone |-> flag % 2 = kCacheFlagTombstone], r.at)
    BY <1>19, <1>20, <1>23, <1>24, <1>25, Zenon DEF decode_cache_op, Then
  <1>27. PICK y : y = [topic |-> p.val, key |-> q.val, value |-> r.val, op_id |-> FromBigEndian(b),
                       node_id |-> FromBigEndian(c), tombstone |-> flag % 2 = kCacheFlagTombstone]
    OBVIOUS
  <1>28. decode_cache_op(data) = Read(y, r.at)
    BY <1>26, <1>27, Zenon
  <1>29. y = [topic |-> Kept(1, op.topic), key |-> Kept(2, op.key), value |-> op.value,
              op_id |-> op.op_id, node_id |-> op.node_id, tombstone |-> op.tombstone]
    <2>1. CASE op.tombstone
      <3>1. op.tombstone = TRUE /\ (flag % 2 = kCacheFlagTombstone) = TRUE
        BY <1>3, <2>1, Zenon
      <3> QED BY <1>21, <1>24, <1>27, <3>1, Zenon
    <2>2. CASE ~op.tombstone
      <3>1. op.tombstone = FALSE /\ (flag % 2 = kCacheFlagTombstone) = FALSE
        BY <1>0, <1>3, <2>2, Zenon
      <3> QED BY <1>21, <1>24, <1>27, <3>1, Zenon
    <2> QED BY <2>1, <2>2
  <1>30. Read(y, r.at).ok /\ Read(y, r.at).val = y
    BY ReadIs
  <1>31. decode_cache_op(data).ok /\ decode_cache_op(data).val = y
    BY <1>28, <1>30, Zenon
  <1> QED BY <1>9, <1>11, <1>29, <1>31, Zenon

----------------------------------------------------------------------------
(* Object datagrams *)

\* The header of a datagram stands at the beginning of buf and is `size` bytes long.
Header(buf, type, alias, id, size) ==
    LET ea == Len(encode_varint(alias))  eg == Len(encode_varint(0))  ei == Len(encode_varint(id))
    IN  /\ Found(buf, 0, encode_varint(type))
        /\ Found(buf, 1, encode_varint(alias))
        /\ Found(buf, 1 + ea, encode_varint(0))
        /\ Found(buf, 1 + ea + eg, encode_varint(id))
        /\ Found(buf, 1 + ea + eg + ei, <<Byte \div 2>>)
        /\ size = 1 + ea + eg + ei + 1

\* The header of a datagram is read to its end, whatever the object id.
LEMMA HeaderRead ==
    ASSUME NEW T, Bytes \subseteq T, NEW buf \in Seq(T), NEW type \in 0 .. 1,
           NEW alias \in 1 .. 2, NEW id \in Nat, NEW size, Header(buf, type, alias, id, size)
    PROVE  \E t, a, g, o, w :
              /\ t = decode_varint(buf, 0) /\ t = Read(type, 1)
              /\ a = decode_varint(buf, 1) /\ a.ok /\ a.val = alias
              /\ g = decode_varint(buf, a.at) /\ g.ok
              /\ o = decode_varint(buf, g.at) /\ o.ok
              /\ read_byte(buf, o.at) = Read(w, size)
              /\ size \in Nat /\ size <= Len(buf)
  <1>1. /\ alias \in Nat /\ 0 \in Nat /\ type \in Nat /\ type < Quarter
        /\ alias \div Power[7] < Quarter /\ type \div Power[7] < Quarter
    BY SmallNumber, ByteFacts
  <1>2. encode_varint(type) = <<type>> /\ Len(<<type>>) = 1
    BY <1>1, SmallVarint
  <1>3. PICK ea, eg, ei : ea = Len(encode_varint(alias)) /\ eg = Len(encode_varint(0))
                          /\ ei = Len(encode_varint(id))
    OBVIOUS
  <1>4. ea \in Nat /\ eg \in Nat /\ ei \in Nat
    <2>1. \A v \in Nat : Len(encode_varint(v)) \in Nat
      BY VarintIs
    <2> QED BY <1>1, <1>3, <2>1
  <1>5. /\ Found(buf, 0, encode_varint(type)) /\ Found(buf, 1, encode_varint(alias))
        /\ Found(buf, 1 + ea, encode_varint(0)) /\ Found(buf, 1 + ea + eg, encode_varint(id))
        /\ Found(buf, 1 + ea + eg + ei, <<Byte \div 2>>) /\ size = 1 + ea + eg + ei + 1
    BY <1>3, Zenon DEF Header
  <1>6. decode_varint(buf, 0) = Read(type, 1)
    <2>1. PICK w : decode_varint(buf, 0) = Read(w, 0 + Len(encode_varint(type))) /\ w = type
      BY <1>1, <1>5, VarintRead
    <2> QED BY <1>2, <2>1
  <1>a. ASSUME NEW v \in Nat, NEW at, Found(buf, at, encode_varint(v))
        PROVE  \E w : /\ decode_varint(buf, at) = Read(w, at + Len(encode_varint(v)))
                      /\ v \div Power[7] < Quarter => w = v
    BY <1>a, VarintRead
  <1>7. decode_varint(buf, 1) = Read(alias, 1 + ea)
    BY <1>1, <1>3, <1>5, <1>a, Zenon
  <1>8. PICK y : decode_varint(buf, 1 + ea) = Read(y, 1 + ea + eg)
    BY <1>1, <1>3, <1>5, <1>a, Zenon
  <1>9. PICK z : decode_varint(buf, 1 + ea + eg) = Read(z, 1 + ea + eg + ei)
    BY <1>1, <1>3, <1>5, <1>a, Zenon
  <1>10. PICK m : m = 1 + ea + eg + ei
    OBVIOUS
  <1>11. m \in Nat /\ ~(m >= Len(buf)) /\ size = m + 1 /\ size \in Nat /\ size <= Len(buf)
    <2>1. Len(<<Byte \div 2>>) = 1
      OBVIOUS
    <2> QED BY <1>4, <1>5, <1>10, <2>1 DEF Found
  <1>12. read_byte(buf, m) = Read(buf[m + 1], size)
    BY <1>11 DEF read_byte
  <1>13. PICK t, a, g, o : /\ t = Read(type, 1) /\ a = Read(alias, 1 + ea)
                           /\ g = Read(y, 1 + ea + eg) /\ o = Read(z, m)
    OBVIOUS
  <1>14. /\ a.ok /\ a.val = alias /\ a.at = 1 + ea /\ g.ok /\ g.at = 1 + ea + eg
         /\ o.ok /\ o.at = m
    BY <1>13, ReadIs, Zenon
  <1>15. /\ t = decode_varint(buf, 0) /\ a = decode_varint(buf, 1) /\ g = decode_varint(buf, a.at)
         /\ o = decode_varint(buf, g.at) /\ read_byte(buf, o.at) = Read(buf[m + 1], size)
    BY <1>6, <1>7, <1>8, <1>9, <1>10, <1>12, <1>13, <1>14, Zenon
  <1>16. t = Read(type, 1)
    BY <1>13
  <1> HIDE DEF Header
  <1> QED
    <2>1. WITNESS t, a, g, o, buf[m + 1]
    <2> QED BY <1>11, <1>14, <1>15, <1>16

\* buf is a plain object with this alias and payload: the payload follows the header.
Plain(buf, alias, id, size, payload) ==
    /\ Header(buf, kDatagramTypePlain, alias, id, size)
    /\ Found(buf, size, payload)
    /\ Len(buf) = size + Len(payload)

\* The payload of a plain object is all that follows its header.
LEMMA PlainRead ==
    ASSUME NEW T, Bytes \subseteq T, NEW buf \in Seq(T), NEW alias \in 1 .. 2, NEW id \in Nat,
           NEW size, NEW payload \in Seq(T), Plain(buf, alias, id, size, payload)
    PROVE  /\ parse_object_datagram(buf).val.track_alias = alias
           /\ parse_object_datagram(buf).val.payload = payload
  <1>0. /\ Header(buf, kDatagramTypePlain, alias, id, size) /\ Found(buf, size, payload)
        /\ Len(buf) = size + Len(payload)
    BY Zenon DEF Plain
  <1>1. 0 \in 0 .. 1 /\ kDatagramTypePlain = 0
    BY DEF kDatagramTypePlain
  <1>2. PICK t, a, g, o, w :
              /\ t = decode_varint(buf, 0) /\ t = Read(0, 1)
              /\ a = decode_varint(buf, 1) /\ a.ok /\ a.val = alias
              /\ g = decode_varint(buf, a.at) /\ g.ok
              /\ o = decode_varint(buf, g.at) /\ o.ok
              /\ read_byte(buf, o.at) = Read(w, size)
              /\ size \in Nat /\ size <= Len(buf)
    <2>1. Header(buf, 0, alias, id, size)
      BY <1>0, <1>1, Zenon
    <2> QED BY <1>1, <2>1, HeaderRead, Zenon
  <1>3. t.ok /\ t.val = 0 /\ t.at = 1
    <2>1. t = Read(0, 1)
      BY <1>2
    <2> QED BY <2>1, ReadIs, Zenon
  <1>4. PICK p : p = Read(w, size)
    OBVIOUS
  <1>5. p.ok /\ p.val = w /\ p.at = size
    BY <1>4, ReadIs, Zenon
  <1>6. SubSeq(buf, size + 1, Len(buf)) = payload
    BY <1>0, FoundSubSeq
  <1>7. PICK x : x = [track_alias |-> a.val, group_id |-> g.val, object_id |-> o.val,
                      priority |-> p.val, payload |-> SubSeq(buf, p.at + 1, Len(buf))]
    OBVIOUS
  <1>8. x.track_alias = alias /\ x.payload = payload
    BY <1>2, <1>5, <1>6, <1>7
  <1>9. parse_object_datagram(buf) = Read(x, Len(buf))
    <2>1. NextVarint(buf, t) = a /\ NextVarint(buf, a) = g /\ NextVarint(buf, g) = o
      BY <1>2, <1>3, Zenon DEF NextVarint
    <2>2. kDatagramTypePlain \in {kDatagramTypePlain, kDatagramTypeExtensions}
      OBVIOUS
    <2> QED BY <1>1, <1>2, <1>3, <1>4, <1>5, <1>7, <2>1, <2>2, Zenon DEF parse_object_datagram
  <1> QED BY <1>8, <1>9, ReadIs

\* The extension that a server may put in, with its count.
Extension == encode_varint(2) \o append_string_bytes(<<1, 2, 3, 4>>)

\* The extension is a sequence of bytes, and its count is one byte.
LEMMA ExtensionFacts ==
    /\ encode_varint(1) = <<1>> /\ encode_varint(2) \in Seq(Bytes)
    /\ append_string_bytes(<<1, 2, 3, 4>>) \in Seq(Bytes)
    /\ Extension \in Seq(Bytes)
    /\ Len(Extension) = Len(encode_varint(2)) + Len(append_string_bytes(<<1, 2, 3, 4>>))
  <1>1. encode_varint(1) = <<1>>
    BY SmallVarint, ByteFacts
  <1>2. <<1, 2, 3, 4>> \in Seq(Bytes) /\ Len(<<1, 2, 3, 4>>) = 4
    BY ByteFacts DEF Bytes
  <1>3. \A v \in Nat : encode_varint(v) \in Seq(Bytes)
    BY VarintIs
  <1>4. encode_varint(2) \in Seq(Bytes) /\ encode_varint(4) \in Seq(Bytes)
    BY <1>3
  <1>5. append_string_bytes(<<1, 2, 3, 4>>) \in Seq(Bytes)
    <2>1. PICK s : s = <<1, 2, 3, 4>> /\ s \in Seq(Bytes) /\ Len(s) = 4
      BY <1>2
    <2>2. encode_varint(Len(s)) \o s \in Seq(Bytes)
      BY <1>4, <2>1
    <2> QED BY <2>1, <2>2, Zenon DEF append_string_bytes
  <1>6. PICK u, w : u = encode_varint(2) /\ w = append_string_bytes(<<1, 2, 3, 4>>)
    OBVIOUS
  <1>7. Extension = u \o w
    BY <1>6, Zenon DEF Extension
  <1>8. u \o w \in Seq(Bytes) /\ Len(u \o w) = Len(u) + Len(w)
    BY <1>4, <1>5, <1>6
  <1> QED BY <1>1, <1>4, <1>5, <1>6, <1>7, <1>8, Zenon

\* The extensions that ReadMany() reads one after the other.
Skipped(data, n, at, f) ==
    f = [i \in 0 .. n |->
           IF i = 0 THEN Read(<<>>, at)
           ELSE Then(f[i - 1], LAMBDA vals, a :
                     Then(ReadExtension(data, a), LAMBDA v, b : Read(Append(vals, v), b)))]

Skipping(data, n, at) == CHOOSE f : Skipped(data, n, at, f)

\* One extension is skipped.
LEMMA ExtensionSkipped ==
    ASSUME NEW T, Bytes \subseteq T, NEW buf \in Seq(T), NEW at,
           Found(buf, at, encode_varint(1)), Found(buf, at + 1, Extension)
    PROVE  \E v : skip_extensions(buf, at) = Read(v, at + 1 + Len(Extension))
  <1>1. PICK u, w, s : u = encode_varint(2) /\ w = append_string_bytes(<<1, 2, 3, 4>>)
                       /\ s = <<1, 2, 3, 4>>
    OBVIOUS
  <1>2. /\ encode_varint(1) = <<1>> /\ Len(<<1>>) = 1 /\ u \in Seq(T) /\ w \in Seq(T)
        /\ s \in Seq(T) /\ Len(s) = 4 /\ Len(Extension) = Len(u) + Len(w)
        /\ Len(u) \in Nat /\ Len(w) \in Nat /\ at \in Nat
    <2>1. u \in Seq(Bytes) /\ w \in Seq(Bytes) /\ encode_varint(1) = <<1>>
          /\ Len(Extension) = Len(u) + Len(w)
      BY <1>1, ExtensionFacts
    <2>2. s \in Seq(Bytes) /\ Len(s) = 4
      BY <1>1, ByteFacts DEF Bytes
    <2> QED BY <2>1, <2>2, SeqMonotonic DEF Found
  <1>3. 1 \div Power[7] < Quarter /\ 2 \div Power[7] < Quarter /\ Len(s) \div Power[7] < Quarter
    BY <1>2, SmallNumber
  <1>4. decode_varint(buf, at) = Read(1, at + 1)
    <2>1. PICK x : decode_varint(buf, at) = Read(x, at + Len(encode_varint(1))) /\ x = 1
      BY <1>3, VarintRead
    <2> QED BY <1>2, <2>1
  <1>5. Found(buf, at + 1, u) /\ Found(buf, at + 1 + Len(u), w)
    <2>1. Found(buf, at + 1, u \o w)
      BY <1>1, Zenon DEF Extension
    <2> QED BY <1>2, <2>1, FoundParts
  <1>6. PICK key : decode_varint(buf, at + 1) = Read(key, at + 1 + Len(u))
    BY <1>1, <1>5, VarintRead
  <1>7. read_string(buf, at + 1 + Len(u)) = Read(s, at + 1 + Len(u) + Len(w))
    <2>1. w = append_string_bytes(s)
      BY <1>1
    <2> QED BY <1>2, <1>3, <1>5, <2>1, StringRead
  <1>8. ReadExtension(buf, at + 1) = Read(s, at + 1 + Len(u) + Len(w))
    <2>1. PICK k : k = Read(key, at + 1 + Len(u))
      OBVIOUS
    <2>2. k.ok /\ k.at = at + 1 + Len(u)
      BY <2>1, ReadIs, Zenon
    <2> QED BY <1>6, <1>7, <2>1, <2>2, Zenon DEF ReadExtension, Then
  <1>9. PICK e, f0 : e = Read(s, at + 1 + Len(u) + Len(w)) /\ f0 = Read(<<>>, at + 1)
    OBVIOUS
  <1>10. /\ e.ok /\ e.val = s /\ e.at = at + 1 + Len(u) + Len(w)
         /\ f0.ok /\ f0.val = <<>> /\ f0.at = at + 1
    BY <1>9, ReadIs, Zenon
  <1>11. \E f : Skipped(buf, 1, at + 1, f)
    <2>1. PICK x : x = Then(f0, LAMBDA vals, a :
                     Then(ReadExtension(buf, a), LAMBDA v, b : Read(Append(vals, v), b)))
      OBVIOUS
    <2>2. PICK g : g = [i \in 0 .. 1 |-> IF i = 0 THEN f0 ELSE x]
      OBVIOUS
    <2>3. g[0] = f0 /\ g[1] = x
      BY <2>2
    <2>4. ASSUME NEW i \in 0 .. 1
          PROVE  (IF i = 0 THEN f0 ELSE x) =
                 IF i = 0 THEN Read(<<>>, at + 1)
                 ELSE Then(g[i - 1], LAMBDA vals, a :
                     Then(ReadExtension(buf, a), LAMBDA v, b : Read(Append(vals, v), b)))
      <3>1. CASE i = 0
        BY <1>9, <3>1
      <3>2. CASE i = 1
        <4>1. i - 1 = 0 /\ i # 0
          BY <3>2
        <4>2. g[i - 1] = f0
          BY <2>3, <4>1
        <4> QED BY <2>1, <4>1, <4>2, Zenon
      <3>3. i = 0 \/ i = 1
        OBVIOUS
      <3> QED BY <3>1, <3>2, <3>3, Zenon
    <2>5. Skipped(buf, 1, at + 1, g)
      BY <2>2, <2>4, Zenon DEF Skipped
    <2> QED BY <2>5
  <1>12. PICK f : f = Skipping(buf, 1, at + 1)
    OBVIOUS
  <1>13. Skipped(buf, 1, at + 1, f)
    BY <1>11, <1>12, Zenon DEF Skipping
  <1>14. f[0] = Read(<<>>, at + 1)
         /\ f[1] = Then(f[0], LAMBDA vals, a :
                     Then(ReadExtension(buf, a), LAMBDA v, b : Read(Append(vals, v), b)))
    <2>1. 0 \in 0 .. 1 /\ 1 \in 0 .. 1 /\ 1 # 0 /\ 1 - 1 = 0
      OBVIOUS
    <2> QED BY <1>13, <2>1, Zenon DEF Skipped
  <1>15. f[1] = Read(Append(<<>>, s), at + 1 + Len(u) + Len(w))
    BY <1>8, <1>9, <1>10, <1>14, Zenon DEF Then
  <1>16. skip_extensions(buf, at) = f[1]
    <2>1. PICK c : c = Read(1, at + 1)
      OBVIOUS
    <2>2. c.ok /\ c.val = 1 /\ c.at = at + 1
      BY <2>1, ReadIs, Zenon
    <2>3. decode_varint(buf, at).ok => skip_extensions(buf, at) =
             Skipping(buf, decode_varint(buf, at).val, decode_varint(buf, at).at)
                [decode_varint(buf, at).val]
      BY Zenon DEF skip_extensions, ReadCounted, ReadMany, Skipping, Skipped, Then
    <2> QED BY <1>4, <1>12, <2>1, <2>2, <2>3, Zenon
  <1>17. at + 1 + Len(u) + Len(w) = at + 1 + Len(Extension)
    BY <1>2
  <1> QED BY <1>15, <1>16, <1>17

\* buf is an object with one extension between header and payload.
Extended(buf, alias, id, size, payload) ==
    /\ Header(buf, kDatagramTypeExtensions, alias, id, size)
    /\ Found(buf, size, encode_varint(1)) /\ Found(buf, size + 1, Extension)
    /\ Found(buf, size + 1 + Len(Extension), payload)
    /\ Len(buf) = size + 1 + Len(Extension) + Len(payload)

\* The extensions of an object are skipped, and its payload is all that follows them.
LEMMA ExtendedRead ==
    ASSUME NEW T, Bytes \subseteq T, NEW buf \in Seq(T), NEW alias \in 1 .. 2, NEW id \in Nat,
           NEW size, NEW payload \in Seq(T), Extended(buf, alias, id, size, payload)
    PROVE  /\ parse_object_datagram(buf).val.track_alias = alias
           /\ parse_object_datagram(buf).val.payload = payload
  <1>0. /\ Header(buf, kDatagramTypeExtensions, alias, id, size)
        /\ Found(buf, size, encode_varint(1)) /\ Found(buf, size + 1, Extension)
        /\ Found(buf, size + 1 + Len(Extension), payload)
        /\ Len(buf) = size + 1 + Len(Extension) + Len(payload)
    BY Zenon DEF Extended
  <1>1. 1 \in 0 .. 1 /\ kDatagramTypeExtensions = 1 /\ kDatagramTypePlain = 0 /\ 1 # 0
    BY DEF kDatagramTypeExtensions, kDatagramTypePlain
  <1>2. PICK t, a, g, o, w :
              /\ t = decode_varint(buf, 0) /\ t = Read(1, 1)
              /\ a = decode_varint(buf, 1) /\ a.ok /\ a.val = alias
              /\ g = decode_varint(buf, a.at) /\ g.ok
              /\ o = decode_varint(buf, g.at) /\ o.ok
              /\ read_byte(buf, o.at) = Read(w, size)
              /\ size \in Nat /\ size <= Len(buf)
    <2>1. Header(buf, 1, alias, id, size)
      BY <1>0, <1>1, Zenon
    <2> QED BY <1>1, <2>1, HeaderRead, Zenon
  <1>3. t.ok /\ t.val = 1 /\ t.at = 1
    <2>1. t = Read(1, 1)
      BY <1>2
    <2> QED BY <2>1, ReadIs, Zenon
  <1>4. PICK p : p = Read(w, size)
    OBVIOUS
  <1>5. p.ok /\ p.val = w /\ p.at = size
    BY <1>4, ReadIs, Zenon
  <1>6. PICK b, v : b = skip_extensions(buf, size) /\ b = Read(v, size + 1 + Len(Extension))
    BY <1>0, ExtensionSkipped
  <1>7. b.ok /\ b.at = size + 1 + Len(Extension)
    <2>1. b = Read(v, size + 1 + Len(Extension))
      BY <1>6
    <2> QED BY <2>1, ReadIs, Zenon
  <1>8. SubSeq(buf, b.at + 1, Len(buf)) = payload
    <2>1. PICK m : m = size + 1 + Len(Extension)
      OBVIOUS
    <2>2. m \in Nat /\ Len(buf) = m + Len(payload) /\ Found(buf, m, payload)
      <3>1. Len(Extension) \in Nat
        BY ExtensionFacts
      <3> QED BY <1>0, <1>2, <2>1, <3>1
    <2>3. SubSeq(buf, m + 1, m + Len(payload)) = payload
      BY <2>2, FoundSubSeq
    <2> QED BY <1>7, <2>1, <2>2, <2>3
  <1>9. PICK x : x = [track_alias |-> a.val, group_id |-> g.val, object_id |-> o.val,
                      priority |-> p.val, payload |-> SubSeq(buf, b.at + 1, Len(buf))]
    OBVIOUS
  <1>10. x.track_alias = alias /\ x.payload = payload
    BY <1>2, <1>8, <1>9
  <1>11. parse_object_datagram(buf) = Read(x, Len(buf))
    <2>1. NextVarint(buf, t) = a /\ NextVarint(buf, a) = g /\ NextVarint(buf, g) = o
      BY <1>2, <1>3, Zenon DEF NextVarint
    <2>2. kDatagramTypeExtensions \in {kDatagramTypePlain, kDatagramTypeExtensions}
      OBVIOUS
    <2> QED BY <1>1, <1>2, <1>3, <1>4, <1>5, <1>6, <1>7, <1>9, <2>1, <2>2, Zenon
        DEF parse_object_datagram
  <1> QED BY <1>10, <1>11, ReadIs

\* What becomes of a header and a payload; there are 34 bytes for the header in
\* datagram_buffer.
Built(header, T, alias, id, payload) ==
    /\ header \o payload \in Seq(T) /\ Len(header) \in 1 .. 34
    /\ Plain(header \o payload, alias, id, Len(header), payload)

\* The header is built of the fields that parse_object_datagram() reads, and fits its room.
LEMMA HeaderBuilt ==
    ASSUME NEW T, Bytes \subseteq T, NEW alias \in 1 .. 2, NEW id \in Nat, NEW payload \in Seq(T)
    PROVE  Built(build_object_datagram_header(alias, 0, id, Byte \div 2), T, alias, id, payload)
  <1>0. PICK header, buf : /\ header = build_object_datagram_header(alias, 0, id, Byte \div 2)
                           /\ buf = header \o payload
    OBVIOUS
  <1>1. \A v \in Nat : encode_varint(v) \in Seq(Bytes) /\ Len(encode_varint(v)) \in 1 .. 8
    BY VarintBytes, Zenon
  <1>2. PICK t, a, g, o, p :
            /\ t = encode_varint(0) /\ a = encode_varint(alias) /\ g = encode_varint(0)
            /\ o = encode_varint(id) /\ p = <<Byte \div 2>>
    OBVIOUS
  <1>3. \A s \in Seq(Bytes) : s \in Seq(T)
    BY SeqMonotonic
  <1>4. /\ t \in Seq(T) /\ a \in Seq(T) /\ g \in Seq(T) /\ o \in Seq(T) /\ p \in Seq(T)
        /\ Len(t) = 1 /\ Len(a) \in 1 .. 8 /\ Len(g) \in 1 .. 8 /\ Len(o) \in 1 .. 8 /\ Len(p) = 1
    <2>1. 0 \in Nat /\ alias \in Nat
      OBVIOUS
    <2>2. t = <<0>> /\ Len(<<0>>) = 1
      BY <1>2, SmallVarint, ByteFacts
    <2>3. p \in Seq(Bytes) /\ Len(p) = 1
      BY <1>2, ByteFacts DEF Bytes
    <2> QED BY <1>1, <1>2, <1>3, <2>1, <2>2, <2>3, Zenon
  <1>5. PICK ta, tag, tago : ta = t \o a /\ tag = ta \o g /\ tago = tag \o o
    OBVIOUS
  <1>6. header = tago \o p
    BY <1>0, <1>2, <1>5, Zenon DEF build_object_datagram_header, kDatagramTypePlain
  <1>7. \A s, u \in Seq(T) : s \o u \in Seq(T) /\ Len(s \o u) = Len(s) + Len(u)
    BY Joined
  <1>8. ta \in Seq(T) /\ Len(ta) = Len(t) + Len(a)
    BY <1>4, <1>5, <1>7, Zenon
  <1>9. tag \in Seq(T) /\ Len(tag) = Len(ta) + Len(g)
    BY <1>4, <1>5, <1>7, <1>8, Zenon
  <1>10. tago \in Seq(T) /\ Len(tago) = Len(tag) + Len(o)
    BY <1>4, <1>5, <1>7, <1>9, Zenon
  <1>11. header \in Seq(T) /\ Len(header) = Len(tago) + Len(p)
    BY <1>4, <1>6, <1>7, <1>10, Zenon
  <1>12. buf \in Seq(T) /\ Len(buf) = Len(header) + Len(payload)
    BY <1>0, <1>7, <1>11, Zenon
  <1>13. Found(buf, 0, header) /\ Found(buf, 0 + Len(header), payload)
    <2>1. Found(buf, 0, header \o payload)
      BY <1>0, <1>12, FoundWhole
    <2>2. ASSUME NEW b \in Seq(T), Found(b, 0, header \o payload)
          PROVE  Found(b, 0, header) /\ Found(b, 0 + Len(header), payload)
      BY <1>11, <2>2, FoundParts
    <2> QED BY <1>12, <2>1, <2>2, Zenon
  <1>14. Found(buf, 0, tago) /\ Found(buf, 0 + Len(tago), p)
    BY <1>4, <1>6, <1>10, <1>12, <1>13, FoundParts, Zenon
  <1>15. Found(buf, 0, tag) /\ Found(buf, 0 + Len(tag), o)
    BY <1>4, <1>5, <1>9, <1>12, <1>14, FoundParts, Zenon
  <1>16. Found(buf, 0, ta) /\ Found(buf, 0 + Len(ta), g)
    BY <1>4, <1>5, <1>8, <1>12, <1>15, FoundParts, Zenon
  <1>17. Found(buf, 0, t) /\ Found(buf, 0 + Len(t), a)
    BY <1>4, <1>5, <1>12, <1>16, FoundParts, Zenon
  <1>18. /\ 0 + Len(header) = Len(header) /\ 0 + Len(t) = 1 /\ 0 + Len(ta) = 1 + Len(a)
         /\ 0 + Len(tag) = 1 + Len(a) + Len(g) /\ 0 + Len(tago) = 1 + Len(a) + Len(g) + Len(o)
         /\ Len(header) = 1 + Len(a) + Len(g) + Len(o) + 1
    BY <1>4, <1>8, <1>9, <1>10, <1>11
  <1>19. Header(buf, kDatagramTypePlain, alias, id, Len(header))
    <2>1. /\ Found(buf, 0, t) /\ Found(buf, 1, a) /\ Found(buf, 1 + Len(a), g)
          /\ Found(buf, 1 + Len(a) + Len(g), o) /\ Found(buf, 1 + Len(a) + Len(g) + Len(o), p)
      BY <1>14, <1>15, <1>16, <1>17, <1>18, Zenon
    <2> QED BY <1>2, <1>18, <2>1, Zenon DEF Header, kDatagramTypePlain
  <1>20. Len(header) \in 1 .. 34
    <2>1. PICK i \in 1 .. 8, j \in 1 .. 8, k \in 1 .. 8 : i = Len(a) /\ j = Len(g) /\ k = Len(o)
      BY <1>4
    <2>2. Len(header) = 1 + i + j + k + 1
      BY <1>18, <2>1, Zenon
    <2>3. 1 + i + j + k + 1 \in 1 .. 34
      OBVIOUS
    <2> QED BY <2>2, <2>3, Zenon
  <1>21. Plain(buf, alias, id, Len(header), payload)
    BY <1>12, <1>13, <1>18, <1>19, Zenon DEF Plain
  <1> QED BY <1>0, <1>12, <1>20, <1>21, Zenon DEF Built

\* buf is a datagram, of bytes and other elements of T, with this alias and payload.
Carries(buf, T, alias, payload) ==
    /\ buf \in Seq(T)
    /\ \E id, size \in Nat : \/ Plain(buf, alias, id, size, payload)
                            \/ Extended(buf, alias, id, size, payload)

\* A datagram is read as it was built, with or without extensions.
THEOREM CarriedRead ==
    ASSUME NEW T, Bytes \subseteq T, NEW buf, NEW alias \in 1 .. 2, NEW payload \in Seq(T),
           Carries(buf, T, alias, payload)
    PROVE  /\ parse_object_datagram(buf).val.track_alias = alias
           /\ parse_object_datagram(buf).val.payload = payload
  <1>1. buf \in Seq(T)
    BY DEF Carries
  <1>2. PICK id, size \in Nat : \/ Plain(buf, alias, id, size, payload)
                                \/ Extended(buf, alias, id, size, payload)
    BY Zenon DEF Carries
  <1>3. CASE Plain(buf, alias, id, size, payload)
    BY <1>1, <1>3, PlainRead
  <1>4. CASE Extended(buf, alias, id, size, payload)
    BY <1>1, <1>4, ExtendedRead
  <1> QED BY <1>2, <1>3, <1>4

\* What stands in one buffer stands in another that agrees with it there.
LEMMA FoundAgain ==
    ASSUME NEW buf, NEW at, NEW s, NEW T, s \in Seq(T), Found(buf, at, s), at >= 1,
           NEW size \in Nat, at + Len(s) <= size,
           NEW ext, Len(ext) \in Nat, size <= Len(ext), \A i \in 2 .. size : ext[i] = buf[i]
    PROVE  Found(ext, at, s)
  <1>1. at \in Nat /\ Len(s) \in Nat /\ \A i \in 1 .. Len(s) : buf[at + i] = s[i]
    BY DEF Found
  <1>2. ASSUME NEW i \in 1 .. Len(s) PROVE ext[at + i] = s[i]
    <2>1. at + i \in 2 .. size
      BY <1>1
    <2> QED BY <1>1, <2>1
  <1> QED BY <1>1, <1>2 DEF Found

\* What the server keeps of a header.
LEMMA HeaderCut ==
    ASSUME NEW T, NEW buf \in Seq(T), NEW size, size \in Nat, size >= 2, size <= Len(buf)
    PROVE  /\ SubSeq(buf, 2, size) \in Seq(T) /\ Len(SubSeq(buf, 2, size)) = size - 1
           /\ \A i \in 1 .. size - 1 : SubSeq(buf, 2, size)[i] = buf[i + 1]
  <1>1. PICK m \in Int, l \in Int : m = 2 /\ l = size
    OBVIOUS
  <1>a. PICK h : h = SubSeq(buf, m, l)
    OBVIOUS
  <1>2. \A i \in m .. l : buf[i] \in T
    BY <1>1
  <1>3. /\ h \in Seq(T) /\ Len(h) = IF m <= l THEN l - m + 1 ELSE 0
        /\ \A i \in 1 .. l - m + 1 : h[i] = buf[m + i - 1]
    BY <1>2, <1>a, SubSeqProperties
  <1>4. Len(h) = size - 1 /\ l - m + 1 = size - 1
    BY <1>1, <1>3
  <1>5. \A i \in 1 .. size - 1 : m + i - 1 = i + 1
    BY <1>1
  <1>6. \A i \in 1 .. size - 1 : h[i] = buf[i + 1]
    BY <1>3, <1>4, <1>5, Zenon
  <1> QED BY <1>1, <1>3, <1>4, <1>6, <1>a, Zenon

\* The server's version of a plain datagram.
LEMMA ExtensionBuilt ==
    ASSUME NEW T, Bytes \subseteq T, NEW buf \in Seq(T), NEW alias \in 1 .. 2, NEW payload \in Seq(T),
           NEW id \in Nat, NEW size, Plain(buf, alias, id, size, payload), NEW ext,
           ext = <<kDatagramTypeExtensions>> \o SubSeq(buf, 2, size) \o encode_varint(1) \o
                 Extension \o payload
    PROVE  Carries(ext, T, alias, payload)
  <1>1. PICK ea, eg, ei : ea = Len(encode_varint(alias)) /\ eg = Len(encode_varint(0))
                          /\ ei = Len(encode_varint(id))
    OBVIOUS
  <1>2. \A v \in Nat : encode_varint(v) \in Seq(T) /\ Len(encode_varint(v)) \in Nat
    <2>1. \A u \in Seq(Bytes) : u \in Seq(T)
      BY SeqMonotonic
    <2>2. 1 .. 8 \subseteq Nat
      OBVIOUS
    <2> QED BY <2>1, <2>2, VarintBytes, Zenon
  <1>3. ea \in Nat /\ eg \in Nat /\ ei \in Nat
    <2>1. alias \in Nat /\ 0 \in Nat
      OBVIOUS
    <2> QED BY <1>1, <1>2, <2>1
  <1>4. /\ Found(buf, 0, encode_varint(kDatagramTypePlain)) /\ Found(buf, 1, encode_varint(alias))
        /\ Found(buf, 1 + ea, encode_varint(0)) /\ Found(buf, 1 + ea + eg, encode_varint(id))
        /\ Found(buf, 1 + ea + eg + ei, <<Byte \div 2>>) /\ size = 1 + ea + eg + ei + 1
        /\ Found(buf, size, payload) /\ Len(buf) = size + Len(payload)
    BY <1>1, Zenon DEF Plain, Header
  <1>5. size \in Nat /\ size >= 2 /\ size <= Len(buf)
    BY <1>3, <1>4
  <1>6. PICK t, h, c, x : /\ t = <<kDatagramTypeExtensions>> /\ h = SubSeq(buf, 2, size)
                          /\ c = encode_varint(1) /\ x = Extension
    OBVIOUS
  <1>7. t \in Seq(T) /\ Len(t) = 1 /\ c = <<1>> /\ c \in Seq(T) /\ Len(c) = 1 /\ x \in Seq(T)
        /\ t = encode_varint(kDatagramTypeExtensions)
    <2>1. c = <<1>> /\ x \in Seq(Bytes) /\ t = <<1>>
      BY <1>6, ExtensionFacts DEF kDatagramTypeExtensions
    <2>2. <<1>> \in Seq(Bytes) /\ Len(<<1>>) = 1
      BY ByteFacts DEF Bytes
    <2>3. \A s \in Seq(Bytes) : s \in Seq(T)
      BY SeqMonotonic
    <2>4. t = encode_varint(kDatagramTypeExtensions)
      BY <1>6, <2>1 DEF kDatagramTypeExtensions
    <2> QED BY <2>1, <2>2, <2>3, <2>4, Zenon
  <1>8. h \in Seq(T) /\ Len(h) = size - 1 /\ \A i \in 1 .. size - 1 : h[i] = buf[i + 1]
    BY <1>5, <1>6, HeaderCut, Zenon
  <1>9. PICK th, thc, thcx : th = t \o h /\ thc = th \o c /\ thcx = thc \o x
    OBVIOUS
  <1>10. ext = thcx \o payload
    BY <1>6, <1>9, Zenon
  <1>11. \A s, u \in Seq(T) : s \o u \in Seq(T) /\ Len(s \o u) = Len(s) + Len(u)
    BY Joined
  <1>12. th \in Seq(T) /\ Len(th) = Len(t) + Len(h)
    BY <1>7, <1>8, <1>9, <1>11, Zenon
  <1>13. thc \in Seq(T) /\ Len(thc) = Len(th) + Len(c)
    BY <1>7, <1>9, <1>11, <1>12, Zenon
  <1>14. thcx \in Seq(T) /\ Len(thcx) = Len(thc) + Len(x)
    BY <1>7, <1>9, <1>11, <1>13, Zenon
  <1>15. ext \in Seq(T) /\ Len(ext) = Len(thcx) + Len(payload)
    BY <1>10, <1>11, <1>14, Zenon
  <1>16. Found(ext, 0, thcx) /\ Found(ext, 0 + Len(thcx), payload)
    <2>1. Found(ext, 0, thcx \o payload)
      BY <1>10, <1>15, FoundWhole
    <2>2. ASSUME NEW b \in Seq(T), Found(b, 0, thcx \o payload)
          PROVE  Found(b, 0, thcx) /\ Found(b, 0 + Len(thcx), payload)
      BY <1>14, <2>2, FoundParts
    <2> QED BY <1>15, <2>1, <2>2, Zenon
  <1>17. Found(ext, 0, thc) /\ Found(ext, 0 + Len(thc), x)
    <2>1. Found(ext, 0, thc \o x) /\ x \in Seq(T)
      BY <1>7, <1>9, <1>16, Zenon
    <2>2. ASSUME NEW b \in Seq(T), Found(b, 0, thc \o x)
          PROVE  Found(b, 0, thc) /\ Found(b, 0 + Len(thc), x)
      BY <1>13, <2>1, <2>2, FoundParts
    <2> QED BY <1>15, <2>1, <2>2, Zenon
  <1>18. Found(ext, 0, th) /\ Found(ext, 0 + Len(th), c)
    <2>1. Found(ext, 0, th \o c) /\ c \in Seq(T)
      BY <1>7, <1>9, <1>17, Zenon
    <2>2. ASSUME NEW b \in Seq(T), Found(b, 0, th \o c)
          PROVE  Found(b, 0, th) /\ Found(b, 0 + Len(th), c)
      BY <1>12, <2>1, <2>2, FoundParts
    <2> QED BY <1>15, <2>1, <2>2, Zenon
  <1>19. Found(ext, 0, t) /\ Found(ext, 0 + Len(t), h)
    <2>1. Found(ext, 0, t \o h) /\ t \in Seq(T) /\ h \in Seq(T)
      BY <1>7, <1>8, <1>9, <1>18, Zenon
    <2>2. ASSUME NEW b \in Seq(T), Found(b, 0, t \o h)
          PROVE  Found(b, 0, t) /\ Found(b, 0 + Len(t), h)
      BY <2>1, <2>2, FoundParts
    <2> QED BY <1>15, <2>1, <2>2, Zenon
  <1>20. /\ 0 + Len(t) = 1 /\ 0 + Len(th) = size /\ 0 + Len(thc) = size + 1
         /\ 0 + Len(thcx) = size + 1 + Len(x) /\ Len(ext) = size + 1 + Len(x) + Len(payload)
         /\ size <= Len(ext) /\ Len(ext) \in Nat
    <2>1. Len(x) \in Nat /\ Len(payload) \in Nat
      BY <1>7
    <2>2. PICK k \in Nat, l \in Nat : k = Len(x) /\ l = Len(payload)
      BY <2>1
    <2>3. /\ Len(th) = 1 + (size - 1) /\ Len(thc) = Len(th) + 1 /\ Len(thcx) = Len(thc) + k
          /\ Len(ext) = Len(thcx) + l
      BY <1>7, <1>8, <1>12, <1>13, <1>14, <1>15, <2>2, Zenon
    <2>4. Len(th) = size /\ Len(thc) = size + 1 /\ Len(thcx) = size + 1 + k
          /\ Len(ext) = size + 1 + k + l
      BY <1>5, <2>3
    <2>5. /\ 0 + 1 = 1 /\ 0 + size = size /\ 0 + (size + 1) = size + 1
          /\ 0 + (size + 1 + k) = size + 1 + k
          /\ size <= size + 1 + k + l /\ size + 1 + k + l \in Nat
      BY <1>5
    <2> QED BY <1>7, <2>2, <2>4, <2>5, Zenon
  <1>21. \A i \in 2 .. size : ext[i] = buf[i]
    <2> SUFFICES ASSUME NEW i \in 2 .. size PROVE ext[i] = buf[i]
      OBVIOUS
    <2>1. i - 1 \in 1 .. size - 1 /\ 1 + (i - 1) = i /\ (i - 1) + 1 = i
      BY <1>5
    <2>2. \A j \in 1 .. size - 1 : ext[1 + j] = h[j]
      BY <1>8, <1>19, <1>20 DEF Found
    <2>3. ext[1 + (i - 1)] = h[i - 1] /\ h[i - 1] = buf[(i - 1) + 1]
      BY <1>8, <2>1, <2>2, Zenon
    <2> QED BY <2>1, <2>3, Zenon
  <1>22. /\ Found(ext, 1, encode_varint(alias)) /\ Found(ext, 1 + ea, encode_varint(0))
         /\ Found(ext, 1 + ea + eg, encode_varint(id))
         /\ Found(ext, 1 + ea + eg + ei, <<Byte \div 2>>)
    <2>1. ASSUME NEW at, NEW s \in Seq(T), Found(buf, at, s), at >= 1, at + Len(s) <= size
          PROVE  Found(ext, at, s)
      BY <1>5, <1>20, <1>21, <2>1, FoundAgain
    <2>2. encode_varint(alias) \in Seq(T) /\ encode_varint(0) \in Seq(T) /\ encode_varint(id) \in Seq(T)
      <3>1. alias \in Nat /\ 0 \in Nat
        OBVIOUS
      <3> QED BY <1>2, <3>1
    <2>3. <<Byte \div 2>> \in Seq(T) /\ Len(<<Byte \div 2>>) = 1
      <3>1. Byte \div 2 \in Bytes
        BY ByteFacts DEF Bytes
      <3> QED BY <3>1
    <2>4. /\ 1 >= 1 /\ 1 + ea <= size /\ 1 + ea >= 1 /\ 1 + ea + eg <= size
          /\ 1 + ea + eg >= 1 /\ 1 + ea + eg + ei <= size /\ 1 + ea + eg + ei >= 1
          /\ 1 + ea + eg + ei + 1 <= size
      BY <1>3, <1>4
    <2> QED BY <1>1, <1>4, <2>1, <2>2, <2>3, <2>4, Zenon
  <1>23. Header(ext, kDatagramTypeExtensions, alias, id, size)
    BY <1>1, <1>4, <1>7, <1>19, <1>22, Zenon DEF Header
  <1>24. Extended(ext, alias, id, size, payload)
    BY <1>6, <1>16, <1>17, <1>18, <1>20, <1>23, Zenon DEF Extended
  <1> QED BY <1>5, <1>15, <1>24, Zenon DEF Carries

----------------------------------------------------------------------------
(* The buffers *)

\* Frames that the session thread reads at once.
Frame(tc) == IF tc.codec = "Opus" THEN Encoder(tc).frame_size_samples ELSE FrameSamples(tc)

\* What configure() makes for a track: an encoder that works reads what was configured,
\* and then the other client's decoder works too.
LEMMA TrackFacts ==
    ASSUME NEW tc \in Tracks
    PROVE  /\ tc.channels \in Nat \ {0} /\ FrameSamples(tc) \in Nat \ {0} /\ Frame(tc) \in Nat
           /\ tc.codec \in {"Opus", "PCM"}
           /\ tc.codec = "PCM" => Frame(tc) = FrameSamples(tc)
           /\ tc.codec = "Opus" /\ Encoder(tc).is_initialized =>
                 Frame(tc) = FrameSamples(tc) /\ Decoder(tc).is_initialized
  <1>1. /\ tc.channels \in Nat \ {0} /\ FrameSamples(tc) > 0 /\ tc.sample_rate \in Nat
        /\ tc.frame_size_ms \in Nat /\ tc.codec \in {"Opus", "PCM"}
    BY TrackAssumption
  <1>2. FrameSamples(tc) \in Nat
    <2>1. tc.frame_size_ms * tc.sample_rate \in Nat
      BY <1>1
    <2> QED BY <2>1, DivNat DEF FrameSamples
  <1>3. Encoder(tc).frame_size_samples \in {240, FrameSamples(tc)}
    BY DEF Encoder
  <1>4. ASSUME tc.codec = "Opus", Encoder(tc).is_initialized
        PROVE  Frame(tc) = FrameSamples(tc) /\ Decoder(tc).is_initialized
    <2>0. tc.frame_size_ms \in {5, 10, 20, 40, 60}
      BY <1>4 DEF Encoder
    <2>1. /\ tc.sample_rate \in OpusRates
          /\ tc.channels <= 2 \/ tc.channels \in DOMAIN OpusLayouts
      BY <1>1, <1>4, <2>0 DEF Encoder
    <2>2. tc.channels \in 1 .. 255
      BY <1>1, <2>1, TrackAssumption
    <2>3. Encoder(tc).frame_size_samples = FrameSamples(tc)
      BY <1>1, <2>0 DEF Encoder
    <2> QED BY <1>4, <2>1, <2>2, <2>3 DEF Decoder, Frame
  <1>5. tc.codec = "PCM" => Frame(tc) = FrameSamples(tc)
    BY DEF Frame
  <1>6. Frame(tc) \in Nat
    BY <1>2, <1>3 DEF Frame
  <1> QED BY <1>1, <1>2, <1>4, <1>5, <1>6

\* The buffers that configure() makes, by the samples of a frame.
LEMMA Configured ==
    ASSUME NEW tc \in Tracks
    PROVE  /\ configure(tc).encoder = Encoder(tc) /\ configure(tc).decoder = Decoder(tc)
           /\ configure(tc).pcm_read_buffer = FrameSamples(tc) * tc.channels
           /\ configure(tc).encode_output_buffer \in Nat
           /\ tc.codec = "PCM" =>
                 configure(tc).encode_output_buffer = FrameSamples(tc) * tc.channels * 4
           /\ configure(tc).datagram_buffer = 34 + configure(tc).encode_output_buffer
           /\ configure(tc).decode_buffer = 960 * tc.channels
  <1>1. PICK samples \in Nat : samples = FrameSamples(tc) * tc.channels
    BY TrackFacts
  <1>2. PICK output : output = IF tc.codec = "Opus" THEN 512 ELSE samples * 4
    OBVIOUS
  <1>3. configure(tc) =
          [ring_capacity_frames |-> (tc.sample_rate * RING_BUFFER_MS) \div 1000,
           encoder |-> Encoder(tc), decoder |-> Decoder(tc), pcm_read_buffer |-> samples,
           encode_output_buffer |-> output, datagram_buffer |-> 34 + output,
           decode_buffer |-> 960 * tc.channels]
    BY <1>1, <1>2, ZenonT(40) DEF configure
  <1>4. output \in Nat /\ (tc.codec = "PCM" => output = samples * 4)
    BY <1>2
  <1>5. FrameSamples(tc) * tc.channels * 4 = samples * 4
    BY <1>1
  <1> QED BY <1>1, <1>3, <1>4, <1>5

\* Audio means what it is ...
LEMMA MeantStretch == \A x, y : Meant(Stretch(x, y)) = Stretch(x, y)
  BY DEF Meant, Stretch

\* ... and an operation what is left of it when its topic and key are cut.
LEMMA MeantOp ==
    ASSUME NEW op \in CacheOps
    PROVE  /\ encode_cache_op(op) \in Seq(Bytes)
           /\ decode_cache_op(encode_cache_op(op)).ok
           /\ decode_cache_op(encode_cache_op(op)).val = Meant(op)
  <1>1. /\ op \in [topic : Seq(Bytes), key : Seq(Bytes), value : Seq(Bytes),
                   op_id : Nat, node_id : Nat, tombstone : BOOLEAN]
        /\ op.op_id \div Power[7] < Byte /\ op.node_id < Power[4] /\ Len(op.value) < Power[4]
    BY CacheOpsAssumption, Zenon
  <1>2. PICK x : x = [topic |-> Kept(1, op.topic), key |-> Kept(2, op.key), value |-> op.value,
                      op_id |-> op.op_id, node_id |-> op.node_id, tombstone |-> op.tombstone]
    OBVIOUS
  <1>3. /\ encode_cache_op(op) \in Seq(Bytes) /\ decode_cache_op(encode_cache_op(op)).ok
        /\ decode_cache_op(encode_cache_op(op)).val = x
    BY <1>1, <1>2, EnvelopeRead, Zenon
  <1>4. ASSUME NEW s \in Seq(Bytes), NEW w \in 1 .. 2 PROVE Prefix(s, Power[w] - 1) = Kept(w, s)
    <2>1. PICK c \in Nat \ {0} : c = Power[w]
      <3>1. w \in 0 .. 7
        OBVIOUS
      <3> QED BY <3>1, PowerFacts
    <2>2. (IF Len(s) < c - 1 THEN Len(s) ELSE c - 1) = IF Len(s) < c THEN Len(s) ELSE c - 1
      OBVIOUS
    <2> QED BY <2>1, <2>2, Zenon DEF Prefix, Kept
  <1>5. Prefix(op.topic, Byte - 1) = Kept(1, op.topic) /\ Prefix(op.key, Power[2] - 1) = Kept(2, op.key)
    <2>1. 1 \in 1 .. 2 /\ 2 \in 1 .. 2 /\ Power[1] = Byte /\ op.topic \in Seq(Bytes) /\ op.key \in Seq(Bytes)
      BY <1>1, PowerFacts
    <2> QED BY <1>4, <2>1, Zenon
  <1>6. Meant(op) = x
    <2>1. Meant(op) = [op EXCEPT !.topic = Kept(1, op.topic), !.key = Kept(2, op.key)]
      <3>1. "op_id" \in DOMAIN op
        BY <1>1
      <3> QED BY <1>5, <3>1, Zenon DEF Meant
    <2>2. PICK kt, kk : kt = Kept(1, op.topic) /\ kk = Kept(2, op.key)
      OBVIOUS
    <2>3. op = [topic |-> op.topic, key |-> op.key, value |-> op.value, op_id |-> op.op_id,
                node_id |-> op.node_id, tombstone |-> op.tombstone]
      BY <1>1, Zenon
    <2>4. [op EXCEPT !.topic = kt, !.key = kk] =
             [topic |-> kt, key |-> kk, value |-> op.value, op_id |-> op.op_id,
              node_id |-> op.node_id, tombstone |-> op.tombstone]
      <3>1. PICK a, b, c, d, e, f :
               /\ a = op.topic /\ b = op.key /\ c = op.value /\ d = op.op_id /\ e = op.node_id
               /\ f = op.tombstone
        OBVIOUS
      <3>2. op = [topic |-> a, key |-> b, value |-> c, op_id |-> d, node_id |-> e, tombstone |-> f]
        BY <2>3, <3>1, Zenon
      <3>a. PICK y : y = [op EXCEPT !.topic = kt]
        OBVIOUS
      <3>b. y = [topic |-> kt, key |-> b, value |-> c, op_id |-> d, node_id |-> e, tombstone |-> f]
        BY <3>2, <3>a
      <3>c. [y EXCEPT !.key = kk] =
              [topic |-> kt, key |-> kk, value |-> c, op_id |-> d, node_id |-> e, tombstone |-> f]
        BY <3>b
      <3>3. [op EXCEPT !.topic = kt, !.key = kk] =
              [topic |-> kt, key |-> kk, value |-> c, op_id |-> d, node_id |-> e, tombstone |-> f]
        BY <3>a, <3>c, Zenon
      <3> QED BY <3>1, <3>3, Zenon
    <2> QED BY <1>2, <2>1, <2>2, <2>4, Zenon
  <1> QED BY <1>3, <1>6, Zenon

\* A frame that PCM makes of its samples is found again.
LEMMA FrameUnframed ==
    ASSUME NEW n \in Nat \ {0}, NEW ch \in Nat \ {0}
    PROVE  pcm_frame(n, ch) \in Nat /\ pcm_unframe(pcm_frame(n, ch), ch) = n
  <1>1. PICK a \in Nat \ {0} : a = ch * 4
    OBVIOUS
  <1>2. n * ch * 4 = n * a
    BY <1>1
  <1>3. n * a \in Nat /\ (n * a) % a = 0
    BY FramesWhole
  <1>4. (n * ch * 4) \div 4 = n * ch /\ (n * ch) \div ch = n
    <2>1. PICK b \in Nat : b = n * ch
      OBVIOUS
    <2>2. (b * 4) \div 4 = b
      OBVIOUS
    <2>3. (n * ch) \div ch = n
      OBVIOUS
    <2> QED BY <2>1, <2>2, <2>3
  <1> QED BY <1>1, <1>2, <1>3, <1>4 DEF pcm_frame, pcm_unframe

----------------------------------------------------------------------------
(* The way of a datagram *)

\* A datagram of audio: one frame of the codec, in as many bytes as QUIC takes.
AudioDatagram(tc, d) ==
    \E first, b : \E n \in Nat :
       LET m == Stretch(first, FrameSamples(tc))
           p == [frames |-> m, size |-> n]
       IN  /\ d = [meant |-> m, bytes |-> b]
           /\ Carries(b, Bytes \cup {p}, AudioAlias, <<p>>)
           /\ n <= MaxSendLength
           /\ tc.codec = "PCM"  => n = pcm_frame(FrameSamples(tc), tc.channels)
           /\ tc.codec = "Opus" => Encoder(tc).is_initialized

DataDatagram(d) ==
    \E op \in CacheOps : \E b :
       d = [meant |-> op, bytes |-> b] /\ Carries(b, Bytes, DataAlias, encode_cache_op(op))

\* The block is one frame of the codec, and its bytes fit encode_output_buffer.
BlockSound ==
    /\ pc \in {"encode", "send"} => \E first : block = Stretch(first, Frame(track))
    /\ pc = "send" =>
          /\ payload_bytes \in Nat /\ payload_bytes <= configure(track).encode_output_buffer
          /\ track.codec = "PCM"  => payload_bytes = pcm_frame(FrameSamples(track), track.channels)
          /\ track.codec = "Opus" => Encoder(track).is_initialized

InFlightSound == \A d \in inflight : AudioDatagram(track, d) \/ DataDatagram(d)

MediaInv ==
    /\ track \in Tracks /\ next_object_id \in Nat
    /\ BlockSound /\ InFlightSound /\ CopiesFit /\ HeardAsMeant

\* The session thread reads the encoder's frames, or those of the configuration.
LEMMA FrameSize == ASSUME track \in Tracks PROVE frame_size = Frame(track)
  BY Configured DEF frame_size, handle, Frame

\* A copy that fits, and sound as it was meant, are all that is asked for, before and
\* after a step.
LEMMA Enough ==
    /\ EveryCopyFits => CopiesFit
    /\ arrival.got = Meant(arrival.meant) => HeardAsMeant
    /\ EveryCopyFits' => CopiesFit'
    /\ arrival'.got = Meant(arrival'.meant) => HeardAsMeant'
  BY DEF CopiesFit, HeardAsMeant, HeardInEveryLayout

\* The server's extension leaves a datagram what it is.
LEMMA ExtendedSame ==
    ASSUME NEW T, Bytes \subseteq T, NEW buf, NEW alias \in 1 .. 2, NEW payload \in Seq(T),
           Carries(buf, T, alias, payload), Head(buf) = kDatagramTypePlain,
           NEW size, size = Len(buf) - Len(payload)
    PROVE  Carries(<<kDatagramTypeExtensions>> \o SubSeq(buf, 2, size) \o encode_varint(1) \o
                   Extension \o payload, T, alias, payload)
  <1>1. buf \in Seq(T)
    BY DEF Carries
  <1>2. PICK id, n \in Nat : \/ Plain(buf, alias, id, n, payload)
                             \/ Extended(buf, alias, id, n, payload)
    BY Zenon DEF Carries
  <1>3. ~Extended(buf, alias, id, n, payload)
    <2> SUFFICES ASSUME Extended(buf, alias, id, n, payload) PROVE FALSE
      OBVIOUS
    <2>1. Found(buf, 0, encode_varint(kDatagramTypeExtensions))
      BY Zenon DEF Extended, Header
    <2>2. encode_varint(kDatagramTypeExtensions) = <<1>>
      BY ExtensionFacts DEF kDatagramTypeExtensions
    <2>3. Len(<<1>>) = 1 /\ <<1>>[1] = 1
      OBVIOUS
    <2>4. buf[0 + 1] = 1
      <3>1. Found(buf, 0, <<1>>)
        BY <2>1, <2>2, Zenon
      <3>2. 1 \in 1 .. Len(<<1>>)
        BY <2>3
      <3>3. \A i \in 1 .. Len(<<1>>) : buf[0 + i] = <<1>>[i]
        BY <3>1, Zenon DEF Found
      <3>4. buf[0 + 1] = <<1>>[1]
        BY <3>2, <3>3, Zenon
      <3> QED BY <2>3, <3>4
    <2>5. Head(buf) = buf[1]
      BY <1>1
    <2> QED BY <2>4, <2>5 DEF kDatagramTypePlain
  <1>4. Plain(buf, alias, id, n, payload)
    BY <1>2, <1>3
  <1>5. n = size
    <2>1. Len(buf) = n + Len(payload)
      BY <1>4, Zenon DEF Plain
    <2>2. Len(payload) \in Nat
      OBVIOUS
    <2> QED BY <2>1, <2>2
  <1>6. Plain(buf, alias, id, size, payload)
    BY <1>4, <1>5
  <1> QED BY <1>1, <1>6, ExtensionBuilt

\* What reaches the other client: audio that fits the buffers that suit it, and is what was
\* sent unless an Opus frame is too long or in another layout.
LEMMA AudioHeard ==
    ASSUME track \in Tracks, NEW d, AudioDatagram(track, d), NEW dg,
           dg = parse_object_datagram(d.bytes)
    PROVE  /\ dg.val.track_alias = AudioAlias
           /\ DispatchAudio(d, dg.val.payload[1]) /\ track' = track => CopiesFit' /\ HeardAsMeant'
  <1>1. PICK tc \in Tracks : tc = track
    OBVIOUS
  <1>2. PICK first, b : \E n \in Nat :
           /\ d = [meant |-> Stretch(first, FrameSamples(tc)), bytes |-> b]
           /\ Carries(b, Bytes \cup {[frames |-> Stretch(first, FrameSamples(tc)), size |-> n]},
                      AudioAlias, <<[frames |-> Stretch(first, FrameSamples(tc)), size |-> n]>>)
           /\ n <= MaxSendLength
           /\ tc.codec = "PCM"  => n = pcm_frame(FrameSamples(tc), tc.channels)
           /\ tc.codec = "Opus" => Encoder(tc).is_initialized
    BY <1>1, Zenon DEF AudioDatagram
  <1>3. PICK n \in Nat :
           /\ d = [meant |-> Stretch(first, FrameSamples(tc)), bytes |-> b]
           /\ Carries(b, Bytes \cup {[frames |-> Stretch(first, FrameSamples(tc)), size |-> n]},
                      AudioAlias, <<[frames |-> Stretch(first, FrameSamples(tc)), size |-> n]>>)
           /\ n <= MaxSendLength
           /\ tc.codec = "PCM"  => n = pcm_frame(FrameSamples(tc), tc.channels)
           /\ tc.codec = "Opus" => Encoder(tc).is_initialized
    BY <1>2
  <1>4. PICK m, p : m = Stretch(first, FrameSamples(tc)) /\ p = [frames |-> m, size |-> n]
    OBVIOUS
  <1>5. d = [meant |-> m, bytes |-> b] /\ Carries(b, Bytes \cup {p}, AudioAlias, <<p>>)
    BY <1>3, <1>4, Zenon
  <1>6. d.meant = m /\ d.bytes = b /\ p.frames = m /\ p.size = n
        /\ m.first = first /\ m.count = FrameSamples(tc)
    BY <1>4, <1>5 DEF Stretch
  <1>7. dg.val.track_alias = AudioAlias /\ dg.val.payload = <<p>>
    <2>1. PICK T : T = Bytes \cup {p}
      OBVIOUS
    <2>2. Bytes \subseteq T /\ <<p>> \in Seq(T) /\ AudioAlias \in 1 .. 2
      BY <2>1 DEF AudioAlias
    <2>3. Carries(b, T, AudioAlias, <<p>>) /\ dg = parse_object_datagram(b)
      BY <1>5, <1>6, <2>1, Zenon
    <2> QED BY <2>2, <2>3, CarriedRead
  <1>8. dg.val.payload[1] = p
    BY <1>7
  <1>9. /\ tc.channels \in Nat \ {0} /\ FrameSamples(tc) \in Nat \ {0}
        /\ tc.codec \in {"Opus", "PCM"}
        /\ tc.codec = "Opus" /\ Encoder(tc).is_initialized => Decoder(tc).is_initialized
    BY TrackFacts
  <1>10. /\ handle.decoder = Decoder(tc) /\ handle.decode_buffer = 960 * tc.channels
         /\ frame_size = FrameSamples(tc)
    BY <1>1, <1>3, <1>9, Configured, FrameSize, TrackFacts DEF handle
  <1>m. Meant(m) = m /\ IsAudio(m)
    <2>1. IsAudio(m)
      BY <1>4 DEF IsAudio, Stretch
    <2> QED BY <1>4, <2>1, MeantStretch
  <1>11. ASSUME DispatchAudio(d, p), track' = track PROVE CopiesFit' /\ HeardAsMeant'
    <2>0. /\ track'.codec = tc.codec /\ track'.channels = tc.channels
          /\ frame_size' = FrameSamples(tc) /\ (SameLayout' <=> SameLayout)
      <3>1. frame_size' = frame_size
        BY <1>11 DEF frame_size, handle
      <3>2. SameLayout' <=> SameLayout
        BY <1>11 DEF SameLayout
      <3> QED BY <1>1, <1>10, <1>11, <3>1, <3>2
    <2>3. CASE tc.codec = "PCM"
      <3>0. PICK fr : fr = pcm_unframe(p.size, tc.channels)
        OBVIOUS
      <3>a. /\ copy' = IF fr > 0 THEN Copy(p.size, handle.decode_buffer * 4) ELSE Copy(0, 0)
            /\ arrival' = [meant |-> d.meant,
                           got |-> IF fr > 0 THEN Stretch(p.frames.first, fr) ELSE Nothing]
        <4>1. DispatchPcm(d, p)
          BY <1>1, <1>11, <2>3 DEF DispatchAudio
        <4> QED BY <1>1, <3>0, <4>1, Zenon DEF DispatchPcm
      <3>1. fr = FrameSamples(tc) /\ fr > 0
        <4>1. fr = pcm_unframe(n, tc.channels)
          BY <1>6, <3>0
        <4> QED BY <1>3, <1>9, <2>3, <4>1, FrameUnframed
      <3>2. copy' = Copy(n, (960 * tc.channels) * 4) /\ arrival' = [meant |-> m, got |-> m]
        BY <1>4, <1>6, <1>10, <3>a, <3>1
      <3>3. ASSUME BuffersSuit' PROVE n <= (960 * tc.channels) * 4
        <4>1. FrameSamples(tc) <= 960 \/ MaxSendLength <= 960 * tc.channels * 4
          BY <2>0, <2>3, <3>3 DEF BuffersSuit
        <4>2. CASE FrameSamples(tc) <= 960
          <5>1. FrameSamples(tc) * tc.channels <= 960 * tc.channels
            BY <1>9, <4>2, FloatsMonotone
          <5>2. PICK x \in Nat, y \in Nat :
                   x = FrameSamples(tc) * tc.channels /\ y = 960 * tc.channels
            BY <1>9
          <5>3. n = x * 4 /\ x <= y
            BY <1>3, <2>3, <5>1, <5>2 DEF pcm_frame
          <5> QED BY <5>2, <5>3
        <4>3. CASE MaxSendLength <= 960 * tc.channels * 4
          <5>1. MaxSendLength \in Nat
            BY TrackAssumption
          <5>2. PICK y \in Nat : y = 960 * tc.channels * 4
            BY <1>9
          <5> QED BY <1>3, <4>3, <5>1, <5>2
        <4> QED BY <4>1, <4>2, <4>3
      <3>4. CopiesFit'
        BY <3>2, <3>3 DEF CopiesFit, EveryCopyFits, Copy
      <3>5. HeardAsMeant'
        <4>1. arrival'.got = Meant(arrival'.meant)
          BY <1>m, <3>2, Zenon
        <4> QED BY <4>1, Enough
      <3> QED BY <3>4, <3>5
    <2>4. CASE tc.codec = "Opus"
      <3>0. handle.decode_buffer \div tc.channels = 960
        BY <1>9, <1>10
      <3>a. PICK fr \in decode(p.frames.count, handle.decode_buffer \div tc.channels) :
              /\ copy' = IF fr > 0 THEN Copy(fr * tc.channels, handle.decode_buffer) ELSE Copy(0, 0)
              /\ arrival' = [meant |-> d.meant,
                             got |-> IF fr > 0 THEN Decoded(p.frames.first, fr) ELSE Nothing]
        <4>1. DispatchOpus(d, p)
          BY <1>1, <1>11, <2>4 DEF DispatchAudio
        <4> QED BY <1>1, <4>1, Zenon DEF DispatchOpus
      <3>b. fr \in decode(FrameSamples(tc), 960)
        BY <1>6, <3>0, <3>a
      <3>c. /\ FrameSamples(tc) > 960 => fr = -1
            /\ FrameSamples(tc) <= 960 => fr \in {FrameSamples(tc), -1}
            /\ FrameSamples(tc) <= 960 /\ SameLayout => fr = FrameSamples(tc)
        BY <1>3, <1>9, <1>10, <2>4, <3>b DEF decode
      <3>1. CopiesFit'
        <4>1. CASE fr > 0
          <5>1. fr \in Nat /\ fr <= 960
            BY <1>9, <3>c, <4>1
          <5>2. fr * tc.channels <= 960 * tc.channels
            BY <1>9, <5>1, FloatsMonotone
          <5>3. copy' = Copy(fr * tc.channels, 960 * tc.channels)
            BY <1>10, <3>a, <4>1
          <5> QED BY <5>2, <5>3, Enough DEF EveryCopyFits, Copy
        <4>2. CASE ~(fr > 0)
          BY <3>a, <4>2, Enough DEF EveryCopyFits, Copy
        <4> QED BY <4>1, <4>2
      <3>2. CASE ~SameLayout
        <4>1. HeardAsMeant'
          <5>1. arrival'.meant = m
            BY <1>6, <3>a
          <5> QED BY <1>m, <2>0, <2>4, <3>2, <5>1, Zenon DEF HeardAsMeant
        <4> QED BY <3>1, <4>1
      <3>3. CASE SameLayout /\ FrameSamples(tc) <= 960
        <4>1. fr = FrameSamples(tc) /\ fr > 0
          BY <1>9, <3>3, <3>c
        <4>2. arrival' = [meant |-> m, got |-> m]
          BY <1>4, <1>6, <3>3, <3>a, <4>1, Zenon DEF Decoded
        <4>3. arrival'.got = Meant(arrival'.meant)
          BY <1>m, <4>2, Zenon
        <4> QED BY <3>1, <4>3, Enough
      <3>4. CASE FrameSamples(tc) > 960
        <4>1. ~(fr > 0)
          BY <3>4, <3>c
        <4>2. arrival'.got = Nothing /\ arrival'.meant = m
          BY <1>6, <3>a, <4>1
        <4>3. HeardInEveryLayout'
          BY <1>m, <2>0, <2>4, <3>4, <4>2, Zenon DEF HeardInEveryLayout
        <4> QED BY <3>1, <4>3 DEF HeardAsMeant
      <3> QED BY <1>9, <3>2, <3>3, <3>4
    <2> QED BY <1>9, <2>3, <2>4
  <1> QED BY <1>7, <1>8, <1>11, Zenon

\* ... and operations as they were meant.
LEMMA DataHeard ==
    ASSUME NEW d, DataDatagram(d), NEW dg, dg = parse_object_datagram(d.bytes)
    PROVE  /\ dg.val.track_alias = DataAlias
           /\ DispatchData(d, dg.val.payload) => CopiesFit' /\ HeardAsMeant'
  <1>1. PICK op \in CacheOps : \E b :
           d = [meant |-> op, bytes |-> b] /\ Carries(b, Bytes, DataAlias, encode_cache_op(op))
    BY DEF DataDatagram
  <1>2. PICK b : d = [meant |-> op, bytes |-> b] /\ Carries(b, Bytes, DataAlias, encode_cache_op(op))
    BY <1>1
  <1>3. d.meant = op /\ d.bytes = b
    BY <1>2
  <1>4. PICK y : y = encode_cache_op(op) /\ y \in Seq(Bytes)
    BY MeantOp
  <1>5. dg.val.track_alias = DataAlias /\ dg.val.payload = y
    <2>1. DataAlias \in 1 .. 2 /\ Bytes \subseteq Bytes
      BY DEF DataAlias
    <2>2. Carries(b, Bytes, DataAlias, y) /\ dg = parse_object_datagram(b)
      BY <1>2, <1>3, <1>4, Zenon
    <2> QED BY <1>4, <2>1, <2>2, CarriedRead, Zenon
  <1>6. ASSUME DispatchData(d, y) PROVE CopiesFit' /\ HeardAsMeant'
    <2>1. decode_cache_op(y).ok /\ decode_cache_op(y).val = Meant(op)
      BY <1>4, MeantOp, Zenon
    <2>2. arrival' = [meant |-> op, got |-> Meant(op)] /\ copy' = Copy(0, 0)
      BY <1>3, <1>6, <2>1, Zenon DEF DispatchData, NoCopy
    <2> QED BY <2>2, Enough DEF EveryCopyFits, Copy
  <1> QED BY <1>5, <1>6, Zenon

\* What SendFrame puts on its way ...
LEMMA FrameSent ==
    ASSUME track \in Tracks, NEW first, NEW n \in Nat, NEW id \in Nat, NEW header,
           header = build_object_datagram_header(AudioAlias, 0, id, Byte \div 2),
           NEW m, m = Stretch(first, FrameSamples(track)),
           Len(header) + n <= MaxSendLength,
           track.codec = "PCM"  => n = pcm_frame(FrameSamples(track), track.channels),
           track.codec = "Opus" => Encoder(track).is_initialized
    PROVE  AudioDatagram(track, [meant |-> m, bytes |-> Append(header, [frames |-> m, size |-> n])])
  <1>1. PICK p, T : p = [frames |-> m, size |-> n] /\ T = Bytes \cup {p}
    OBVIOUS
  <1>2. <<p>> \in Seq(T) /\ Bytes \subseteq T /\ AudioAlias \in 1 .. 2
    BY <1>1 DEF AudioAlias
  <1>3. PICK buf : buf = header \o <<p>>
    OBVIOUS
  <1>4. Built(header, T, AudioAlias, id, <<p>>)
    BY <1>2, HeaderBuilt, Zenon
  <1>5. /\ buf \in Seq(T) /\ Len(header) \in 1 .. 34
        /\ Plain(buf, AudioAlias, id, Len(header), <<p>>)
    BY <1>3, <1>4, Zenon DEF Built
  <1>6. Carries(buf, T, AudioAlias, <<p>>)
    <2>1. Len(header) \in Nat
      BY <1>5
    <2> QED BY <1>5, <2>1, Zenon DEF Carries
  <1>7. Append(header, p) = buf
    BY <1>3, AppendIsConcat
  <1>8. n <= MaxSendLength
    <2>1. MaxSendLength \in Nat
      BY TrackAssumption
    <2> QED BY <1>5, <2>1
  <1> QED BY <1>1, <1>6, <1>7, <1>8, Zenon DEF AudioDatagram

\* ... and what SendData does.
LEMMA OpSent ==
    ASSUME NEW op \in CacheOps
    PROVE  DataDatagram([meant |-> op, bytes |->
              build_object_datagram(DataAlias, 0, 0, Byte \div 2, encode_cache_op(op))])
  <1>1. PICK y : y = encode_cache_op(op) /\ y \in Seq(Bytes)
    BY MeantOp
  <1>2. PICK header, buf : /\ header = build_object_datagram_header(DataAlias, 0, 0, Byte \div 2)
                           /\ buf = header \o y
    OBVIOUS
  <1>3. DataAlias \in 1 .. 2 /\ Bytes \subseteq Bytes /\ 0 \in Nat
    BY DEF DataAlias
  <1>4. Built(header, Bytes, DataAlias, 0, y)
    BY <1>1, <1>2, <1>3, HeaderBuilt, Zenon
  <1>5. /\ buf \in Seq(Bytes) /\ Len(header) \in 1 .. 34
        /\ Plain(buf, DataAlias, 0, Len(header), y)
    BY <1>2, <1>4, Zenon DEF Built
  <1>6. Carries(buf, Bytes, DataAlias, y)
    <2>1. Len(header) \in Nat
      BY <1>5
    <2> QED BY <1>3, <1>5, <2>1, Zenon DEF Carries
  <1>7. build_object_datagram(DataAlias, 0, 0, Byte \div 2, y) = buf
    BY <1>2, Zenon DEF build_object_datagram
  <1> QED BY <1>1, <1>6, <1>7, Zenon DEF DataDatagram

\* The two aliases ...
LEMMA Aliases == AudioAlias \in 1 .. 2 /\ DataAlias \in 1 .. 2 /\ DataAlias # AudioAlias
  BY DEF AudioAlias, DataAlias

\* ... a payload of one symbol ...
LEMMA OneSymbol == \A p : Bytes \subseteq Bytes \cup {p} /\ <<p>> \in Seq(Bytes \cup {p})
  OBVIOUS

\* ... and a datagram with other bytes.
LEMMA OtherBytes ==
    \A m, b, x : [[meant |-> m, bytes |-> b] EXCEPT !.bytes = x] = [meant |-> m, bytes |-> x]
  OBVIOUS

\* The server's extension makes audio of audio and data of data.
LEMMA StillSound ==
    ASSUME NEW d, AudioDatagram(track, d) \/ DataDatagram(d), Head(d.bytes) = kDatagramTypePlain,
           NEW payload, payload = parse_object_datagram(d.bytes).val.payload,
           NEW size, size = Len(d.bytes) - Len(payload), NEW ext,
           ext = <<kDatagramTypeExtensions>> \o SubSeq(d.bytes, 2, size) \o encode_varint(1) \o
                 Extension \o payload
    PROVE  LET e == [d EXCEPT !.bytes = ext] IN AudioDatagram(track, e) \/ DataDatagram(e)
  <1>1. CASE AudioDatagram(track, d)
    <2>1. PICK first, b : \E n \in Nat :
           LET m == Stretch(first, FrameSamples(track))
               p == [frames |-> m, size |-> n]
           IN  /\ d = [meant |-> m, bytes |-> b]
               /\ Carries(b, Bytes \cup {p}, AudioAlias, <<p>>)
               /\ n <= MaxSendLength
               /\ track.codec = "PCM"  => n = pcm_frame(FrameSamples(track), track.channels)
               /\ track.codec = "Opus" => Encoder(track).is_initialized
      BY <1>1, Zenon DEF AudioDatagram
    <2>2. PICK n \in Nat :
           LET m == Stretch(first, FrameSamples(track))
               p == [frames |-> m, size |-> n]
           IN  /\ d = [meant |-> m, bytes |-> b]
               /\ Carries(b, Bytes \cup {p}, AudioAlias, <<p>>)
               /\ n <= MaxSendLength
               /\ track.codec = "PCM"  => n = pcm_frame(FrameSamples(track), track.channels)
               /\ track.codec = "Opus" => Encoder(track).is_initialized
      BY <2>1, Zenon
    <2>3. PICK m, p, T : /\ m = Stretch(first, FrameSamples(track)) /\ p = [frames |-> m, size |-> n]
                         /\ T = Bytes \cup {p}
      OBVIOUS
    <2>4. d = [meant |-> m, bytes |-> b] /\ Carries(b, T, AudioAlias, <<p>>)
      BY <2>2, <2>3, Zenon
    <2>5. d.bytes = b /\ [d EXCEPT !.bytes = ext] = [meant |-> m, bytes |-> ext]
      <3>1. d = [meant |-> m, bytes |-> b]
        BY <2>4
      <3>2. \A x : [[meant |-> m, bytes |-> b] EXCEPT !.bytes = x] = [meant |-> m, bytes |-> x]
        BY OtherBytes, Zenon
      <3> QED BY <3>1, <3>2, Zenon
    <2>6. Bytes \subseteq T /\ <<p>> \in Seq(T) /\ AudioAlias \in 1 .. 2
      BY <2>3, Aliases, OneSymbol, Zenon
    <2>7. payload = <<p>>
      <3>1. parse_object_datagram(b).val.payload = <<p>>
        BY <2>4, <2>6, CarriedRead
      <3> QED BY <2>5, <3>1
    <2>8. Carries(ext, T, AudioAlias, <<p>>)
      <3>1. /\ Carries(b, T, AudioAlias, <<p>>) /\ Head(b) = kDatagramTypePlain
            /\ size = Len(b) - Len(<<p>>)
            /\ ext = <<kDatagramTypeExtensions>> \o SubSeq(b, 2, size) \o encode_varint(1) \o
                     Extension \o <<p>>
        BY <2>4, <2>5, <2>7, Zenon
      <3> QED BY <2>6, <3>1, ExtendedSame, Zenon
    <2>9. AudioDatagram(track, [meant |-> m, bytes |-> ext])
      BY <2>2, <2>3, <2>8, Zenon DEF AudioDatagram
    <2> QED BY <2>5, <2>9, Zenon
  <1>2. CASE DataDatagram(d)
    <2>1. PICK op \in CacheOps : \E b :
           d = [meant |-> op, bytes |-> b] /\ Carries(b, Bytes, DataAlias, encode_cache_op(op))
      BY <1>2 DEF DataDatagram
    <2>2. PICK b : d = [meant |-> op, bytes |-> b]
                   /\ Carries(b, Bytes, DataAlias, encode_cache_op(op))
      BY <2>1
    <2>3. d.bytes = b /\ [d EXCEPT !.bytes = ext] = [meant |-> op, bytes |-> ext]
      <3>1. d = [meant |-> op, bytes |-> b]
        BY <2>2
      <3>2. \A x : [[meant |-> op, bytes |-> b] EXCEPT !.bytes = x] = [meant |-> op, bytes |-> x]
        BY OtherBytes, Zenon
      <3> QED BY <3>1, <3>2, Zenon
    <2>4. PICK y : y = encode_cache_op(op) /\ y \in Seq(Bytes)
      BY MeantOp
    <2>5. DataAlias \in 1 .. 2 /\ Bytes \subseteq Bytes
      BY Aliases, Zenon
    <2>6. payload = y
      <3>1. Carries(b, Bytes, DataAlias, y)
        BY <2>2, <2>4
      <3>2. parse_object_datagram(b).val.payload = y
        BY <2>4, <2>5, <3>1, CarriedRead
      <3> QED BY <2>3, <3>2
    <2>7. Carries(ext, Bytes, DataAlias, y)
      <3>1. /\ Carries(b, Bytes, DataAlias, y) /\ Head(b) = kDatagramTypePlain
            /\ size = Len(b) - Len(y)
            /\ ext = <<kDatagramTypeExtensions>> \o SubSeq(b, 2, size) \o encode_varint(1) \o
                     Extension \o y
        BY <2>2, <2>3, <2>4, <2>6, Zenon
      <3> QED BY <2>4, <2>5, <3>1, ExtendedSame, Zenon
    <2>8. DataDatagram([meant |-> op, bytes |-> ext])
      BY <2>4, <2>7, Zenon DEF DataDatagram
    <2> QED BY <2>3, <2>8, Zenon
  <1> QED BY <1>1, <1>2

\* The invariant holds before the first step ...
LEMMA MediaInit == Init => MediaInv
  <1> SUFFICES ASSUME Init PROVE MediaInv
    OBVIOUS
  <1>1. /\ track \in Tracks /\ pc = "idle" /\ next_object_id = 0 /\ inflight = {}
        /\ copy = FillMapping(track) /\ arrival = [meant |-> Nothing, got |-> Nothing]
    BY DEF Init
  <1>2. BlockSound /\ InFlightSound
    BY <1>1 DEF BlockSound, InFlightSound
  <1>4. CopiesFit
    BY <1>1 DEF CopiesFit, EveryCopyFits, BuffersSuit, FillMapping, Copy
  <1>3. HeardAsMeant
    <2>1. Meant(Nothing) = Nothing
      BY MeantStretch DEF Nothing
    <2> QED BY <1>1, <2>1, Enough
  <1> QED BY <1>1, <1>2, <1>3, <1>4 DEF MediaInv

\* ... and every step keeps it.
LEMMA MediaStep == MediaInv /\ [Next]_vars => MediaInv'
  <1> SUFFICES ASSUME MediaInv, [Next]_vars PROVE MediaInv'
    OBVIOUS
  <1>1. /\ track \in Tracks /\ next_object_id \in Nat
        /\ BlockSound /\ InFlightSound /\ CopiesFit /\ HeardAsMeant
    BY DEF MediaInv
  <1>2. frame_size = Frame(track)
    BY <1>1, FrameSize
  <1>3. NoCopy => CopiesFit'
    BY Enough DEF NoCopy, EveryCopyFits, Copy
  <1>4. NoArrival => HeardAsMeant'
    <2>1. Meant(Nothing) = Nothing
      BY MeantStretch DEF Nothing
    <2> QED BY <2>1, Enough DEF NoArrival
  \* A step that leaves the datagrams alone, and one that leaves the sender alone.
  <1>5. UNCHANGED <<track, inflight>> => InFlightSound'
    BY <1>1 DEF InFlightSound, AudioDatagram
  <1>6. UNCHANGED <<track, sender>> => BlockSound' /\ track' \in Tracks /\ next_object_id' \in Nat
    BY <1>1 DEF BlockSound, sender
  \* A datagram more.
  <1>7. ASSUME NEW d, NEW length, Send(length, d), track' = track,
               length <= MaxSendLength => AudioDatagram(track, d) \/ DataDatagram(d)
        PROVE  InFlightSound'
    <2>1. CASE UNCHANGED inflight
      BY <1>5, <1>7, <2>1
    <2>2. CASE length <= MaxSendLength /\ inflight' = inflight \cup {d}
      <3>1. ASSUME NEW e \in inflight' PROVE AudioDatagram(track, e) \/ DataDatagram(e)
        BY <1>1, <1>7, <2>2, <3>1 DEF InFlightSound
      <3> QED BY <1>7, <3>1 DEF InFlightSound, AudioDatagram
    <2> QED BY <1>7, <2>1, <2>2 DEF Send
  <1>8. CASE PollTrack
    <2>1. BlockSound'
      BY <1>8 DEF PollTrack, BlockSound
    <2> QED BY <1>1, <1>3, <1>4, <1>5, <1>8, <2>1 DEF PollTrack, MediaInv
  <1>9. CASE LeaveLoop
    <2>1. BlockSound'
      BY <1>9 DEF LeaveLoop, BlockSound
    <2> QED BY <1>1, <1>3, <1>4, <1>5, <1>9, <2>1 DEF LeaveLoop, MediaInv
  <1>10. CASE EncodeFails
    <2>1. BlockSound'
      BY <1>10 DEF EncodeFails, BlockSound
    <2> QED BY <1>1, <1>3, <1>4, <1>5, <1>10, <2>1 DEF EncodeFails, MediaInv
  <1>11. CASE ReadFrame
    <2>1. BlockSound'
      BY <1>2, <1>11 DEF ReadFrame, BlockSound
    <2>2. CopiesFit'
      <3>1. handle.pcm_read_buffer = FrameSamples(track) * track.channels
        BY <1>1, Configured DEF handle
      <3>2. ASSUME BuffersSuit'
            PROVE  frame_size * track.channels <= FrameSamples(track) * track.channels
        <4>1. track' = track /\ frame_size' = frame_size
          BY <1>11 DEF ReadFrame, frame_size, handle
        <4>2. /\ track.channels \in Nat /\ FrameSamples(track) \in Nat /\ Frame(track) \in Nat
              /\ track.codec = "PCM" => Frame(track) = FrameSamples(track)
              /\ track.codec \in {"Opus", "PCM"}
          BY <1>1, TrackFacts
        <4>3. frame_size <= FrameSamples(track)
          BY <1>2, <3>2, <4>1, <4>2 DEF BuffersSuit
        <4> QED BY <1>2, <4>2, <4>3, FloatsMonotone
      <3>3. copy' = Copy(frame_size * track.channels, FrameSamples(track) * track.channels)
        BY <1>11, <3>1 DEF ReadFrame
      <3> QED BY <3>2, <3>3 DEF CopiesFit, EveryCopyFits, Copy
    <2> QED BY <1>1, <1>4, <1>5, <1>11, <2>1, <2>2 DEF ReadFrame, MediaInv
  <1>12. ASSUME NEW bytes \in PacketSizes, EncodeOpus(bytes) PROVE MediaInv'
    <2>1. bytes \in Nat
      BY TrackAssumption
    <2>2. handle.encoder = Encoder(track) /\ handle = configure(track)
      BY <1>1, Configured DEF handle
    <2>3. BlockSound'
      BY <1>1, <1>12, <2>1, <2>2 DEF EncodeOpus, BlockSound
    <2>4. CopiesFit'
      BY <1>12, Enough DEF EncodeOpus, EveryCopyFits, Copy
    <2> QED BY <1>1, <1>4, <1>5, <1>12, <2>3, <2>4 DEF EncodeOpus, MediaInv
  <1>13. CASE FramePcm
    <2>1. block.count = FrameSamples(track) /\ track.codec = "PCM" /\ track' = track
      BY <1>1, <1>13, TrackFacts DEF FramePcm, BlockSound, Stretch
    <2>2. handle.encode_output_buffer = FrameSamples(track) * track.channels * 4
          /\ handle = configure(track)
      BY <1>1, <2>1, Configured DEF handle
    <2>3. PICK n \in Nat : n = pcm_frame(FrameSamples(track), track.channels)
                           /\ n = FrameSamples(track) * track.channels * 4
      BY <1>1, TrackFacts DEF pcm_frame
    <2>4. payload_bytes' = n /\ n <= handle.encode_output_buffer
          /\ copy' = Copy(n, handle.encode_output_buffer)
      BY <1>13, <2>1, <2>2, <2>3 DEF FramePcm
    <2>5. CopiesFit'
      BY <2>4, Enough DEF EveryCopyFits, Copy
    <2>6. BlockSound'
      BY <1>1, <1>13, <2>1, <2>2, <2>3, <2>4 DEF FramePcm, BlockSound
    <2> QED BY <1>1, <1>4, <1>5, <1>13, <2>5, <2>6 DEF FramePcm, MediaInv
  <1>14. CASE SendFrame
    <2>1. PICK header, length :
             /\ header = build_object_datagram_header(AudioAlias, 0, next_object_id, Byte \div 2)
             /\ length = Len(header) + payload_bytes
      OBVIOUS
    <2>2. /\ pc = "send" /\ pc' = "loop" /\ copy' = Copy(length, handle.datagram_buffer)
          /\ Send(length, [meant |-> block,
                           bytes |-> Append(header, [frames |-> block, size |-> payload_bytes])])
          /\ next_object_id' = next_object_id + 1 /\ NoArrival /\ track' = track
      BY <1>14, <2>1, Zenon DEF SendFrame
    <2>3. PICK first : block = Stretch(first, FrameSamples(track))
      <3>1. \E first : block = Stretch(first, Frame(track))
        BY <1>1, <2>2 DEF BlockSound
      <3>2. track.codec = "Opus" => Encoder(track).is_initialized
        BY <1>1, <2>2 DEF BlockSound
      <3> QED BY <1>1, <3>1, <3>2, TrackFacts
    <2>4. /\ payload_bytes \in Nat /\ payload_bytes <= configure(track).encode_output_buffer
          /\ track.codec = "PCM"  => payload_bytes = pcm_frame(FrameSamples(track), track.channels)
          /\ track.codec = "Opus" => Encoder(track).is_initialized
      BY <1>1, <2>2 DEF BlockSound
    <2>5. Len(header) \in 1 .. 34
      <3>1. AudioAlias \in 1 .. 2 /\ <<>> \in Seq(Bytes) /\ Bytes \subseteq Bytes
        BY DEF AudioAlias
      <3>2. Built(header, Bytes, AudioAlias, next_object_id, <<>>)
        BY <1>1, <2>1, <3>1, HeaderBuilt, Zenon
      <3> QED BY <3>2, Zenon DEF Built
    <2>6. CopiesFit'
      <3>1. /\ handle.datagram_buffer = 34 + configure(track).encode_output_buffer
            /\ configure(track).encode_output_buffer \in Nat
        BY <1>1, Configured DEF handle
      <3>2. length <= handle.datagram_buffer
        <4>1. PICK h \in 1 .. 34, n \in Nat, o \in Nat :
                 /\ h = Len(header) /\ n = payload_bytes
                 /\ o = configure(track).encode_output_buffer
          BY <2>4, <2>5, <3>1
        <4>2. length = h + n /\ n <= o /\ handle.datagram_buffer = 34 + o
          BY <2>1, <2>4, <3>1, <4>1, Zenon
        <4>3. h + n <= 34 + o
          BY <4>2
        <4> QED BY <4>2, <4>3, Zenon
      <3> QED BY <2>2, <3>2, Enough DEF EveryCopyFits, Copy
    <2>7. InFlightSound'
      <3>1. PICK d : d = [meant |-> block,
                          bytes |-> Append(header, [frames |-> block, size |-> payload_bytes])]
        OBVIOUS
      <3>2. ASSUME length <= MaxSendLength PROVE AudioDatagram(track, d)
        <4>1. Len(header) + payload_bytes <= MaxSendLength
          BY <2>1, <3>2, Zenon
        <4>2. PICK n \in Nat, id \in Nat, m \in {block} : n = payload_bytes /\ id = next_object_id /\ m = block
          BY <1>1, <2>4
        <4>3. /\ track \in Tracks /\ m = Stretch(first, FrameSamples(track))
              /\ header = build_object_datagram_header(AudioAlias, 0, id, Byte \div 2)
              /\ Len(header) + n <= MaxSendLength
              /\ track.codec = "PCM"  => n = pcm_frame(FrameSamples(track), track.channels)
              /\ track.codec = "Opus" => Encoder(track).is_initialized
          BY <1>1, <2>1, <2>3, <2>4, <4>1, <4>2, Zenon
        <4>4. AudioDatagram(track, [meant |-> m,
                                    bytes |-> Append(header, [frames |-> m, size |-> n])])
          BY <4>3, FrameSent
        <4> QED BY <3>1, <4>2, <4>4, Zenon
      <3> QED BY <1>7, <2>2, <3>1, <3>2, Zenon
    <2>8. BlockSound'
      BY <2>2 DEF BlockSound
    <2> QED BY <1>1, <1>4, <2>2, <2>6, <2>7, <2>8 DEF MediaInv
  <1>15. ASSUME NEW op \in CacheOps, SendData(op) PROVE MediaInv'
    <2>1. PICK dg : dg = build_object_datagram(DataAlias, 0, 0, Byte \div 2, encode_cache_op(op))
      OBVIOUS
    <2>2. /\ Send(Len(dg), [meant |-> op, bytes |-> dg]) /\ NoCopy /\ NoArrival
          /\ UNCHANGED <<track, sender>> /\ track' = track
      BY <1>15, <2>1, Zenon DEF SendData
    <2>3. DataDatagram([meant |-> op, bytes |-> dg])
      BY <2>1, OpSent, Zenon
    <2>4. InFlightSound'
      BY <1>7, <2>2, <2>3, Zenon
    <2> QED BY <1>3, <1>4, <1>6, <2>2, <2>4, Zenon DEF MediaInv
  <1>16. ASSUME NEW d \in inflight, ServerExtends(d) PROVE MediaInv'
    <2>1. PICK payload, size, ext :
             /\ payload = parse_object_datagram(d.bytes).val.payload
             /\ size = Len(d.bytes) - Len(payload)
             /\ ext = <<kDatagramTypeExtensions>> \o SubSeq(d.bytes, 2, size) \o
                      encode_varint(1) \o Extension \o payload
      OBVIOUS
    <2>2. PICK e : e = [d EXCEPT !.bytes = ext]
      OBVIOUS
    <2>3. /\ Head(d.bytes) = kDatagramTypePlain /\ inflight' = (inflight \ {d}) \cup {e}
          /\ NoCopy /\ NoArrival /\ UNCHANGED <<track, sender>> /\ track' = track
      BY <1>16, <2>1, <2>2, Zenon DEF ServerExtends, Extension
    <2>4. AudioDatagram(track, d) \/ DataDatagram(d)
      BY <1>1 DEF InFlightSound
    <2>5. AudioDatagram(track, e) \/ DataDatagram(e)
      BY <2>1, <2>2, <2>3, <2>4, StillSound, Zenon
    <2>6. InFlightSound'
      <3>1. ASSUME NEW x \in inflight' PROVE AudioDatagram(track, x) \/ DataDatagram(x)
        BY <1>1, <2>3, <2>5, <3>1 DEF InFlightSound
      <3> QED BY <2>3, <3>1 DEF InFlightSound, AudioDatagram
    <2> QED BY <1>3, <1>4, <1>6, <2>3, <2>6, Zenon DEF MediaInv
  <1>17. ASSUME NEW d \in inflight, OnDatagram(d) PROVE MediaInv'
    <2>1. PICK dg : dg = parse_object_datagram(d.bytes)
      OBVIOUS
    <2>2. /\ inflight' = inflight \ {d} /\ UNCHANGED <<track, sender>> /\ track' = track
          /\ IF dg.val.track_alias = AudioAlias THEN DispatchAudio(d, dg.val.payload[1])
             ELSE DispatchData(d, dg.val.payload)
      BY <1>17, <2>1, Zenon DEF OnDatagram
    <2>3. InFlightSound'
      <3>1. ASSUME NEW x \in inflight' PROVE AudioDatagram(track, x) \/ DataDatagram(x)
        BY <1>1, <2>2, <3>1 DEF InFlightSound
      <3> QED BY <2>2, <3>1 DEF InFlightSound, AudioDatagram
    <2>4. AudioDatagram(track, d) \/ DataDatagram(d)
      BY <1>1 DEF InFlightSound
    <2>5. CopiesFit' /\ HeardAsMeant'
      <3>1. CASE AudioDatagram(track, d)
        BY <1>1, <2>1, <2>2, <3>1, AudioHeard, Zenon
      <3>2. CASE DataDatagram(d)
        <4>1. DataAlias # AudioAlias
          BY DEF DataAlias, AudioAlias
        <4> QED BY <2>1, <2>2, <3>2, <4>1, DataHeard, Zenon
      <3> QED BY <2>4, <3>1, <3>2
    <2> QED BY <1>6, <2>2, <2>3, <2>5, Zenon DEF MediaInv
  <1>18. ASSUME NEW n \in BlockSizes, WriteAudio(n) PROVE MediaInv'
    <2>1. /\ NoCopy /\ NoArrival
          /\ UNCHANGED <<track, pc, block, payload_bytes, next_object_id, inflight>>
      BY <1>18, Zenon DEF WriteAudio
    <2>2. BlockSound'
      BY <1>1, <2>1 DEF BlockSound
    <2> QED BY <1>1, <1>3, <1>4, <1>5, <2>1, <2>2 DEF MediaInv
  <1>19. CASE UNCHANGED vars
    <2>1. CopiesFit' /\ HeardAsMeant'
      BY <1>1, <1>19 DEF vars, CopiesFit, EveryCopyFits, HeardAsMeant, HeardInEveryLayout,
                         BuffersSuit, SameLayout, frame_size, handle
    <2> QED BY <1>5, <1>6, <1>19, <2>1 DEF MediaInv, vars
  <1> QED
    BY <1>8, <1>9, <1>10, <1>11, <1>12, <1>13, <1>14, <1>15, <1>16, <1>17, <1>18, <1>19
    DEF Next, SessionThread, MsquicWorker

\* No copy is longer than its buffer on a track that BuffersSuit, for every rate, duration
\* and number of channels, every table of layouts, every length of a datagram and every
\* operation: MediaInv, whose part on the datagrams says what each of them carries, is
\* inductive.
THEOREM MediaCopiesFit == Spec => []CopiesFit
  <1>1. MediaInv => CopiesFit
    BY DEF MediaInv
  <1> QED BY <1>1, MediaInit, MediaStep, PTL DEF Spec

\* Whatever arrives is what was meant, extended by the server or not, on a track that
\* BuffersSuit: except Opus frames of more than 960 samples, which are lost, and Opus
\* audio in a layout that the decoder does not expect.
THEOREM MediaHeardAsMeant == Spec => []HeardAsMeant
  <1>1. MediaInv => HeardAsMeant
    BY DEF MediaInv
  <1> QED BY <1>1, MediaInit, MediaStep, PTL DEF Spec

=============================================================================
