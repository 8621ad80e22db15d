----------------------------- MODULE WireProofs -----------------------------
(***************************************************************************)
(* The wire format of moq_protocol.cpp: what the builders write, the       *)
(* parsers read back.  Numbers and strings first, wherever they stand in a *)
(* buffer; then values one after the other, control messages that are      *)
(* there as a whole or in part, namespaces, parameters sorted by their     *)
(* keys, and last the contents of the messages.  All of it for every size  *)
(* of a byte.                                                              *)
(***************************************************************************)
EXTENDS MoqMessages, SequenceTheorems, FiniteSetTheorems, WellFoundedInduction,
        TLAPS

----------------------------------------------------------------------------
(* Arithmetic *)

\* A remainder lies below its divisor: what a position becomes is a slot.
LEMMA ModRange == ASSUME NEW a \in Int, NEW c \in Nat \ {0} PROVE a % c \in 0..(c - 1)
  BY SMT

\* A position that has not reached the end of data_ is left as it is.
LEMMA ModSmall == ASSUME NEW c \in Nat \ {0}, NEW a \in 0..(c - 1) PROVE a % c = a
  BY SMT

\* The division the code writes as / and %.
LEMMA Division ==
    ASSUME NEW a \in Int, NEW c \in Nat \ {0}
    PROVE  a \div c \in Int /\ a = c * (a \div c) + (a % c)
  <1>1. a \div c \in Int
    BY SMT
  <1>2. a = c * (a \div c) + (a % c)
    BY SMT
  <1> QED BY <1>1, <1>2

\* Scaling from frames to floats keeps the order.
LEMMA FloatsMonotone ==
    ASSUME NEW a \in Int, NEW b \in Int, NEW c \in Nat, a <= b
    PROVE  a * c <= b * c
  BY SMT

\* Comparing a fill level in whole frames bounds the level in floats.
LEMMA FillBounds ==
    ASSUME NEW a \in Int, NEW c \in Nat \ {0}, NEW m \in Int
    PROVE  /\ a \div c > m => a > m * c
           /\ a \div c >= m => a >= m * c
           /\ a \div c < m => a < m * c
  <1>1. a \div c > m => a > m * c
    BY SMT
  <1>2. a \div c >= m => a >= m * c
    BY SMT
  <1>3. a \div c < m => a < m * c
    BY SMT
  <1> QED BY <1>1, <1>2, <1>3

\* A set of naturals that is not empty has a least element.
LEMMA LeastNatural ==
    ASSUME NEW T, T \subseteq Nat, T # {}
    PROVE  \E n \in T : \A m \in T : n <= m
<1> DEFINE R == OpToRel(<, Nat)
<1>1. IsWellFoundedOn(R, Nat)
  BY NatLessThanWellFounded, Zenon
<1>2. \A x, y \in Nat : y < x => <<y, x>> \in R
  BY Zenon DEF OpToRel
<1> HIDE DEF R
<1>3. \E x \in T : \A y \in T : ~ (<<y, x>> \in R)
  BY <1>1, WFMin
<1>4. PICK x \in T : \A y \in T : ~ (<<y, x>> \in R)
  BY <1>3
<1>5. ASSUME NEW y \in T PROVE x <= y
  <2>1. ~ (y < x)
    BY <1>2, <1>4
  <2> QED
    BY <2>1
<1> QED
  BY <1>5

----------------------------------------------------------------------------
(* Numbers *)

\* A byte has room for a varint's prefix and something beside it.
LEMMA ByteFacts ==
    Byte \in Nat /\ Byte >= 8 /\ Quarter \in Nat /\ Quarter >= 2 /\ Byte = 4 * Quarter
  BY ByteAssumption DEF Quarter

\* The weights of the bytes.
LEMMA PowerFacts ==
    /\ Power[0] = 1 /\ Power[1] = Byte
    /\ \A k \in 0 .. 7 : Power[k] \in Nat \ {0}
    /\ \A k \in 1 .. 7 : Power[k] = Byte * Power[k - 1]
  <1> DEFINE b2 == Byte * Byte  b3 == Byte * b2  b4 == Byte * b3  b5 == Byte * b4
             b6 == Byte * b5  b7 == Byte * b6
             f == [k \in 0 .. 7 |-> CASE k = 0 -> 1 [] k = 1 -> Byte [] k = 2 -> b2 [] k = 3 -> b3
                                      [] k = 4 -> b4 [] k = 5 -> b5 [] k = 6 -> b6 [] k = 7 -> b7]
  <1>1. \A a \in Nat \ {0} : Byte * a \in Nat \ {0}
    BY ByteFacts
  <1>2. \A k \in 0 .. 7 : f[k] = IF k = 0 THEN 1 ELSE Byte * f[k - 1]
    <2> HIDE DEF b2, b3, b4, b5, b6, b7
    <2>1. b2 = Byte * Byte /\ b3 = Byte * b2 /\ b4 = Byte * b3 /\ b5 = Byte * b4
          /\ b6 = Byte * b5 /\ b7 = Byte * b6 /\ Byte * 1 = Byte
      BY ByteFacts DEF b2, b3, b4, b5, b6, b7
    <2> QED BY <2>1
  <1>a. f = [k \in 0 .. 7 |-> f[k]]
    <2> HIDE DEF b2, b3, b4, b5, b6, b7
    <2> QED OBVIOUS
  <1> HIDE DEF f
  <1>3. f = [k \in 0 .. 7 |-> IF k = 0 THEN 1 ELSE Byte * f[k - 1]]
    BY <1>a, <1>2
  <1>4. \E g : g = [k \in 0 .. 7 |-> IF k = 0 THEN 1 ELSE Byte * g[k - 1]]
    BY <1>3
  <1>5. Power = [k \in 0 .. 7 |-> IF k = 0 THEN 1 ELSE Byte * Power[k - 1]]
    BY <1>4, Zenon DEF Power
  <1> HIDE DEF Power
  <1>6. Power[0] = 1 /\ \A k \in 1 .. 7 : Power[k] = Byte * Power[k - 1]
    BY <1>5
  <1>7. Power[1] = Byte
    BY <1>6, ByteFacts
  <1>8. Power[2] \in Nat \ {0} /\ Power[3] \in Nat \ {0} /\ Power[4] \in Nat \ {0}
    BY <1>1, <1>6, <1>7, ByteFacts
  <1>9. Power[5] \in Nat \ {0} /\ Power[6] \in Nat \ {0} /\ Power[7] \in Nat \ {0}
    BY <1>1, <1>6, <1>8
  <1> QED BY <1>6, <1>7, <1>8, <1>9, ByteFacts

\* Division of natural numbers.
LEMMA DivNat ==
    ASSUME NEW a \in Nat, NEW c \in Nat \ {0}
    PROVE  a \div c \in Nat /\ a % c \in 0 .. c - 1 /\ a = c * (a \div c) + (a % c)
  <1>1. a \div c \in Nat
    BY SMT
  <1> QED BY <1>1, Division, ModRange

\* Shifting twice.
LEMMA DivTwice ==
    ASSUME NEW v \in Nat, NEW a \in Nat \ {0}, NEW b \in Nat \ {0}
    PROVE  (v \div a) \div b = v \div (b * a)
  <1>1. PICK q, r : q = v \div a /\ r = v % a
    OBVIOUS
  <1>2. q \in Nat /\ r \in 0 .. a - 1 /\ v = a * q + r
    BY <1>1, DivNat
  <1>3. PICK p, t : p = q \div b /\ t = q % b
    OBVIOUS
  <1>4. p \in Nat /\ t \in 0 .. b - 1 /\ q = b * p + t
    BY <1>2, <1>3, DivNat
  <1>5. b * a \in Nat \ {0}
    OBVIOUS
  <1>6. PICK c : c = b * a
    OBVIOUS
  <1>7. v = c * p + (a * t + r)
    BY <1>2, <1>4, <1>6
  <1>8. a * t + r \in 0 .. c - 1
    <2>1. t + 1 <= b /\ t + 1 \in Int
      BY <1>4
    <2>2. (t + 1) * a <= b * a
      BY <2>1, <1>4, FloatsMonotone
    <2> QED BY <1>2, <1>4, <1>6, <2>2
  <1>9. v \div c = p
    BY <1>5, <1>6, <1>7, <1>8, <1>4
  <1> QED BY <1>1, <1>3, <1>6, <1>9

\* A number without its lowest bytes.
LEMMA Shifted == ASSUME NEW v \in Nat, NEW k \in 0 .. 7 PROVE v \div Power[k] \in Nat
  <1>1. PICK p \in Nat \ {0} : p = Power[k]
    BY PowerFacts
  <1> QED BY <1>1, DivNat

\* What a number is, from its higher bytes and one more.
LEMMA NextByte ==
    ASSUME NEW v \in Nat, NEW k \in 1 .. 7
    PROVE  /\ v \div Power[k] \in Nat /\ v \div Power[k - 1] \in Nat
           /\ v \div Power[k - 1] =
                 Byte * (v \div Power[k]) + ((v \div Power[k - 1]) % Byte)
  <1>1. Power[k] \in Nat \ {0} /\ Power[k - 1] \in Nat \ {0} /\ Power[k] = Byte * Power[k - 1]
    BY PowerFacts
  <1>2. v \div Power[k] \in Nat /\ v \div Power[k - 1] \in Nat
    <2>1. k \in 0 .. 7 /\ k - 1 \in 0 .. 7
      OBVIOUS
    <2> QED BY <2>1, Shifted, Zenon
  <1>3. (v \div Power[k - 1]) \div Byte = v \div Power[k]
    BY <1>1, DivTwice, ByteFacts
  <1>4. PICK a \in Nat : a = v \div Power[k - 1]
    BY <1>2
  <1>5. a = Byte * (a \div Byte) + (a % Byte)
    <2>1. Byte \in Nat \ {0}
      BY ByteFacts
    <2> QED BY <2>1, DivNat, Zenon
  <1> QED BY <1>2, <1>3, <1>4, <1>5

\* The bytes of a number.
LEMMA BigEndianIs ==
    ASSUME NEW v \in Nat, NEW n \in 1 .. 8
    PROVE  /\ BigEndian(v, n) \in Seq(Bytes) /\ Len(BigEndian(v, n)) = n
           /\ \A i \in 1 .. n : /\ BigEndian(v, n)[i] = (v \div Power[n - i]) % Byte
                                /\ BigEndian(v, n)[i] \in Bytes
  <1>1. ASSUME NEW i \in 1 .. n PROVE (v \div Power[n - i]) % Byte \in Bytes
    <2>1. PICK a \in Nat : a = v \div Power[n - i]
      <3>1. n - i \in 0 .. 7
        OBVIOUS
      <3> QED BY <3>1, Shifted
    <2>2. a % Byte \in Bytes
      BY ModRange, ByteFacts DEF Bytes
    <2> QED BY <2>1, <2>2
  <1>2. BigEndian(v, n) \in [1 .. n -> Bytes]
    BY <1>1, Zenon DEF BigEndian
  <1>3. \A i \in 1 .. n : BigEndian(v, n)[i] = (v \div Power[n - i]) % Byte
    BY Zenon DEF BigEndian
  <1> HIDE DEF BigEndian
  <1>4. BigEndian(v, n) \in Seq(Bytes) /\ Len(BigEndian(v, n)) = n
    BY <1>2
  <1> QED BY <1>1, <1>3, <1>4

\* The partial values of FromBigEndian(), by induction on the length.
Horner(s, n, f) == f = [i \in 0 .. n |-> IF i = 0 THEN 0 ELSE Byte * f[i - 1] + s[i]]

\* The recursive function that FromBigEndian() chooses exists.
LEMMA HornerExists == ASSUME NEW s, NEW n \in Nat PROVE \E f : Horner(s, n, f)
  <1> DEFINE Bad == {m \in Nat : ~ \E f : Horner(s, m, f)}
  <1> SUFFICES ASSUME Bad # {} PROVE FALSE
    OBVIOUS
  <1>1. PICK m \in Bad : \A k \in Bad : m <= k
    <2>1. Bad \subseteq Nat
      OBVIOUS
    <2> HIDE DEF Bad
    <2> QED BY <2>1, LeastNatural
  <1>2. m # 0
    <2>1. Horner(s, 0, [i \in 0 .. 0 |-> 0])
      BY DEF Horner
    <2> QED BY <1>1, <2>1
  <1>3. PICK f : Horner(s, m - 1, f)
    <2>1. m - 1 \in Nat /\ ~ (m <= m - 1)
      BY <1>2
    <2> QED BY <1>1, <2>1
  <1>4. PICK e : e = Byte * f[m - 1] + s[m]
    OBVIOUS
  <1>5. PICK g : g = [i \in 0 .. m |-> IF i = m THEN e ELSE f[i]]
    OBVIOUS
  <1>6. ASSUME NEW i \in 0 .. m PROVE g[i] = IF i = 0 THEN 0 ELSE Byte * g[i - 1] + s[i]
    BY <1>2, <1>3, <1>4, <1>5 DEF Horner
  <1>7. Horner(s, m, g)
    BY <1>5, <1>6 DEF Horner
  <1> QED BY <1>1, <1>7

\* FromBigEndian() goes from byte to byte.
LEMMA FromBigEndianIs ==
    ASSUME NEW s, Len(s) \in Nat
    PROVE  \E f : /\ FromBigEndian(s) = f[Len(s)] /\ f[0] = 0
                  /\ \A i \in 1 .. Len(s) : f[i] = Byte * f[i - 1] + s[i]
  <1>1. PICK f : f = CHOOSE g : Horner(s, Len(s), g)
    OBVIOUS
  <1>2. Horner(s, Len(s), f)
    BY <1>1, HornerExists
  <1>3. FromBigEndian(s) = f[Len(s)]
    BY <1>1, Zenon DEF FromBigEndian, Horner
  <1>4. f[0] = 0 /\ \A i \in 1 .. Len(s) : f[i] = Byte * f[i - 1] + s[i]
    BY <1>2 DEF Horner
  <1> QED BY <1>3, <1>4

\* What is written in n bytes is read back, if n bytes are enough.
LEMMA BigEndianRead ==
    ASSUME NEW v \in Nat, NEW n \in 1 .. 8, v \div Power[n - 1] < Byte
    PROVE  FromBigEndian(BigEndian(v, n)) = v
  <1>1. PICK s : s = BigEndian(v, n)
    OBVIOUS
  <1>2. Len(s) = n /\ \A i \in 1 .. n : s[i] = (v \div Power[n - i]) % Byte
    BY <1>1, BigEndianIs
  <1>3. PICK f : /\ FromBigEndian(s) = f[n] /\ f[0] = 0
                 /\ \A i \in 1 .. n : f[i] = Byte * f[i - 1] + s[i]
    <2>1. Len(s) \in Nat
      BY <1>2
    <2> QED BY <1>2, <2>1, FromBigEndianIs, Zenon
  <1> DEFINE Bad == {m \in 1 .. n : f[m] # v \div Power[n - m]}
  <1>4. Bad = {}
    <2> SUFFICES ASSUME Bad # {} PROVE FALSE
      OBVIOUS
    <2>1. PICK m \in Bad : \A k \in Bad : m <= k
      <3>1. Bad \subseteq Nat
        OBVIOUS
      <3> HIDE DEF Bad
      <3> QED BY <3>1, LeastNatural
    <2>2. CASE m = 1
      <3>1. PICK a \in Nat : a = v \div Power[n - 1]
        <4>1. n - 1 \in 0 .. 7
          OBVIOUS
        <4> QED BY <4>1, Shifted
      <3>2. (v \div Power[n - 1]) % Byte = v \div Power[n - 1]
        BY <3>1, ByteFacts, ModSmall
      <3>3. f[1] = Byte * 0 + s[1] /\ s[1] = v \div Power[n - 1]
        BY <1>2, <1>3, <3>2
      <3> QED BY <2>1, <2>2, <3>1, <3>3, ByteFacts
    <2>3. CASE m # 1
      <3>1. m - 1 \in 1 .. n /\ ~ (m <= m - 1) /\ n - (m - 1) \in 1 .. 7
            /\ (n - (m - 1)) - 1 = n - m
        BY <2>1, <2>3
      <3>2. f[m - 1] = v \div Power[n - (m - 1)]
        BY <2>1, <3>1
      <3>3. f[m] = Byte * (v \div Power[n - (m - 1)]) + ((v \div Power[n - m]) % Byte)
        BY <1>2, <1>3, <2>1, <3>2
      <3>4. v \div Power[n - m] =
              Byte * (v \div Power[n - (m - 1)]) + ((v \div Power[n - m]) % Byte)
        <4>1. PICK k \in 1 .. 7 : k = n - (m - 1) /\ k - 1 = n - m
          BY <3>1
        <4> QED BY <4>1, NextByte
      <3> QED BY <2>1, <3>3, <3>4
    <2> QED BY <2>2, <2>3
  <1>5. f[n] = v \div Power[0]
    <2>1. n \in 1 .. n /\ n - n = 0
      OBVIOUS
    <2> QED BY <1>4, <2>1
  <1>6. v \div 1 = v
    OBVIOUS
  <1> QED BY <1>1, <1>3, <1>5, <1>6, PowerFacts

----------------------------------------------------------------------------
(* Reading what was written *)

\* s stands in buf behind the offset at.
Found(buf, at, s) ==
    /\ at \in Nat /\ at + Len(s) <= Len(buf)
    /\ \A i \in 1 .. Len(s) : buf[at + i] = s[i]

\* Two pieces one after the other.
LEMMA Joined ==
    ASSUME NEW T, NEW s \in Seq(T), NEW t \in Seq(T), NEW u, u = s \o t
    PROVE  u \in Seq(T) /\ Len(u) = Len(s) + Len(t)
  OBVIOUS

\* A buffer stands in itself ...
LEMMA FoundWhole == ASSUME NEW T, NEW s \in Seq(T) PROVE Found(s, 0, s)
  BY DEF Found

\* ... what stands somewhere stands there piece by piece ...
LEMMA FoundParts ==
    ASSUME NEW T, NEW buf \in Seq(T), NEW s \in Seq(T), NEW t \in Seq(T), NEW at,
           Found(buf, at, s \o t)
    PROVE  Found(buf, at, s) /\ Found(buf, at + Len(s), t)
  <1>1. /\ Len(s) \in Nat /\ Len(t) \in Nat /\ Len(buf) \in Nat
        /\ Len(s \o t) = Len(s) + Len(t)
        /\ \A i \in 1 .. Len(s) + Len(t) :
              (s \o t)[i] = IF i <= Len(s) THEN s[i] ELSE t[i - Len(s)]
    BY ConcatProperties
  <1>2. at \in Nat /\ at + (Len(s) + Len(t)) <= Len(buf)
        /\ \A i \in 1 .. Len(s) + Len(t) : buf[at + i] = (s \o t)[i]
    BY <1>1 DEF Found
  <1>3. Found(buf, at, s)
    BY <1>1, <1>2 DEF Found
  <1>4. ASSUME NEW i \in 1 .. Len(t) PROVE buf[(at + Len(s)) + i] = t[i]
    <2>1. Len(s) + i \in 1 .. Len(s) + Len(t) /\ ~(Len(s) + i <= Len(s))
          /\ (Len(s) + i) - Len(s) = i /\ at + (Len(s) + i) = (at + Len(s)) + i
      BY <1>1, <1>2
    <2>2. (s \o t)[Len(s) + i] = t[i]
      BY <1>1, <2>1
    <2>3. buf[at + (Len(s) + i)] = (s \o t)[Len(s) + i]
      BY <1>2, <2>1, Zenon
    <2> QED BY <2>1, <2>2, <2>3
  <1> QED BY <1>1, <1>2, <1>3, <1>4 DEF Found

\* ... and is what is cut out of there.
LEMMA FoundSubSeq ==
    ASSUME NEW T, NEW buf \in Seq(T), NEW s \in Seq(T), NEW at, Found(buf, at, s)
    PROVE  SubSeq(buf, at + 1, at + Len(s)) = s
  <1>1. at \in Nat /\ Len(s) \in Nat /\ Len(buf) \in Nat /\ at + Len(s) <= Len(buf)
        /\ \A i \in 1 .. Len(s) : buf[at + i] = s[i]
    BY DEF Found
  <1>2. PICK m \in Int, n \in Int : m = at + 1 /\ n = at + Len(s)
    BY <1>1
  <1>3. \A i \in m .. n : buf[i] \in T
    BY <1>1, <1>2
  <1>4. PICK u : u = SubSeq(buf, m, n)
    OBVIOUS
  <1>5. /\ u \in Seq(T) /\ Len(u) = IF m <= n THEN n - m + 1 ELSE 0
        /\ \A i \in 1 .. n - m + 1 : u[i] = buf[m + i - 1]
    BY <1>3, <1>4, SubSeqProperties
  <1>6. Len(u) = Len(s)
    BY <1>1, <1>2, <1>5
  <1>7. ASSUME NEW i \in 1 .. Len(u) PROVE u[i] = s[i]
    <2>1. i \in 1 .. n - m + 1 /\ m + i - 1 = at + i /\ i \in 1 .. Len(s)
      BY <1>1, <1>2, <1>6
    <2>2. u[i] = buf[m + i - 1]
      BY <1>5, <2>1, Zenon
    <2> QED BY <1>1, <2>1, <2>2
  <1>8. u = s
    BY <1>5, <1>6, <1>7, SeqEqual
  <1> QED BY <1>2, <1>4, <1>8

\* A varint: the prefix tells its length, and the rest is the number.
LEMMA VarintIs ==
    ASSUME NEW v \in Nat
    PROVE  \E p \in 0 .. 3, n \in {1, 2, 4, 8} :
              /\ n = VarintSizes[1 + p]
              /\ encode_varint(v) \in Seq(Bytes) /\ Len(encode_varint(v)) = n
              /\ encode_varint(v)[1] \div Quarter = p
              /\ encode_varint(v)[1] % Quarter = BigEndian(v, n)[1] % Quarter
              /\ \A i \in 2 .. n : encode_varint(v)[i] = BigEndian(v, n)[i]
              /\ n # 8 => v < Quarter * Power[n - 1]
  <1>1. PICK n \in {1, 2, 4, 8} : n = varint_size(v) /\ (n # 8 => v < Quarter * Power[n - 1])
    <2>1. Power[0] = 1 /\ Quarter * 1 = Quarter
      BY PowerFacts, ByteFacts
    <2>2. 1 - 1 = 0 /\ 2 - 1 = 1 /\ 4 - 1 = 3
      OBVIOUS
    <2>3. v < Quarter => v < Quarter * Power[1 - 1]
      BY <2>1, <2>2
    <2> QED BY <2>2, <2>3 DEF varint_size
  <1>2. \E p \in 0 .. 3 : n = VarintSizes[p + 1]
    <2>1. /\ VarintSizes[0 + 1] = 1 /\ VarintSizes[1 + 1] = 2 /\ VarintSizes[2 + 1] = 4
          /\ VarintSizes[3 + 1] = 8
      BY DEF VarintSizes
    <2> QED BY <2>1
  <1>3. PICK p : p = CHOOSE x \in 0 .. 3 : n = VarintSizes[x + 1]
    OBVIOUS
  <1>4. p \in 0 .. 3 /\ n = VarintSizes[p + 1]
    BY <1>2, <1>3
  <1>5. PICK b : b = BigEndian(v, n)
    OBVIOUS
  <1>6. b \in Seq(Bytes) /\ Len(b) = n /\ b[1] \in Bytes
    <2>1. n \in 1 .. 8 /\ 1 \in 1 .. n
      OBVIOUS
    <2> QED BY <1>5, <2>1, BigEndianIs, Zenon
  <1>7. PICK e : e = p * Quarter + (b[1] % Quarter)
    OBVIOUS
  <1>8. encode_varint(v) = [b EXCEPT ![1] = e]
    BY <1>1, <1>3, <1>5, <1>7, Zenon DEF encode_varint
  <1>9. e \in Bytes /\ e \div Quarter = p /\ e % Quarter = b[1] % Quarter
    <2>1. PICK r \in 0 .. Quarter - 1 : r = b[1] % Quarter
      <3>1. b[1] \in Int /\ Quarter \in Nat \ {0}
        BY <1>6, ByteFacts DEF Bytes
      <3> QED BY <3>1, ModRange, Zenon
    <2>2. e = p * Quarter + r
      BY <1>7, <2>1
    <2>3. p * Quarter \in 0 .. 3 * Quarter
      BY <1>4, ByteFacts
    <2>4. e \in Bytes
      BY <2>2, <2>3, ByteFacts DEF Bytes
    <2>5. e \div Quarter = p
      BY <1>4, <2>2, ByteFacts
    <2>6. e % Quarter = r
      BY <1>4, <2>2, ByteFacts
    <2> QED BY <2>1, <2>4, <2>5, <2>6
  <1>10. /\ encode_varint(v) \in Seq(Bytes) /\ Len(encode_varint(v)) = n
         /\ \A i \in 1 .. n : encode_varint(v)[i] = IF i = 1 THEN e ELSE b[i]
    <2>1. 1 \in 1 .. Len(b)
      BY <1>6
    <2>2. /\ [b EXCEPT ![1] = e] \in Seq(Bytes) /\ Len([b EXCEPT ![1] = e]) = Len(b)
          /\ \A i \in 1 .. Len(b) : [b EXCEPT ![1] = e][i] = IF i = 1 THEN e ELSE b[i]
      BY <1>6, <1>9, <2>1, ExceptSeq
    <2> QED BY <1>6, <1>8, <2>2
  <1>11. p + 1 = 1 + p /\ 1 \in 1 .. n /\ \A i \in 2 .. n : i \in 1 .. n /\ i # 1
    BY <1>4
  <1>12. encode_varint(v)[1] = e /\ \A i \in 2 .. n : encode_varint(v)[i] = b[i]
    BY <1>10, <1>11, Zenon
  <1>13. /\ n = VarintSizes[1 + p]
         /\ encode_varint(v) \in Seq(Bytes) /\ Len(encode_varint(v)) = n
         /\ encode_varint(v)[1] \div Quarter = p
         /\ encode_varint(v)[1] % Quarter = BigEndian(v, n)[1] % Quarter
         /\ \A i \in 2 .. n : encode_varint(v)[i] = BigEndian(v, n)[i]
    BY <1>4, <1>5, <1>9, <1>10, <1>11, <1>12, Zenon
  <1> QED BY <1>1, <1>4, <1>13, Zenon

\* What is written for a number, whatever its size.
LEMMA VarintBytes ==
    \A v \in Nat : encode_varint(v) \in Seq(Bytes) /\ Len(encode_varint(v)) \in 1 .. 8
  <1> SUFFICES ASSUME NEW v \in Nat
               PROVE  encode_varint(v) \in Seq(Bytes) /\ Len(encode_varint(v)) \in 1 .. 8
    OBVIOUS
  <1>1. PICK n \in {1, 2, 4, 8} : encode_varint(v) \in Seq(Bytes) /\ Len(encode_varint(v)) = n
    BY VarintIs
  <1> QED BY <1>1

\* The parts of a successful read.
LEMMA ReadIs == \A v, at : Read(v, at).ok /\ Read(v, at).val = v /\ Read(v, at).at = at
  BY DEF Read

\* A varint that stands in a buffer is read to its end, and a number of less than 62 bits
\* comes out as it was.
THEOREM VarintRead ==
    ASSUME NEW T, Bytes \subseteq T, NEW buf \in Seq(T), NEW at, NEW v \in Nat,
           Found(buf, at, encode_varint(v))
    PROVE  \E w : /\ decode_varint(buf, at) = Read(w, at + Len(encode_varint(v)))
                  /\ v \div Power[7] < Quarter => w = v
  <1>1. PICK p \in 0 .. 3, n \in {1, 2, 4, 8} :
            /\ n = VarintSizes[1 + p]
            /\ encode_varint(v) \in Seq(Bytes) /\ Len(encode_varint(v)) = n
            /\ encode_varint(v)[1] \div Quarter = p
            /\ encode_varint(v)[1] % Quarter = BigEndian(v, n)[1] % Quarter
            /\ \A i \in 2 .. n : encode_varint(v)[i] = BigEndian(v, n)[i]
            /\ n # 8 => v < Quarter * Power[n - 1]
    BY VarintIs
  <1>2. PICK e, b : e = encode_varint(v) /\ b = BigEndian(v, n)
    OBVIOUS
  <1>3. at \in Nat /\ Len(buf) \in Nat /\ at + n <= Len(buf) /\ \A i \in 1 .. n : buf[at + i] = e[i]
    BY <1>1, <1>2 DEF Found
  <1>4. /\ buf[at + 1] = e[1] /\ buf[at + 1] \div Quarter = p
        /\ buf[at + 1] % Quarter = b[1] % Quarter
    <2>1. 1 \in 1 .. n
      OBVIOUS
    <2>2. buf[at + 1] = e[1]
      BY <1>3, <2>1, Zenon
    <2> QED BY <1>1, <1>2, <2>2, Zenon
  <1>5. PICK s : s = <<buf[at + 1] % Quarter>> \o SubSeq(buf, at + 2, at + n)
    OBVIOUS
  <1>6. decode_varint(buf, at) = Read(FromBigEndian(s), at + n)
    <2>1. ~(Len(buf) - at < 1) /\ ~(Len(buf) - at < n)
      BY <1>3
    <2>2. VarintSizes[1 + buf[at + 1] \div Quarter] = n
      BY <1>1, <1>4
    <2> QED BY <1>5, <2>1, <2>2, Zenon DEF decode_varint
  <1>7. ASSUME v \div Power[7] < Quarter PROVE FromBigEndian(s) = v
    <2>1. b \in Seq(Bytes) /\ Len(b) = n /\ b[1] = (v \div Power[n - 1]) % Byte
      <3>1. n \in 1 .. 8 /\ 1 \in 1 .. n
        OBVIOUS
      <3> QED BY <1>2, <3>1, BigEndianIs, Zenon
    <2>2. PICK a \in Nat : a = v \div Power[n - 1]
      <3>1. n - 1 \in 0 .. 7
        OBVIOUS
      <3> QED BY <3>1, Shifted, Zenon
    <2>3. a < Quarter
      <3>1. CASE n = 8
        BY <1>7, <2>2, <3>1
      <3>2. CASE n # 8
        <4>1. PICK c \in Nat \ {0} : c = Power[n - 1]
          <5>1. n - 1 \in 0 .. 7
            OBVIOUS
          <5> QED BY <5>1, PowerFacts, Zenon
        <4>2. v < Quarter * c /\ a = v \div c
          BY <1>1, <2>2, <3>2, <4>1
        <4>3. a >= Quarter => v >= Quarter * c
          BY <4>2, FillBounds, ByteFacts
        <4> QED BY <4>2, <4>3, ByteFacts
      <3> QED BY <3>1, <3>2
    <2>4. b[1] = a /\ a % Quarter = a /\ a \in Bytes /\ a < Byte
      <3>1. a \in 0 .. Quarter - 1 /\ a \in 0 .. Byte - 1 /\ a < Byte
        BY <2>3, ByteFacts
      <3>2. Quarter \in Nat \ {0} /\ Byte \in Nat \ {0}
        BY ByteFacts
      <3>3. a % Quarter = a /\ a % Byte = a
        BY <3>1, <3>2, ModSmall, Zenon
      <3> QED BY <2>1, <2>2, <3>1, <3>3, Zenon DEF Bytes
    <2>5. s = b
      <3>1. PICK m \in Int, l \in Int : m = at + 2 /\ l = at + n
        BY <1>3
      <3>2. \A i \in m .. l : buf[i] \in T
        BY <1>3, <3>1
      <3>3. PICK u : u = SubSeq(buf, m, l)
        OBVIOUS
      <3>4. /\ u \in Seq(T) /\ Len(u) = IF m <= l THEN l - m + 1 ELSE 0
            /\ \A i \in 1 .. l - m + 1 : u[i] = buf[m + i - 1]
        BY <3>2, <3>3, SubSeqProperties
      <3>5. Len(u) = n - 1 /\ \A i \in 1 .. n - 1 : u[i] = buf[at + (i + 1)]
        <4>1. Len(u) = n - 1 /\ l - m + 1 = n - 1
          BY <1>3, <3>1, <3>4
        <4>2. \A i \in 1 .. n - 1 : m + i - 1 = at + (i + 1)
          BY <1>3, <3>1
        <4> QED BY <3>4, <4>1, <4>2, Zenon
      <3>6. <<a>> \in Seq(T) /\ Len(<<a>>) = 1 /\ <<a>>[1] = a
        BY <2>4
      <3>7. s = <<a>> \o u
        BY <1>4, <1>5, <2>4, <3>1, <3>3
      <3>8. /\ s \in Seq(T) /\ Len(s) = 1 + (n - 1)
            /\ \A i \in 1 .. 1 + (n - 1) : s[i] = IF i <= 1 THEN <<a>>[i] ELSE u[i - 1]
        BY <3>4, <3>5, <3>6, <3>7, ConcatProperties
      <3>9. ASSUME NEW i \in 1 .. n PROVE s[i] = b[i]
        <4>1. CASE i = 1
          BY <2>4, <3>6, <3>8, <4>1
        <4>2. CASE i # 1
          <5>1. i - 1 \in 1 .. n - 1 /\ i \in 2 .. n /\ i \in 1 .. 1 + (n - 1) /\ ~(i <= 1)
                /\ (i - 1) + 1 = i
            BY <4>2
          <5>2. s[i] = u[i - 1]
            BY <3>8, <5>1, Zenon
          <5>3. u[i - 1] = buf[at + ((i - 1) + 1)]
            BY <3>5, <5>1, Zenon
          <5>4. buf[at + i] = e[i] /\ e[i] = b[i]
            BY <1>1, <1>2, <1>3, <5>1
          <5> QED BY <5>1, <5>2, <5>3, <5>4
        <4> QED BY <4>1, <4>2
      <3>10. b \in Seq(T) /\ Len(s) = Len(b) /\ 1 .. Len(s) = 1 .. n
        BY <2>1, <3>8, SeqMonotonic
      <3> QED BY <3>8, <3>9, <3>10, SeqEqual
    <2>6. n \in 1 .. 8
      OBVIOUS
    <2> QED BY <1>2, <2>2, <2>4, <2>5, <2>6, BigEndianRead
  <1> QED BY <1>1, <1>6, <1>7

\* A string comes out as it was, if its length can be said.
LEMMA StringRead ==
    ASSUME NEW T, Bytes \subseteq T, NEW buf \in Seq(T), NEW at, NEW s \in Seq(T),
           Len(s) \div Power[7] < Quarter, Found(buf, at, append_string_bytes(s))
    PROVE  read_string(buf, at) = Read(s, at + Len(append_string_bytes(s)))
  <1>1. PICK e : e = encode_varint(Len(s))
    OBVIOUS
  <1>2. e \in Seq(T) /\ Len(e) \in Nat
    <2>1. e \in Seq(Bytes)
      BY <1>1, VarintIs
    <2> QED BY <2>1, SeqMonotonic
  <1>3. append_string_bytes(s) = e \o s
    BY <1>1 DEF append_string_bytes
  <1>4. Len(e \o s) = Len(e) + Len(s)
    BY <1>2
  <1>5. Found(buf, at, e) /\ Found(buf, at + Len(e), s)
    BY <1>2, <1>3, FoundParts
  <1>6. decode_varint(buf, at) = Read(Len(s), at + Len(e))
    BY <1>1, <1>5, VarintRead
  <1>7. PICK m : m = at + Len(e)
    OBVIOUS
  <1>8. m \in Nat /\ ~(m + Len(s) > Len(buf)) /\ m + Len(s) = at + Len(e \o s)
    BY <1>2, <1>4, <1>5, <1>7 DEF Found
  <1>9. SubSeq(buf, m + 1, m + Len(s)) = s
    BY <1>5, <1>7, FoundSubSeq
  <1>10. read_string(buf, at) = Read(s, m + Len(s))
    <2>1. PICK r : r = decode_varint(buf, at)
      OBVIOUS
    <2>2. r.ok /\ r.val = Len(s) /\ r.at = m
      BY <1>6, <1>7, <2>1, ReadIs
    <2> QED BY <1>8, <1>9, <2>1, <2>2, Zenon DEF read_string, Then
  <1> QED BY <1>3, <1>8, <1>10

\* A number that n bytes can hold.
LEMMA BelowPower ==
    ASSUME NEW v \in Nat, NEW n \in 1 .. 7, v < Power[n]
    PROVE  v \div Power[n - 1] < Byte
  <1>1. n - 1 \in 0 .. 7
    OBVIOUS
  <1>2. PICK c \in Nat \ {0} : c = Power[n - 1] /\ Power[n] = Byte * c
    BY <1>1, PowerFacts, Zenon
  <1>3. v \in Int /\ Byte \in Int
    BY ByteFacts
  <1>4. v \div c >= Byte => v >= Byte * c
    BY <1>3, FillBounds, Zenon
  <1>5. v \div c \in Nat
    BY DivNat, Zenon
  <1> QED BY <1>2, <1>3, <1>4, <1>5

\* A number below Quarter is its own varint.
LEMMA SmallVarint == ASSUME NEW v \in Nat, v < Quarter PROVE encode_varint(v) = <<v>>
  <1>1. varint_size(v) = 1
    BY DEF varint_size
  <1>2. /\ VarintSizes[0 + 1] = 1 /\ VarintSizes[1 + 1] = 2 /\ VarintSizes[2 + 1] = 4
        /\ VarintSizes[3 + 1] = 8
    BY DEF VarintSizes
  <1>3. PICK p : p = CHOOSE x \in 0 .. 3 : 1 = VarintSizes[x + 1]
    OBVIOUS
  <1>4. p = 0
    <2>1. \E x \in 0 .. 3 : 1 = VarintSizes[x + 1]
      BY <1>2
    <2>2. p \in 0 .. 3 /\ 1 = VarintSizes[p + 1]
      BY <1>3, <2>1
    <2> QED BY <1>2, <2>2
  <1>5. PICK b : b = BigEndian(v, 1)
    OBVIOUS
  <1>6. b = <<v>>
    <2>1. 1 \in 1 .. 8 /\ 1 \in 1 .. 1 /\ 1 - 1 = 0
      OBVIOUS
    <2>2. b \in Seq(Bytes) /\ Len(b) = 1 /\ b[1] = (v \div Power[0]) % Byte
      BY <1>5, <2>1, BigEndianIs
    <2>3. (v \div Power[0]) % Byte = v
      <3>1. v \in 0 .. Byte - 1 /\ v \div 1 = v /\ Byte \in Nat \ {0}
        BY ByteFacts
      <3> QED BY <3>1, PowerFacts, ModSmall
    <2>4. <<v>> \in Seq(Bytes) /\ Len(<<v>>) = 1 /\ <<v>>[1] = v
      BY ByteFacts DEF Bytes
    <2>5. \A i \in 1 .. Len(b) : b[i] = <<v>>[i]
      BY <2>2, <2>3, <2>4
    <2> QED BY <2>2, <2>4, <2>5, SeqEqual
  <1>7. encode_varint(v) = [b EXCEPT ![1] = p * Quarter + (b[1] % Quarter)]
    BY <1>1, <1>3, <1>5, Zenon DEF encode_varint
  <1>8. p * Quarter + (b[1] % Quarter) = v
    <2>1. v \in 0 .. Quarter - 1 /\ Quarter \in Nat \ {0} /\ b[1] = v
      BY <1>6, ByteFacts
    <2>2. b[1] % Quarter = v
      BY <2>1, ModSmall
    <2> QED BY <1>4, <2>1, <2>2
  <1> QED BY <1>6, <1>7, <1>8

\* Numbers as small as the aliases and lengths here can be said by a varint.
LEMMA SmallNumber == ASSUME NEW v \in 0 .. 7 PROVE v \div Power[7] < Quarter
  <1>1. PICK c \in Nat \ {0} : c = Power[7] /\ c >= 8
    <2>1. 7 \in 1 .. 7 /\ 6 \in 0 .. 7 /\ 7 - 1 = 6 /\ 7 \in 0 .. 7
      OBVIOUS
    <2>2. PICK d \in Nat \ {0} : d = Power[6] /\ Power[7] = Byte * d
      BY <2>1, PowerFacts
    <2>3. Byte * d >= 8
      BY ByteFacts
    <2> QED BY <2>1, <2>2, <2>3, PowerFacts
  <1>2. v \div c = 0
    BY <1>1
  <1> QED BY <1>1, <1>2, ByteFacts

----------------------------------------------------------------------------
(* Recursion *)

\* Two functions that start alike and go on alike end alike.
LEMMA Recursion ==
    ASSUME NEW n \in Nat, NEW f, NEW g, f[0] = g[0],
           \A i \in 1 .. n : f[i - 1] = g[i - 1] => f[i] = g[i]
    PROVE  f[n] = g[n]
  <1> DEFINE Bad == {m \in 0 .. n : f[m] # g[m]}
  <1>1. Bad = {}
    <2> SUFFICES ASSUME Bad # {} PROVE FALSE
      OBVIOUS
    <2>1. PICK m \in Bad : \A k \in Bad : m <= k
      <3>1. Bad \subseteq Nat
        OBVIOUS
      <3> HIDE DEF Bad
      <3> QED BY <3>1, LeastNatural
    <2>2. m # 0
      BY <2>1
    <2>3. m \in 1 .. n /\ m - 1 \in 0 .. n /\ ~(m <= m - 1)
      BY <2>1, <2>2
    <2>4. f[m - 1] = g[m - 1]
      BY <2>1, <2>3
    <2> QED BY <2>1, <2>3, <2>4
  <1>2. n \in 0 .. n
    OBVIOUS
  <1> QED BY <1>1, <1>2

\* A sequence grows by its next element.
LEMMA Grows ==
    ASSUME NEW T, NEW s \in Seq(T), NEW i \in 1 .. Len(s)
    PROVE  /\ Append(SubSeq(s, 1, i - 1), s[i]) = SubSeq(s, 1, i)
           /\ Len(SubSeq(s, 1, i - 1)) = i - 1
           /\ i > 1 => SubSeq(s, 1, i - 1)[i - 1] = s[i - 1]
  <1>0. PICK e \in T : e = s[i]
    OBVIOUS
  <1>1. \A j \in 1 .. i : s[j] \in T
    OBVIOUS
  <1>2. PICK u, w : u = SubSeq(s, 1, i - 1) /\ w = SubSeq(s, 1, i)
    OBVIOUS
  <1>3. u \in Seq(T) /\ Len(u) = i - 1 /\ \A j \in 1 .. i - 1 : u[j] = s[j]
    <2>1. \A j \in 1 .. i - 1 : s[j] \in T
      BY <1>1
    <2>2. /\ u \in Seq(T) /\ Len(u) = IF 1 <= i - 1 THEN (i - 1) - 1 + 1 ELSE 0
          /\ \A j \in 1 .. (i - 1) - 1 + 1 : u[j] = s[1 + j - 1]
      BY <1>2, <2>1, SubSeqProperties
    <2> QED BY <2>2
  <1>4. w \in Seq(T) /\ Len(w) = i /\ \A j \in 1 .. i : w[j] = s[j]
    <2>2. /\ w \in Seq(T) /\ Len(w) = IF 1 <= i THEN i - 1 + 1 ELSE 0
          /\ \A j \in 1 .. i - 1 + 1 : w[j] = s[1 + j - 1]
      BY <1>1, <1>2, SubSeqProperties
    <2> QED BY <2>2
  <1>5. PICK a : a = Append(u, s[i])
    OBVIOUS
  <1>6. /\ a \in Seq(T) /\ Len(a) = Len(u) + 1 /\ a[Len(u) + 1] = e
        /\ \A j \in 1 .. Len(u) : a[j] = u[j]
    BY <1>0, <1>3, <1>5, AppendProperties
  <1>7. \A j \in 1 .. Len(a) : a[j] = w[j]
    BY <1>0, <1>3, <1>4, <1>6
  <1>8. a = w
    BY <1>3, <1>4, <1>6, <1>7, SeqEqual
  <1>9. i > 1 => u[i - 1] = s[i - 1]
    BY <1>3
  <1> QED BY <1>2, <1>3, <1>5, <1>8, <1>9

\* What has been read after i of n values.
Progress(vals, pos, i) == Read(SubSeq(vals, 1, i), pos[i])

\* Reads that go on with the next value end with all of them.
LEMMA AllRead ==
    ASSUME NEW V, NEW vals \in Seq(V), NEW pos, NEW r, r[0] = Progress(vals, pos, 0),
           \A i \in 1 .. Len(vals) :
              r[i - 1] = Progress(vals, pos, i - 1) => r[i] = Progress(vals, pos, i)
    PROVE  r[Len(vals)] = Read(vals, pos[Len(vals)])
  <1>1. PICK n \in Nat : n = Len(vals)
    OBVIOUS
  <1>2. PICK g : g = [i \in 0 .. n |-> Progress(vals, pos, i)]
    OBVIOUS
  <1>3. \A i \in 0 .. n : g[i] = Progress(vals, pos, i)
    BY <1>2, Zenon
  <1>4. ASSUME NEW i \in 1 .. n, r[i - 1] = g[i - 1] PROVE r[i] = g[i]
    <2>1. i \in 0 .. n /\ i - 1 \in 0 .. n
      OBVIOUS
    <2> QED BY <1>1, <1>3, <1>4, <2>1, Zenon
  <1>5. r[0] = g[0]
    <2>1. 0 \in 0 .. n
      OBVIOUS
    <2> QED BY <1>3, <2>1, Zenon
  <1>6. r[n] = g[n]
    BY <1>4, <1>5, Recursion, Zenon
  <1>7. g[n] = Read(SubSeq(vals, 1, n), pos[n])
    <2>1. n \in 0 .. n
      OBVIOUS
    <2> QED BY <1>3, <2>1, Zenon DEF Progress
  <1>8. SubSeq(vals, 1, n) = vals
    BY <1>1, SubSeqFull
  <1> QED BY <1>1, <1>6, <1>7, <1>8

----------------------------------------------------------------------------
(* Sequences of sequences *)

Flattening(s, n, f) ==
    f = [i \in 1 .. n |-> IF i = 1 THEN s[i] ELSE f[i - 1] \o s[i]]

\* The function that FlattenSeq() chooses exists.
LEMMA FlatteningExists == ASSUME NEW s, NEW n \in Nat PROVE \E f : Flattening(s, n, f)
  <1> DEFINE Bad == {m \in Nat : ~ \E f : Flattening(s, m, f)}
  <1> SUFFICES ASSUME Bad # {} PROVE FALSE
    OBVIOUS
  <1>1. PICK m \in Bad : \A k \in Bad : m <= k
    <2>1. Bad \subseteq Nat
      OBVIOUS
    <2> HIDE DEF Bad
    <2> QED BY <2>1, LeastNatural
  <1>2. m # 0
    <2>1. 1 .. 0 = {}
      OBVIOUS
    <2>2. Flattening(s, 0, [i \in 1 .. 0 |-> 0])
      BY <2>1 DEF Flattening
    <2> QED BY <1>1, <2>2
  <1>3. PICK f : Flattening(s, m - 1, f)
    <2>1. m - 1 \in Nat /\ ~ (m <= m - 1)
      BY <1>2
    <2> QED BY <1>1, <2>1
  <1>4. PICK e : e = IF m = 1 THEN s[m] ELSE f[m - 1] \o s[m]
    OBVIOUS
  <1>5. PICK g : g = [i \in 1 .. m |-> IF i = m THEN e ELSE f[i]]
    OBVIOUS
  <1>6. ASSUME NEW i \in 1 .. m PROVE g[i] = IF i = 1 THEN s[i] ELSE g[i - 1] \o s[i]
    <2>1. \A j \in 1 .. m - 1 : f[j] = IF j = 1 THEN s[j] ELSE f[j - 1] \o s[j]
      BY <1>3, Zenon DEF Flattening
    <2>2. CASE i = m
      <3>1. i # 1 => i - 1 \in 1 .. m /\ i - 1 # m
        BY <1>2, <2>2
      <3>2. i # 1 => g[i - 1] = f[i - 1]
        BY <1>5, <3>1, Zenon
      <3> QED BY <1>4, <1>5, <2>2, <3>2, Zenon
    <2>3. CASE i # m
      <3>1. i \in 1 .. m - 1 /\ (i # 1 => i - 1 \in 1 .. m /\ i - 1 # m)
        BY <1>2, <2>3
      <3>2. i # 1 => g[i - 1] = f[i - 1]
        BY <1>5, <3>1, Zenon
      <3>3. g[i] = f[i]
        BY <1>5, <2>3, Zenon
      <3> QED BY <2>1, <3>1, <3>2, <3>3, Zenon
    <2> QED BY <2>2, <2>3
  <1>7. Flattening(s, m, g)
    <2>1. g = [i \in 1 .. m |-> g[i]]
      BY <1>5
    <2>2. g = [i \in 1 .. m |-> IF i = 1 THEN s[i] ELSE g[i - 1] \o s[i]]
      BY <1>6, <2>1, Zenon
    <2> QED BY <2>2 DEF Flattening
  <1> QED BY <1>1, <1>2, <1>7

\* f[i] are the first i of the sequences s, one behind the other.
Chain(s, f) ==
    /\ f[0] = <<>>
    /\ \A i \in 1 .. Len(s) : f[i] = f[i - 1] \o s[i]

\* The beginnings of a chain are sequences.
LEMMA ChainTypes ==
    ASSUME NEW T, NEW s \in Seq(Seq(T)), NEW f, Chain(s, f)
    PROVE  \A i \in 0 .. Len(s) : f[i] \in Seq(T)
  <1> DEFINE Bad == {m \in 0 .. Len(s) : f[m] \notin Seq(T)}
  <1> SUFFICES ASSUME Bad # {} PROVE FALSE
    OBVIOUS
  <1>1. PICK m \in Bad : \A k \in Bad : m <= k
    <2>1. Bad \subseteq Nat
      OBVIOUS
    <2> HIDE DEF Bad
    <2> QED BY <2>1, LeastNatural
  <1>2. m # 0
    <2>1. f[0] = <<>> /\ <<>> \in Seq(T)
      BY DEF Chain
    <2> QED BY <1>1, <2>1
  <1>3. m \in 1 .. Len(s) /\ m - 1 \in 0 .. Len(s) /\ ~(m <= m - 1)
    BY <1>1, <1>2
  <1>4. f[m - 1] \in Seq(T)
    BY <1>1, <1>3
  <1>5. f[m] = f[m - 1] \o s[m] /\ s[m] \in Seq(T)
    <2>1. f[m] = f[m - 1] \o s[m]
      BY <1>3, Zenon DEF Chain
    <2>2. s[m] \in Seq(T)
      BY <1>3
    <2> QED BY <2>1, <2>2, Zenon
  <1>6. f[m - 1] \o s[m] \in Seq(T)
    BY <1>4, <1>5, ConcatProperties
  <1> QED BY <1>1, <1>5, <1>6

\* FlattenSeq() is the last of a chain.
LEMMA FlattenIs ==
    ASSUME NEW T, NEW s \in Seq(Seq(T))
    PROVE  \E f : Chain(s, f) /\ FlattenSeq(s) = f[Len(s)]
  <1>1. CASE Len(s) = 0
    <2>1. s = <<>>
      BY <1>1
    <2>2. PICK f : f = [i \in {0} |-> <<>>]
      OBVIOUS
    <2>3. f[0] = <<>>
      BY <2>2
    <2>4. Chain(s, f)
      <3>1. 1 .. Len(s) = {}
        BY <1>1
      <3> QED BY <2>3, <3>1 DEF Chain
    <2>5. FlattenSeq(s) = <<>>
      BY <1>1, <2>1, Zenon DEF FlattenSeq
    <2> QED BY <1>1, <2>3, <2>4, <2>5, Zenon
  <1>2. CASE Len(s) # 0
    <2>1. PICK n \in Nat \ {0} : n = Len(s)
      BY <1>2
    <2>2. PICK h : h = CHOOSE g : Flattening(s, n, g)
      OBVIOUS
    <2>3. Flattening(s, n, h)
      BY <2>2, FlatteningExists, Zenon
    <2>4. FlattenSeq(s) = h[n]
      BY <1>2, <2>1, <2>2, Zenon DEF FlattenSeq, Flattening
    <2>5. PICK f : f = [i \in 0 .. n |-> IF i = 0 THEN <<>> ELSE h[i]]
      OBVIOUS
    <2>6. f[0] = <<>> /\ f[n] = h[n]
      BY <2>1, <2>5
    <2>7. ASSUME NEW i \in 1 .. n PROVE f[i] = f[i - 1] \o s[i]
      <3>1. f[i] = h[i]
        BY <2>5
      <3>2. h[i] = IF i = 1 THEN s[i] ELSE h[i - 1] \o s[i]
        BY <2>3, Zenon DEF Flattening
      <3>3. CASE i = 1
        <4>1. s[1] \in Seq(T)
          BY <2>1
        <4>2. <<>> \o s[1] = s[1]
          BY <4>1, ConcatEmptySeq
        <4>3. f[i - 1] = <<>>
          BY <2>6, <3>3
        <4> QED BY <3>1, <3>2, <3>3, <4>2, <4>3, Zenon
      <3>4. CASE i # 1
        <4>1. i - 1 \in 0 .. n /\ i - 1 # 0
          BY <3>4
        <4>2. f[i - 1] = h[i - 1]
          BY <2>5, <4>1, Zenon
        <4> QED BY <3>1, <3>2, <3>4, <4>2, Zenon
      <3> QED BY <3>3, <3>4
    <2>8. Chain(s, f)
      BY <2>1, <2>6, <2>7, Zenon DEF Chain
    <2> QED BY <2>1, <2>4, <2>6, <2>8, Zenon
  <1> QED BY <1>1, <1>2

\* There is one chain only: FlattenSeq() is the end of every chain.
LEMMA FlattenChain ==
    ASSUME NEW T, NEW s \in Seq(Seq(T)), NEW f, Chain(s, f)
    PROVE  FlattenSeq(s) = f[Len(s)]
  <1>1. PICK g : Chain(s, g) /\ FlattenSeq(s) = g[Len(s)]
    BY FlattenIs
  <1>2. PICK n \in Nat : n = Len(s)
    OBVIOUS
  <1>3. \A i \in 1 .. n : f[i - 1] = g[i - 1] => f[i] = g[i]
    BY <1>1, <1>2, Zenon DEF Chain
  <1>4. f[0] = g[0]
    BY <1>1, Zenon DEF Chain
  <1>5. f[n] = g[n]
    BY <1>3, <1>4, Recursion, Zenon
  <1> QED BY <1>1, <1>2, <1>5, Zenon

\* Concatenation may be read from either side.
LEMMA Associative == \A T : \A a, b, c \in Seq(T) : a \o (b \o c) = (a \o b) \o c
  BY ConcatAssociative

\* What stands in a chain stands there piece by piece.
LEMMA ChainFound ==
    ASSUME NEW T, NEW s \in Seq(Seq(T)), NEW f, Chain(s, f), NEW buf \in Seq(T), NEW at,
           Found(buf, at, f[Len(s)])
    PROVE  \A i \in 1 .. Len(s) : Found(buf, at, f[i]) /\ Found(buf, at + Len(f[i - 1]), s[i])
  <1>0. PICK n \in Nat : n = Len(s)
    OBVIOUS
  <1>1. \A i \in 0 .. n : f[i] \in Seq(T)
    BY <1>0, ChainTypes
  <1>2. \A i \in 1 .. n : f[i] = f[i - 1] \o s[i]
    BY <1>0, Zenon DEF Chain
  <1>3. \A i \in 1 .. n : s[i] \in Seq(T)
    BY <1>0
  <1>4. ASSUME NEW i \in 1 .. n, Found(buf, at, f[i])
        PROVE  Found(buf, at, f[i - 1]) /\ Found(buf, at + Len(f[i - 1]), s[i])
    <2>1. i - 1 \in 0 .. n
      OBVIOUS
    <2>2. f[i - 1] \in Seq(T) /\ s[i] \in Seq(T) /\ Found(buf, at, f[i - 1] \o s[i])
      BY <1>1, <1>2, <1>3, <1>4, <2>1, Zenon
    <2> QED BY <2>2, FoundParts, Zenon
  <1> DEFINE Bad == {k \in 0 .. n : ~Found(buf, at, f[n - k])}
  <1>5. Bad = {}
    <2> SUFFICES ASSUME Bad # {} PROVE FALSE
      OBVIOUS
    <2>1. PICK m \in Bad : \A k \in Bad : m <= k
      <3>1. Bad \subseteq Nat
        OBVIOUS
      <3> HIDE DEF Bad
      <3> QED BY <3>1, LeastNatural
    <2>2. m # 0
      <3>1. n - 0 = n
        OBVIOUS
      <3> QED BY <1>0, <2>1, <3>1
    <2>3. m - 1 \in 0 .. n /\ ~(m <= m - 1) /\ n - (m - 1) \in 1 .. n /\ (n - (m - 1)) - 1 = n - m
      BY <2>1, <2>2
    <2>4. Found(buf, at, f[n - (m - 1)])
      BY <2>1, <2>3
    <2>5. PICK i \in 1 .. n : i = n - (m - 1) /\ i - 1 = n - m
      BY <2>3
    <2>6. Found(buf, at, f[i - 1])
      BY <1>4, <2>4, <2>5, Zenon
    <2> QED BY <2>1, <2>5, <2>6
  <1>6. ASSUME NEW i \in 1 .. n PROVE Found(buf, at, f[i])
    <2>1. n - i \in 0 .. n /\ n - (n - i) = i
      OBVIOUS
    <2> QED BY <1>5, <2>1
  <1> QED BY <1>0, <1>4, <1>6, Zenon

\* The pieces of a flattened sequence stand where the ones before them end.
LEMMA FlattenFound ==
    ASSUME NEW T, NEW s \in Seq(Seq(T)), NEW buf \in Seq(T), NEW at, Found(buf, at, FlattenSeq(s))
    PROVE  \E pos : /\ pos[0] = at /\ pos[Len(s)] = at + Len(FlattenSeq(s))
                    /\ \A i \in 1 .. Len(s) : /\ pos[i - 1] \in Nat /\ pos[i] \in Nat
                                              /\ pos[i] = pos[i - 1] + Len(s[i])
                                              /\ Found(buf, pos[i - 1], s[i])
  <1>0. PICK n \in Nat : n = Len(s)
    OBVIOUS
  <1>a. \A i \in 1 .. n : s[i] \in Seq(T)
    BY <1>0
  <1>1. PICK f : Chain(s, f) /\ FlattenSeq(s) = f[n]
    BY <1>0, FlattenIs
  <1>2. \A i \in 0 .. n : f[i] \in Seq(T)
    BY <1>0, <1>1, ChainTypes
  <1>3. \A i \in 1 .. n : Found(buf, at + Len(f[i - 1]), s[i])
    BY <1>0, <1>1, ChainFound
  <1>4. at \in Nat
    BY DEF Found
  <1>5. PICK pos : pos = [i \in 0 .. n |-> at + Len(f[i])]
    OBVIOUS
  <1>6. \A i \in 0 .. n : pos[i] = at + Len(f[i])
    BY <1>5, Zenon
  <1>7. pos[0] = at
    <2>1. f[0] = <<>> /\ 0 \in 0 .. n
      BY <1>1 DEF Chain
    <2>2. Len(<<>>) = 0
      OBVIOUS
    <2> QED BY <1>4, <1>6, <2>1, <2>2
  <1>8. pos[n] = at + Len(FlattenSeq(s))
    BY <1>1, <1>6
  <1>9. ASSUME NEW i \in 1 .. n
        PROVE  /\ pos[i - 1] \in Nat /\ pos[i] \in Nat /\ pos[i] = pos[i - 1] + Len(s[i])
               /\ Found(buf, pos[i - 1], s[i])
    <2>1. i \in 0 .. n /\ i - 1 \in 0 .. n
      OBVIOUS
    <2>2. PICK u \in Seq(T), w \in Seq(T) : u = f[i - 1] /\ w = s[i]
      BY <1>a, <1>2, <2>1, Zenon
    <2>3. f[i] = u \o w
      BY <1>0, <1>1, <2>2, Zenon DEF Chain
    <2>4. Len(f[i]) = Len(u) + Len(w) /\ Len(u) \in Nat /\ Len(w) \in Nat
      BY <2>3
    <2>5. pos[i - 1] = at + Len(u) /\ pos[i] = at + Len(f[i])
      BY <1>6, <2>1, <2>2
    <2>6. Found(buf, pos[i - 1], s[i])
      BY <1>3, <2>2, <2>5
    <2>7. PICK k \in Nat, l \in Nat : k = Len(u) /\ l = Len(w)
      BY <2>4
    <2>8. pos[i - 1] = at + k /\ pos[i] = at + (k + l) /\ Len(s[i]) = l
      BY <2>2, <2>4, <2>5, <2>7, Zenon
    <2>9. at + k \in Nat /\ at + (k + l) \in Nat /\ at + (k + l) = (at + k) + l
      BY <1>4
    <2> QED BY <2>6, <2>8, <2>9, Zenon
  <1> QED BY <1>0, <1>7, <1>8, <1>9, Zenon

\* A flattened sequence is a sequence, ...
LEMMA FlattenType == \A T : \A s \in Seq(Seq(T)) : FlattenSeq(s) \in Seq(T)
  <1> SUFFICES ASSUME NEW T, NEW s \in Seq(Seq(T)) PROVE FlattenSeq(s) \in Seq(T)
    OBVIOUS
  <1>1. PICK f : Chain(s, f) /\ FlattenSeq(s) = f[Len(s)]
    BY FlattenIs
  <1>2. f[Len(s)] \in Seq(T)
    <2>1. Len(s) \in 0 .. Len(s)
      OBVIOUS
    <2> QED BY <1>1, <2>1, ChainTypes, Zenon
  <1> QED BY <1>1, <1>2

\* ... nothing if there is nothing in it, ...
LEMMA FlattenEmpty == FlattenSeq(<<>>) = <<>>
  <1>1. Len(<<>>) = 0
    OBVIOUS
  <1> QED BY <1>1, Zenon DEF FlattenSeq

\* ... longer by what is put behind it ...
LEMMA FlattenAppend ==
    ASSUME NEW T, NEW s \in Seq(Seq(T)), NEW x \in Seq(T)
    PROVE  FlattenSeq(Append(s, x)) = FlattenSeq(s) \o x
  <1>0. PICK n \in Nat : n = Len(s)
    OBVIOUS
  <1>1. PICK f : Chain(s, f) /\ FlattenSeq(s) = f[n]
    BY <1>0, FlattenIs
  <1>2. PICK a : a = Append(s, x)
    OBVIOUS
  <1>3. /\ a \in Seq(Seq(T)) /\ Len(a) = n + 1 /\ a[n + 1] = x
        /\ \A i \in 1 .. n : a[i] = s[i]
    BY <1>0, <1>2, AppendProperties
  <1>4. PICK e : e = f[n] \o x
    OBVIOUS
  <1>5. PICK g : g = [i \in 0 .. n + 1 |-> IF i = n + 1 THEN e ELSE f[i]]
    OBVIOUS
  <1>6. g[n + 1] = e /\ \A i \in 0 .. n : g[i] = f[i]
    BY <1>5
  <1>7. ASSUME NEW i \in 1 .. n + 1 PROVE g[i] = g[i - 1] \o a[i]
    <2>1. CASE i = n + 1
      <3>1. i - 1 = n /\ n \in 0 .. n
        BY <2>1
      <3> QED BY <1>3, <1>4, <1>6, <2>1, <3>1, Zenon
    <2>2. CASE i # n + 1
      <3>1. i \in 1 .. n /\ i \in 0 .. n /\ i - 1 \in 0 .. n
        BY <2>2
      <3>2. f[i] = f[i - 1] \o s[i]
        BY <1>0, <1>1, <3>1, Zenon DEF Chain
      <3> QED BY <1>3, <1>6, <3>1, <3>2, Zenon
    <2> QED BY <2>1, <2>2
  <1>8. Chain(a, g)
    <2>1. g[0] = <<>>
      <3>1. 0 \in 0 .. n
        OBVIOUS
      <3> QED BY <1>1, <1>6, <3>1, Zenon DEF Chain
    <2> QED BY <1>3, <1>7, <2>1, Zenon DEF Chain
  <1>9. FlattenSeq(a) = g[n + 1]
    BY <1>3, <1>8, FlattenChain, Zenon
  <1> QED BY <1>1, <1>2, <1>4, <1>6, <1>9, Zenon

\* ... and begins with the first of its pieces.
LEMMA FlattenFirst ==
    ASSUME NEW T, NEW s \in Seq(Seq(T)), s # <<>>
    PROVE  FlattenSeq(s) = Head(s) \o FlattenSeq(Tail(s))
  <1>0. PICK n \in Nat \ {0} : n = Len(s)
    BY EmptySeq
  <1>a. \A i \in 1 .. n : s[i] \in Seq(T)
    BY <1>0
  <1>1. PICK h, t : h = Head(s) /\ t = Tail(s)
    OBVIOUS
  <1>2. /\ h \in Seq(T) /\ t \in Seq(Seq(T)) /\ Len(t) = n - 1 /\ s[1] = h
        /\ \A i \in 1 .. n - 1 : t[i] = s[i + 1]
    BY <1>0, <1>1, HeadTailProperties
  <1>3. PICK f : Chain(t, f) /\ FlattenSeq(t) = f[n - 1]
    BY <1>2, FlattenIs
  <1>4. \A i \in 0 .. n - 1 : f[i] \in Seq(T)
    BY <1>2, <1>3, ChainTypes
  <1>5. PICK g : g = [i \in 0 .. n |-> IF i = 0 THEN <<>> ELSE h \o f[i - 1]]
    OBVIOUS
  <1>6. g[0] = <<>> /\ \A i \in 1 .. n : g[i] = h \o f[i - 1]
    <2>1. 0 \in 0 .. n /\ \A i \in 1 .. n : i \in 0 .. n /\ i # 0
      OBVIOUS
    <2> QED BY <1>5, <2>1, Zenon
  <1>7. ASSUME NEW i \in 1 .. n PROVE g[i] = g[i - 1] \o s[i]
    <2>1. CASE i = 1
      <3>1. f[0] = <<>> /\ 1 - 1 = 0 /\ 1 \in 1 .. n
        BY <1>3 DEF Chain
      <3>2. h \o <<>> = h /\ <<>> \o h = h
        BY <1>2, ConcatEmptySeq
      <3> QED BY <1>2, <1>6, <2>1, <3>1, <3>2, Zenon
    <2>2. CASE i # 1
      <3>1. i - 1 \in 1 .. n /\ i - 1 \in 1 .. n - 1 /\ (i - 1) - 1 \in 0 .. n - 1
            /\ (i - 1) + 1 = i
        BY <2>2
      <3>2. f[i - 1] = f[(i - 1) - 1] \o t[i - 1]
        BY <1>2, <1>3, <3>1, Zenon DEF Chain
      <3>3. t[i - 1] = s[i]
        BY <1>2, <3>1, Zenon
      <3>4. f[(i - 1) - 1] \in Seq(T)
        BY <1>4, <3>1, Zenon
      <3>5. s[i] \in Seq(T)
        BY <1>a
      <3>6. h \o (f[(i - 1) - 1] \o s[i]) = (h \o f[(i - 1) - 1]) \o s[i]
        <4>1. \A a, b, c \in Seq(T) : a \o (b \o c) = (a \o b) \o c
          BY Associative
        <4>2. h \in Seq(T)
          BY <1>2
        <4> QED BY <3>4, <3>5, <4>1, <4>2, Zenon
      <3> QED BY <1>6, <3>1, <3>2, <3>3, <3>6, Zenon
    <2> QED BY <2>1, <2>2
  <1>8. Chain(s, g)
    BY <1>0, <1>6, <1>7, Zenon DEF Chain
  <1>9. FlattenSeq(s) = g[n]
    BY <1>0, <1>8, FlattenChain, Zenon
  <1>10. n \in 1 .. n
    OBVIOUS
  <1> QED BY <1>1, <1>3, <1>6, <1>9, <1>10, Zenon

----------------------------------------------------------------------------
(* Numbers and strings of a control message *)

\* How many bytes a control message can count.
LEMMA Room == Power[2] \in Nat /\ Power[2] >= 64 /\ Power[7] \in Nat /\ Power[7] >= Power[2]
  <1>1. /\ Power[2] = Byte * Power[1] /\ Power[3] = Byte * Power[2] /\ Power[4] = Byte * Power[3]
        /\ Power[5] = Byte * Power[4] /\ Power[6] = Byte * Power[5] /\ Power[7] = Byte * Power[6]
        /\ Power[1] = Byte
    BY PowerFacts
  <1>2. /\ Power[2] \in Nat \ {0} /\ Power[3] \in Nat \ {0} /\ Power[4] \in Nat \ {0}
        /\ Power[5] \in Nat \ {0} /\ Power[6] \in Nat \ {0} /\ Power[7] \in Nat \ {0}
    BY PowerFacts
  <1>3. \A a \in Nat : Byte * a \in Nat /\ Byte * a >= a
    BY ByteFacts
  <1>4. Byte * Byte >= 64
    BY ByteFacts
  <1> QED BY <1>1, <1>2, <1>3, <1>4

\* What is smaller than a number of the format is one too.
LEMMA SmallerNumber == ASSUME NEW w \in Numbers, NEW v \in Nat, v <= w PROVE v \in Numbers
  <1>1. PICK c \in Nat \ {0} : c = Power[7]
    <2>1. 7 \in 0 .. 7
      OBVIOUS
    <2> QED BY <2>1, PowerFacts, Zenon
  <1>2. w \in Nat /\ w \div c < Quarter
    BY <1>1 DEF Numbers
  <1>3. w < Quarter * c
    BY <1>2, FillBounds, ByteFacts
  <1>4. v \div c >= Quarter => v >= Quarter * c
    BY FillBounds, ByteFacts
  <1>5. v \div c < Quarter
    <2>1. v \div c \in Nat
      BY DivNat
    <2>2. PICK p \in Int : p = Quarter * c
      BY ByteFacts
    <2> QED BY <1>2, <1>3, <1>4, <2>1, <2>2, ByteFacts
  <1> QED BY <1>1, <1>5 DEF Numbers

\* A length that a control message can count is a number, ...
LEMMA LengthIsNumber == ASSUME NEW v \in Nat, v < Power[2] PROVE v \in Numbers
  <1>1. PICK c \in Nat \ {0} : c = Power[7] /\ v < c
    BY Room, PowerFacts
  <1>2. v \div c = 0
    BY <1>1
  <1> QED BY <1>1, <1>2, ByteFacts DEF Numbers

\* ... as are the values of a byte and the constants of the format.
LEMMA ByteIsNumber == Bytes \subseteq Numbers /\ Numbers \subseteq Nat /\ 0 .. 63 \subseteq Numbers
  <1>1. ASSUME NEW v \in Bytes PROVE v \in Numbers
    <2>1. v \in Nat /\ v < Byte
      BY ByteFacts DEF Bytes
    <2>2. Byte <= Power[2]
      <3>1. Power[2] = Byte * Power[1] /\ Power[1] = Byte
        BY PowerFacts
      <3>2. Byte * Byte >= Byte
        BY ByteFacts
      <3> QED BY <3>1, <3>2
    <2>3. v < Power[2]
      BY <2>1, <2>2, Room, ByteFacts
    <2> QED BY <2>1, <2>3, LengthIsNumber
  <1>2. ASSUME NEW v \in 0 .. 63 PROVE v \in Numbers
    <2>1. v \in Nat /\ v < Power[2]
      BY Room
    <2> QED BY <2>1, LengthIsNumber
  <1>3. Numbers \subseteq Nat
    BY DEF Numbers
  <1> QED BY <1>1, <1>2, <1>3

\* A number is read as it was written.
LEMMA NumberRead ==
    ASSUME NEW buf \in Seq(Bytes), NEW at, NEW v \in Numbers, Found(buf, at, encode_varint(v))
    PROVE  decode_varint(buf, at) = Read(v, at + Len(encode_varint(v)))
  <1>1. v \in Nat /\ v \div Power[7] < Quarter
    BY DEF Numbers
  <1>2. Bytes \subseteq Bytes
    OBVIOUS
  <1> QED BY <1>1, <1>2, VarintRead

\* What is written for a number of the format.
LEMMA NumberBytes ==
    \A v \in Numbers : encode_varint(v) \in Seq(Bytes) /\ Len(encode_varint(v)) \in 1 .. 8
  BY VarintBytes, ByteIsNumber

\* A number of which only the beginning is there is not read.
LEMMA NumberCut ==
    ASSUME NEW buf \in Seq(Bytes), NEW v \in Nat, Found(encode_varint(v), 0, buf),
           Len(buf) < Len(encode_varint(v))
    PROVE  decode_varint(buf, 0) = Failed
  <1>1. PICK p \in 0 .. 3, n \in {1, 2, 4, 8} :
            /\ n = VarintSizes[1 + p] /\ Len(encode_varint(v)) = n
            /\ encode_varint(v)[1] \div Quarter = p
    BY VarintIs, Zenon
  <1>2. Len(buf) - 0 = Len(buf) /\ Len(buf) \in Nat /\ Len(buf) < n
    BY <1>1
  <1>3. CASE Len(buf) = 0
    <2>1. Len(buf) - 0 < 1
      BY <1>2, <1>3
    <2> QED BY <2>1, Zenon DEF decode_varint
  <1>4. CASE Len(buf) # 0
    <2>1. 1 \in 1 .. Len(buf) /\ 0 + 1 = 1
      BY <1>2, <1>4
    <2>2. buf[0 + 1] = encode_varint(v)[1]
      BY <2>1 DEF Found
    <2>3. VarintSizes[1 + buf[0 + 1] \div Quarter] = n
      BY <1>1, <2>2, Zenon
    <2>4. Len(buf) - 0 < n
      BY <1>2
    <2> QED BY <2>3, <2>4, Zenon DEF decode_varint
  <1> QED BY <1>3, <1>4

\* What is written for a string.
LEMMA StringBytes ==
    \A s \in Strings : /\ s \in Seq(Bytes) /\ Len(s) \in Numbers
                       /\ append_string_bytes(s) \in Seq(Bytes)
                       /\ Len(append_string_bytes(s)) \in Nat \ {0}
  <1> SUFFICES ASSUME NEW s \in Strings
               PROVE  /\ s \in Seq(Bytes) /\ Len(s) \in Numbers
                      /\ append_string_bytes(s) \in Seq(Bytes)
                      /\ Len(append_string_bytes(s)) \in Nat \ {0}
    OBVIOUS
  <1>1. s \in Seq(Bytes) /\ Len(s) \in Nat /\ Len(s) < Power[2]
    BY DEF Strings
  <1>2. Len(s) \in Numbers
    BY <1>1, LengthIsNumber
  <1>3. PICK e : e = encode_varint(Len(s))
    OBVIOUS
  <1>4. e \in Seq(Bytes) /\ Len(e) \in 1 .. 8
    BY <1>2, <1>3, NumberBytes, Zenon
  <1>5. append_string_bytes(s) = e \o s
    BY <1>3 DEF append_string_bytes
  <1>6. e \o s \in Seq(Bytes) /\ Len(e \o s) \in Nat \ {0}
    <2>1. e \o s \in Seq(Bytes) /\ Len(e \o s) = Len(e) + Len(s)
      BY <1>1, <1>4, Joined
    <2>2. PICK k \in 1 .. 8, l \in Nat : k = Len(e) /\ l = Len(s)
      BY <1>1, <1>4, Zenon
    <2>3. k + l \in Nat \ {0}
      OBVIOUS
    <2> QED BY <2>1, <2>2, <2>3, Zenon
  <1> QED BY <1>1, <1>2, <1>5, <1>6

\* A string is read as it was written.
LEMMA TextRead ==
    ASSUME NEW buf \in Seq(Bytes), NEW at, NEW s \in Strings,
           Found(buf, at, append_string_bytes(s))
    PROVE  read_string(buf, at) = Read(s, at + Len(append_string_bytes(s)))
  <1>1. s \in Seq(Bytes) /\ Len(s) \in Numbers
    BY StringBytes, Zenon
  <1>2. Len(s) \div Power[7] < Quarter /\ Bytes \subseteq Bytes
    BY <1>1 DEF Numbers
  <1> QED BY <1>1, <1>2, StringRead

----------------------------------------------------------------------------
(* The framing of control messages *)

\* A message is its type, its length and its content, ...
LEMMA FrameIs ==
    ASSUME NEW type \in Numbers, NEW content \in Seq(Bytes)
    PROVE  \E e \in Seq(Bytes), b \in Seq(Bytes) :
              /\ e = encode_varint(type) /\ b = BigEndian(Len(content), 2)
              /\ Len(e) \in 1 .. 8 /\ Len(b) = 2
              /\ build_control_message(type, content) = (e \o b) \o content
              /\ build_control_message(type, content) \in Seq(Bytes)
              /\ Len(build_control_message(type, content)) = (Len(e) + 2) + Len(content)
  <1>1. PICK e, b : e = encode_varint(type) /\ b = BigEndian(Len(content), 2)
    OBVIOUS
  <1>2. e \in Seq(Bytes) /\ Len(e) \in 1 .. 8
    BY <1>1, NumberBytes, Zenon
  <1>3. b \in Seq(Bytes) /\ Len(b) = 2
    <2>1. 2 \in 1 .. 8 /\ Len(content) \in Nat
      OBVIOUS
    <2> QED BY <1>1, <2>1, BigEndianIs, Zenon
  <1>4. build_control_message(type, content) = (e \o b) \o content
    BY <1>1, Zenon DEF build_control_message
  <1>5. PICK eb : eb = e \o b /\ eb \in Seq(Bytes) /\ Len(eb) = Len(e) + 2
    <2>1. e \in Seq(Bytes) /\ b \in Seq(Bytes)
      BY <1>2, <1>3
    <2>2. e \o b \in Seq(Bytes) /\ Len(e \o b) = Len(e) + Len(b)
      BY <2>1, Joined
    <2> QED BY <1>3, <2>2, Zenon
  <1>6. eb \o content \in Seq(Bytes) /\ Len(eb \o content) = Len(eb) + Len(content)
    BY <1>5, Joined, ZenonT(30)
  <1> QED BY <1>1, <1>2, <1>3, <1>4, <1>5, <1>6, Zenon

\* ... and is handed over when it is there, whatever comes behind it, ...
THEOREM FrameRead ==
    ASSUME NEW type \in Numbers, NEW content \in Seq(Bytes), Len(content) < Power[2],
           NEW buf \in Seq(Bytes), Found(buf, 0, build_control_message(type, content))
    PROVE  parse_control_message(buf) =
              Read([type |-> type, content |-> content], Len(build_control_message(type, content)))
  <1>1. PICK e \in Seq(Bytes), b \in Seq(Bytes) :
              /\ e = encode_varint(type) /\ b = BigEndian(Len(content), 2)
              /\ Len(e) \in 1 .. 8 /\ Len(b) = 2
              /\ build_control_message(type, content) = (e \o b) \o content
              /\ build_control_message(type, content) \in Seq(Bytes)
              /\ Len(build_control_message(type, content)) = (Len(e) + 2) + Len(content)
    BY FrameIs
  <1>2. e \o b \in Seq(Bytes) /\ Len(e \o b) = Len(e) + 2
    BY <1>1
  <1>3. Found(buf, 0, e \o b) /\ Found(buf, 0 + Len(e \o b), content)
    BY <1>1, <1>2, FoundParts, Zenon
  <1>4. Found(buf, 0, e) /\ Found(buf, 0 + Len(e), b)
    BY <1>3, FoundParts, Zenon
  <1>5. PICK k \in 1 .. 8, l \in Nat : k = Len(e) /\ l = Len(content)
    BY <1>1
  <1>6. decode_varint(buf, 0) = Read(type, k)
    <2>1. 0 + Len(e) = k
      BY <1>5
    <2> QED BY <1>1, <1>4, <1>5, <2>1, NumberRead
  <1>7. \E r : r = Read(type, k) /\ r.ok /\ r.val = type /\ r.at = k
    BY ReadIs
  <1>8. Found(buf, k, b) /\ Found(buf, k + 2, content)
    <2>1. 0 + Len(e) = k /\ 0 + (Len(e) + 2) = k + 2
      BY <1>5
    <2> QED BY <1>2, <1>3, <1>4, <2>1, Zenon
  <1>9. SubSeq(buf, k + 1, k + 2) = b
    <2>1. Len(b) = 2
      BY <1>1
    <2> QED BY <1>8, <2>1, FoundSubSeq
  <1>10. FromBigEndian(b) = l
    <2>1. l \div Power[2 - 1] < Byte
      BY <1>5, BelowPower
    <2>2. 2 \in 1 .. 8 /\ b = BigEndian(l, 2)
      BY <1>1, <1>5
    <2> QED BY <2>1, <2>2, BigEndianRead, Zenon
  <1>11. Len(buf) \in Nat /\ (k + 2) + l <= Len(buf)
    BY <1>5, <1>8 DEF Found
  <1>12. ~(Len(buf) < 3) /\ ~(k + 2 > Len(buf)) /\ ~((k + 2) + l > Len(buf))
    BY <1>11
  <1>13. SubSeq(buf, (k + 2) + 1, (k + 2) + l) = content
    BY <1>5, <1>8, FoundSubSeq
  <1>14. parse_control_message(buf) = Read([type |-> type, content |-> content], (k + 2) + l)
    BY <1>6, <1>7, <1>9, <1>10, <1>12, <1>13, Zenon DEF parse_control_message, Then
  <1> QED BY <1>1, <1>5, <1>14

\* ... and never before its last byte.
THEOREM FrameCut ==
    ASSUME NEW type \in Numbers, NEW content \in Seq(Bytes), Len(content) < Power[2],
           NEW buf \in Seq(Bytes), Found(build_control_message(type, content), 0, buf),
           Len(buf) < Len(build_control_message(type, content))
    PROVE  parse_control_message(buf) = Failed
  <1>1. PICK e \in Seq(Bytes), b \in Seq(Bytes) :
              /\ e = encode_varint(type) /\ b = BigEndian(Len(content), 2)
              /\ Len(e) \in 1 .. 8 /\ Len(b) = 2
              /\ build_control_message(type, content) = (e \o b) \o content
              /\ build_control_message(type, content) \in Seq(Bytes)
              /\ Len(build_control_message(type, content)) = (Len(e) + 2) + Len(content)
    BY FrameIs
  <1>2. PICK k \in 1 .. 8, l \in Nat, m \in Nat : k = Len(e) /\ l = Len(content) /\ m = Len(buf)
    BY <1>1
  <1>3. m < (k + 2) + l
    BY <1>1, <1>2
  <1>4. PICK eb \in Seq(Bytes) : eb = e \o b /\ Len(eb) = k + 2
    <2>1. Len(e) = k /\ Len(b) = 2
      BY <1>1, <1>2
    <2>2. e \o b \in Seq(Bytes) /\ Len(e \o b) = Len(e) + Len(b)
      BY Joined
    <2> QED BY <2>1, <2>2, Zenon
  <1>5. PICK whole \in Seq(Bytes) : whole = build_control_message(type, content) /\ whole = eb \o content
    BY <1>1, <1>4, Zenon
  <1>6. /\ \A i \in 1 .. m : buf[i] = whole[i]
        /\ \A i \in 1 .. k + 2 : whole[i] = eb[i]
        /\ \A i \in 1 .. k : eb[i] = e[i]
        /\ \A i \in 1 .. 2 : eb[k + i] = b[i]
    <2>1. \A i \in 1 .. m : buf[i] = whole[i]
      BY <1>2, <1>5 DEF Found
    <2>2. \A i \in 1 .. k + 2 : whole[i] = eb[i]
      BY <1>4, <1>5
    <2>3. \A i \in 1 .. k : eb[i] = e[i]
      BY <1>1, <1>2, <1>4
    <2>4. \A i \in 1 .. 2 : eb[k + i] = b[i]
      BY <1>1, <1>2, <1>4
    <2> QED BY <2>1, <2>2, <2>3, <2>4
  <1>7. CASE m < 3
    BY <1>2, <1>7, Zenon DEF parse_control_message
  <1>8. CASE ~(m < 3) /\ m < k
    <2>1. \A i \in 1 .. m : e[i] = buf[i]
      <3>1. \A i \in 1 .. m : i \in 1 .. k /\ i \in 1 .. k + 2
        BY <1>8
      <3> QED BY <1>6, <3>1, Zenon
    <2>2. Found(e, 0, buf)
      BY <1>1, <1>2, <1>8, <2>1 DEF Found
    <2>3. decode_varint(buf, 0) = Failed
      BY <1>1, <1>2, <1>8, <2>2, NumberCut, ByteIsNumber
    <2>4. ~Failed.ok
      BY DEF Failed
    <2> QED BY <2>3, <2>4, Zenon DEF parse_control_message, Then
  <1>9. CASE ~(m < 3) /\ k <= m
    <2>1. \A i \in 1 .. k : buf[i] = e[i]
      <3>1. \A i \in 1 .. k : i \in 1 .. m /\ i \in 1 .. k + 2
        BY <1>9
      <3> QED BY <1>6, <3>1, Zenon
    <2>2. Found(buf, 0, e)
      BY <1>1, <1>2, <1>9, <2>1 DEF Found
    <2>3. decode_varint(buf, 0) = Read(type, k)
      <3>1. 0 + Len(e) = k
        BY <1>2
      <3> QED BY <1>1, <1>2, <2>2, <3>1, NumberRead
    <2>4. \E r : r = Read(type, k) /\ r.ok /\ r.val = type /\ r.at = k
      BY ReadIs
    <2>5. CASE k + 2 > m
      BY <1>2, <1>9, <2>3, <2>4, <2>5, Zenon DEF parse_control_message, Then
    <2>6. CASE ~(k + 2 > m)
      <3>1. \A i \in 1 .. 2 : k + i \in 1 .. m /\ k + i \in 1 .. k + 2
        BY <2>6
      <3>2. \A i \in 1 .. 2 : buf[k + i] = b[i]
        BY <1>6, <3>1
      <3>3. Found(buf, k, b)
        BY <1>1, <1>2, <2>6, <3>2 DEF Found
      <3>4. SubSeq(buf, k + 1, k + 2) = b
        BY <1>1, <3>3, FoundSubSeq
      <3>5. FromBigEndian(b) = l
        <4>1. l \div Power[2 - 1] < Byte
          BY <1>2, BelowPower
        <4>2. 2 \in 1 .. 8 /\ b = BigEndian(l, 2)
          BY <1>1, <1>2
        <4> QED BY <4>1, <4>2, BigEndianRead, Zenon
      <3>6. (k + 2) + l > m
        BY <1>3
      <3> QED BY <1>2, <1>9, <2>3, <2>4, <2>6, <3>4, <3>5, <3>6, Zenon
              DEF parse_control_message, Then
    <2> QED BY <2>5, <2>6
  <1> QED BY <1>2, <1>7, <1>8, <1>9

----------------------------------------------------------------------------
(* Namespaces *)

\* decode_namespace() goes from part to part ...
NextPart(buf, r) ==
    Then(r, LAMBDA vals, a : Then(read_string(buf, a), LAMBDA v, b : Read(Append(vals, v), b)))

\* ... by the function that ReadMany() chooses.
PartsRead(buf, n, at, f) ==
    f = [i \in 0 .. n |-> IF i = 0 THEN Read(<<>>, at) ELSE NextPart(buf, f[i - 1])]

\* The beginning of what is read one after the other.
LEMMA ProgressStart == \A vals, pos : Progress(vals, pos, 0) = Read(<<>>, pos[0])
  <1>1. \A vals : SubSeq(vals, 1, 0) = <<>>
    BY SubSeqEmpty
  <1> QED BY <1>1, Zenon DEF Progress

\* One more value of those that are read one after the other.
LEMMA ProgressNext ==
    ASSUME NEW V, NEW vals \in Seq(V), NEW pos, NEW i \in 1 .. Len(vals)
    PROVE  /\ Progress(vals, pos, i - 1).ok
           /\ Progress(vals, pos, i - 1).at = pos[i - 1]
           /\ Read(Append(Progress(vals, pos, i - 1).val, vals[i]), pos[i]) = Progress(vals, pos, i)
  <1>1. PICK u : u = SubSeq(vals, 1, i - 1)
    OBVIOUS
  <1>2. Append(u, vals[i]) = SubSeq(vals, 1, i)
    BY <1>1, Grows
  <1>3. PICK r : r = Read(u, pos[i - 1])
    OBVIOUS
  <1>4. r.ok /\ r.val = u /\ r.at = pos[i - 1]
    BY <1>3, ReadIs, Zenon
  <1>5. Progress(vals, pos, i - 1) = r
    BY <1>1, <1>3, Zenon DEF Progress
  <1>6. Read(Append(u, vals[i]), pos[i]) = Progress(vals, pos, i)
    BY <1>2, Zenon DEF Progress
  <1> QED BY <1>4, <1>5, <1>6, Zenon

\* What is written for a namespace ...
LEMMA NamespaceBytes ==
    ASSUME NEW parts \in Namespaces
    PROVE  \E e \in Seq(Bytes), s \in Seq(Seq(Bytes)), fl \in Seq(Bytes) :
              /\ e = encode_varint(Len(parts)) /\ Len(parts) \in Numbers
              /\ Len(s) = Len(parts) /\ parts \in Seq(Strings)
              /\ \A i \in 1 .. Len(parts) : parts[i] \in Strings /\ s[i] = append_string_bytes(parts[i])
              /\ fl = FlattenSeq(s) /\ encode_namespace(parts) = e \o fl
              /\ encode_namespace(parts) \in Seq(Bytes)
              /\ Len(encode_namespace(parts)) = Len(e) + Len(fl)
  <1>1. parts \in Seq(Strings) /\ Len(parts) \in Nat /\ Len(parts) < Power[2]
    BY DEF Namespaces
  <1>2. Len(parts) \in Numbers
    BY <1>1, LengthIsNumber
  <1>3. PICK e : e = encode_varint(Len(parts))
    OBVIOUS
  <1>4. e \in Seq(Bytes)
    BY <1>2, <1>3, NumberBytes, Zenon
  <1>5. PICK s : s = [i \in DOMAIN parts |-> append_string_bytes(parts[i])]
    OBVIOUS
  <1>6. DOMAIN parts = 1 .. Len(parts) /\ \A i \in 1 .. Len(parts) : parts[i] \in Strings
    BY <1>1
  <1>7. s \in [1 .. Len(parts) -> Seq(Bytes)]
    BY <1>5, <1>6, StringBytes, Zenon
  <1>8. s \in Seq(Seq(Bytes)) /\ Len(s) = Len(parts)
    BY <1>1, <1>7
  <1>9. \A i \in 1 .. Len(parts) : s[i] = append_string_bytes(parts[i])
    BY <1>5, <1>6, Zenon
  <1>10. PICK fl : fl = FlattenSeq(s)
    OBVIOUS
  <1>11. fl \in Seq(Bytes)
    BY <1>8, <1>10, FlattenType, Zenon
  <1>12. encode_namespace(parts) = e \o fl
    BY <1>3, <1>5, <1>10, Zenon DEF encode_namespace
  <1>13. e \o fl \in Seq(Bytes) /\ Len(e \o fl) = Len(e) + Len(fl)
    BY <1>4, <1>11, Joined
  <1> QED BY <1>1, <1>2, <1>3, <1>4, <1>6, <1>8, <1>9, <1>10, <1>11, <1>12, <1>13, Zenon

\* ... is read part by part.
LEMMA NamespaceRead ==
    ASSUME NEW buf \in Seq(Bytes), NEW at, NEW parts \in Namespaces,
           Found(buf, at, encode_namespace(parts))
    PROVE  decode_namespace(buf, at) = Read(parts, at + Len(encode_namespace(parts)))
  <1>1. PICK e \in Seq(Bytes), s \in Seq(Seq(Bytes)), fl \in Seq(Bytes) :
              /\ e = encode_varint(Len(parts)) /\ Len(parts) \in Numbers
              /\ Len(s) = Len(parts) /\ parts \in Seq(Strings)
              /\ \A i \in 1 .. Len(parts) : parts[i] \in Strings /\ s[i] = append_string_bytes(parts[i])
              /\ fl = FlattenSeq(s) /\ encode_namespace(parts) = e \o fl
              /\ encode_namespace(parts) \in Seq(Bytes)
              /\ Len(encode_namespace(parts)) = Len(e) + Len(fl)
    BY NamespaceBytes
  <1>18. PICK n \in Nat : n = Len(parts)
    BY <1>1
  <1>2. PICK start : n = Len(parts) /\ start = at + Len(e)
    BY <1>18
  <1>3. Found(buf, at, e) /\ Found(buf, start, fl)
    BY <1>1, <1>2, FoundParts, Zenon
  <1>4. decode_varint(buf, at) = Read(n, start)
    BY <1>1, <1>2, <1>3, NumberRead, Zenon
  <1>5. PICK pos : /\ pos[0] = start /\ pos[n] = start + Len(fl)
                   /\ \A i \in 1 .. n : /\ pos[i - 1] \in Nat /\ pos[i] \in Nat
                                        /\ pos[i] = pos[i - 1] + Len(s[i])
                                        /\ Found(buf, pos[i - 1], s[i])
    <2>1. Found(buf, start, FlattenSeq(s)) /\ n = Len(s) /\ fl = FlattenSeq(s)
      BY <1>1, <1>2, <1>3, Zenon
    <2>2. \E pos : /\ pos[0] = start /\ pos[Len(s)] = start + Len(FlattenSeq(s))
                   /\ \A i \in 1 .. Len(s) : /\ pos[i - 1] \in Nat /\ pos[i] \in Nat
                                             /\ pos[i] = pos[i - 1] + Len(s[i])
                                             /\ Found(buf, pos[i - 1], s[i])
      BY <2>1, FlattenFound
    <2> QED BY <2>1, <2>2, Zenon
  <1>6. ASSUME NEW i \in 1 .. n PROVE read_string(buf, pos[i - 1]) = Read(parts[i], pos[i])
    <2>1. parts[i] \in Strings /\ s[i] = append_string_bytes(parts[i])
      BY <1>1, <1>2, Zenon
    <2>2. Found(buf, pos[i - 1], append_string_bytes(parts[i]))
          /\ pos[i] = pos[i - 1] + Len(append_string_bytes(parts[i]))
      BY <1>5, <2>1, Zenon
    <2>3. read_string(buf, pos[i - 1]) =
             Read(parts[i], pos[i - 1] + Len(append_string_bytes(parts[i])))
      BY <2>1, <2>2, TextRead
    <2> QED BY <2>2, <2>3, Zenon
  <1>7. ASSUME NEW i \in 1 .. n
        PROVE  NextPart(buf, Progress(parts, pos, i - 1)) = Progress(parts, pos, i)
    <2>1. /\ Progress(parts, pos, i - 1).ok
          /\ Progress(parts, pos, i - 1).at = pos[i - 1]
          /\ Read(Append(Progress(parts, pos, i - 1).val, parts[i]), pos[i]) = Progress(parts, pos, i)
      BY <1>1, <1>2, ProgressNext, Zenon
    <2>2. /\ Read(parts[i], pos[i]).ok /\ Read(parts[i], pos[i]).val = parts[i]
          /\ Read(parts[i], pos[i]).at = pos[i]
      BY ReadIs, Zenon
    <2> QED BY <1>6, <2>1, <2>2, Zenon DEF NextPart, Then
  <1>8. PICK g : g = [i \in 0 .. n |-> Progress(parts, pos, i)]
    OBVIOUS
  <1>9. ASSUME NEW i \in 0 .. n
        PROVE  Progress(parts, pos, i) = IF i = 0 THEN Read(<<>>, start) ELSE NextPart(buf, g[i - 1])
    <2>1. CASE i = 0
      BY <1>5, <2>1, ProgressStart, Zenon
    <2>2. CASE i # 0
      <3>1. i \in 1 .. n /\ i - 1 \in 0 .. n
        BY <2>2
      <3>2. g[i - 1] = Progress(parts, pos, i - 1)
        BY <1>8, <3>1, Zenon
      <3> QED BY <1>7, <2>2, <3>1, <3>2, Zenon
    <2> QED BY <2>1, <2>2
  <1>10. PartsRead(buf, n, start, g)
    BY <1>8, <1>9, Zenon DEF PartsRead
  <1>11. PICK f : f = CHOOSE h : PartsRead(buf, n, start, h)
    OBVIOUS
  <1>12. PartsRead(buf, n, start, f)
    BY <1>10, <1>11, Zenon
  <1>13. f[0] = Progress(parts, pos, 0)
    <2>1. 0 \in 0 .. n
      OBVIOUS
    <2> QED BY <1>5, <1>12, <2>1, ProgressStart, Zenon DEF PartsRead
  <1>14. ASSUME NEW i \in 1 .. n, f[i - 1] = Progress(parts, pos, i - 1)
         PROVE  f[i] = Progress(parts, pos, i)
    <2>1. i \in 0 .. n /\ i # 0
      OBVIOUS
    <2>2. f[i] = NextPart(buf, f[i - 1])
      BY <1>12, <2>1, Zenon DEF PartsRead
    <2> QED BY <1>7, <1>14, <2>2, Zenon
  <1>15. f[n] = Read(parts, pos[n])
    BY <1>1, <1>2, <1>13, <1>14, AllRead, Zenon
  <1>16. decode_namespace(buf, at) = f[n]
    <2>1. Read(n, start).ok /\ Read(n, start).val = n /\ Read(n, start).at = start
      BY ReadIs, Zenon
    <2>2. decode_varint(buf, at).ok => decode_namespace(buf, at) =
             (CHOOSE h : PartsRead(buf, decode_varint(buf, at).val, decode_varint(buf, at).at, h))
                [decode_varint(buf, at).val]
      BY Zenon DEF decode_namespace, ReadCounted, ReadMany, PartsRead, NextPart, Then
    <2> QED BY <1>4, <1>11, <2>1, <2>2, Zenon
  <1>17. start + Len(fl) = at + Len(encode_namespace(parts))
    <2>1. at \in Nat /\ Len(e) \in Nat /\ Len(fl) \in Nat
      BY <1>3 DEF Found
    <2> QED BY <1>1, <1>2, <2>1
  <1> QED BY <1>5, <1>15, <1>16, <1>17, Zenon

----------------------------------------------------------------------------
(* Parameters in the order of their keys *)

\* How many parameters have a smaller key.
Rank(all, p) == Cardinality({q \in all : q.key < p.key})

\* If no two keys are the same, every place of the order is taken by one parameter.
LEMMA Ranks ==
    ASSUME NEW all, IsFiniteSet(all), \A p \in all : p.key \in Nat,
           \A p, q \in all : p.key = q.key => p = q
    PROVE  /\ \A p \in all : Rank(all, p) \in 0 .. Cardinality(all) - 1
           /\ \A p, q \in all : p.key < q.key => Rank(all, p) < Rank(all, q)
           /\ \A k \in 0 .. Cardinality(all) - 1 : \E p \in all : Rank(all, p) = k
  <1> DEFINE below(p) == {q \in all : q.key < p.key}
  <1>0. PICK n \in Nat : n = Cardinality(all)
    BY FS_CardinalityType
  <1>1. ASSUME NEW p \in all
        PROVE  IsFiniteSet(below(p)) /\ Rank(all, p) \in Nat /\ Rank(all, p) = Cardinality(below(p))
    <2>1. below(p) \in SUBSET all
      OBVIOUS
    <2>2. IsFiniteSet(below(p))
      BY <2>1, FS_Subset
    <2>3. Rank(all, p) = Cardinality(below(p))
      BY DEF Rank
    <2>4. Cardinality(below(p)) \in Nat
      BY <2>2, FS_CardinalityType
    <2> QED BY <2>2, <2>3, <2>4
  <1>2. ASSUME NEW p \in all PROVE Rank(all, p) \in 0 .. n - 1
    <2>1. IsFiniteSet(all \ {p}) /\ Cardinality(all \ {p}) = n - 1
      BY <1>0, FS_RemoveElement
    <2>2. p \notin below(p)
      OBVIOUS
    <2>3. below(p) \in SUBSET (all \ {p})
      BY <2>2
    <2>4. PICK B, A : B = below(p) /\ A = all \ {p}
      OBVIOUS
    <2>5. B \in SUBSET A /\ IsFiniteSet(A) /\ Cardinality(A) = n - 1
      BY <2>1, <2>3, <2>4
    <2>6. Cardinality(B) <= Cardinality(A)
      BY <2>5, FS_Subset
    <2> HIDE DEF below
    <2> QED BY <1>1, <2>4, <2>5, <2>6
  <1>3. ASSUME NEW p \in all, NEW q \in all, p.key < q.key PROVE Rank(all, p) < Rank(all, q)
    <2>1. p \notin below(p)
      OBVIOUS
    <2>2. below(p) \cup {p} \in SUBSET below(q)
      <3>1. ASSUME NEW x \in below(p) PROVE x \in below(q)
        <4>1. x.key \in Nat /\ p.key \in Nat /\ q.key \in Nat /\ x.key < p.key /\ x \in all
          OBVIOUS
        <4> QED BY <1>3, <4>1
      <3>2. p \in below(q)
        BY <1>3
      <3> QED BY <3>1, <3>2
    <2> HIDE DEF below
    <2>3. Cardinality(below(p) \cup {p}) = Cardinality(below(p)) + 1
      BY <1>1, <2>1, FS_AddElement
    <2>4. Cardinality(below(p) \cup {p}) <= Cardinality(below(q))
      BY <1>1, <2>2, FS_Subset
    <2> QED BY <1>1, <2>3, <2>4
  <1>4. PICK r : r = [p \in all |-> Rank(all, p)]
    OBVIOUS
  <1>5. r \in [all -> 0 .. n - 1]
    BY <1>2, <1>4, Zenon
  <1>6. ASSUME NEW p \in all, NEW q \in all, r[p] = r[q] PROVE p = q
    <2>1. Rank(all, p) = Rank(all, q) /\ Rank(all, p) \in Nat
      BY <1>1, <1>4, <1>6
    <2>2. ~(p.key < q.key) /\ ~(q.key < p.key)
      BY <1>1, <1>3, <2>1
    <2>3. p.key \in Nat /\ q.key \in Nat
      OBVIOUS
    <2>4. p.key = q.key
      BY <2>2, <2>3
    <2> QED BY <2>4
  <1>7. r \in Injection(all, 0 .. n - 1)
    <2>1. DOMAIN r = all
      BY <1>4
    <2> QED BY <1>5, <1>6, <2>1, Zenon DEF Injection, IsInjective
  <1>8. IsFiniteSet(0 .. n - 1) /\ Cardinality(0 .. n - 1) = n
    BY FS_Interval
  <1>9. r \in Surjection(all, 0 .. n - 1)
    BY <1>0, <1>7, <1>8, FS_Injection
  <1>10. ASSUME NEW k \in 0 .. n - 1 PROVE \E p \in all : Rank(all, p) = k
    BY <1>4, <1>9, Zenon DEF Surjection
  <1> QED BY <1>0, <1>2, <1>3, <1>10

\* The elements of a list of parameters.
LEMMA ParamFacts ==
    ASSUME NEW params \in Params
    PROVE  /\ params \in Seq(KvpParams) /\ Len(params) \in Nat /\ Len(params) < Power[2]
           /\ DOMAIN params = 1 .. Len(params)
           /\ \A p \in ToSet(params) : /\ p \in KvpParams /\ p.key \in Numbers /\ p.key \in Nat
                                       /\ p.int_value \in Numbers /\ p.bytes_value \in Strings
           /\ \A p, q \in ToSet(params) : p.key = q.key => p = q
           /\ IsFiniteSet(ToSet(params)) /\ Cardinality(ToSet(params)) = Len(params)
  <1>1. /\ params \in Seq(KvpParams) /\ Len(params) \in Nat /\ Len(params) < Power[2]
        /\ DOMAIN params = 1 .. Len(params)
        /\ \A i, j \in DOMAIN params : params[i].key = params[j].key => i = j
    BY DEF Params
  <1>2. ASSUME NEW p \in ToSet(params)
        PROVE  /\ p \in KvpParams /\ p.key \in Numbers /\ p.key \in Nat
               /\ p.int_value \in Numbers /\ p.bytes_value \in Strings
    <2>1. PICK i \in 1 .. Len(params) : p = params[i]
      BY <1>1, Zenon DEF ToSet
    <2>2. p \in KvpParams
      BY <1>1, <2>1
    <2>3. p \in [key : Numbers, int_value : Numbers, bytes_value : Strings]
      BY <2>2, Zenon DEF KvpParams
    <2>4. p.key \in Numbers /\ p.int_value \in Numbers /\ p.bytes_value \in Strings
      BY <2>3
    <2> QED BY <2>2, <2>4, ByteIsNumber
  <1>3. ASSUME NEW p \in ToSet(params), NEW q \in ToSet(params), p.key = q.key PROVE p = q
    <2>1. PICK i \in DOMAIN params : p = params[i]
      BY Zenon DEF ToSet
    <2>2. PICK j \in DOMAIN params : q = params[j]
      BY Zenon DEF ToSet
    <2>3. i = j
      BY <1>1, <1>3, <2>1, <2>2, Zenon
    <2> QED BY <2>1, <2>2, <2>3, Zenon
  <1>4. params \in [1 .. Len(params) -> ToSet(params)]
    <2>1. \A i \in 1 .. Len(params) : params[i] \in ToSet(params)
      BY <1>1, Zenon DEF ToSet
    <2>2. params = [i \in 1 .. Len(params) |-> params[i]]
      BY <1>1
    <2> QED BY <2>1, <2>2, Zenon
  <1>5. params \in Injection(1 .. Len(params), ToSet(params))
    <2>1. \A i, j \in DOMAIN params : params[i] = params[j] => i = j
      BY <1>1, Zenon
    <2> QED BY <1>1, <1>4, <2>1, Zenon DEF Injection, IsInjective
  <1>6. params \in Surjection(1 .. Len(params), ToSet(params))
    <2>1. \A p \in ToSet(params) : \E i \in 1 .. Len(params) : params[i] = p
      BY <1>1, Zenon DEF ToSet
    <2> QED BY <1>4, <2>1, Zenon DEF Surjection
  <1>7. ExistsBijection(1 .. Len(params), ToSet(params))
    BY <1>5, <1>6, Zenon DEF ExistsBijection, Bijection
  <1>8. IsFiniteSet(1 .. Len(params)) /\ Cardinality(1 .. Len(params)) = Len(params)
    BY <1>1, FS_Interval
  <1>9. IsFiniteSet(ToSet(params)) /\ Cardinality(ToSet(params)) = Len(params)
    BY <1>7, <1>8, FS_Bijection
  <1> QED BY <1>1, <1>2, <1>3, <1>9, Zenon

\* Sorting orders the parameters by their keys and keeps them all.
LEMMA SortedIs ==
    ASSUME NEW params \in Params
    PROVE  /\ Sorted[params] \in Params /\ Len(Sorted[params]) = Len(params)
           /\ ToSet(Sorted[params]) = ToSet(params)
           /\ \A i, j \in 1 .. Len(params) : i < j => Sorted[params][i].key < Sorted[params][j].key
  <1>1. PICK all, n : all = ToSet(params) /\ n = Len(params)
    OBVIOUS
  <1>2. /\ n \in Nat /\ n < Power[2] /\ DOMAIN params = 1 .. n
        /\ \A p \in all : p \in KvpParams /\ p.key \in Nat
        /\ \A p, q \in all : p.key = q.key => p = q
        /\ IsFiniteSet(all) /\ Cardinality(all) = n
    BY <1>1, ParamFacts, Zenon
  <1>3. PICK s : s = Sorted[params]
    OBVIOUS
  <1>4. Sorted[params] = [i \in DOMAIN params |->
              CHOOSE p \in ToSet(params) :
                 Cardinality({q \in ToSet(params) : q.key < p.key}) = i - 1]
    BY Zenon DEF Sorted
  <1>5. s = [i \in 1 .. n |-> CHOOSE p \in all : Rank(all, p) = i - 1]
    <2>1. PICK d : all = ToSet(params) /\ d = DOMAIN params
      BY <1>1
    <2>2. Sorted[params] = [i \in d |-> CHOOSE p \in all :
                                          Cardinality({q \in all : q.key < p.key}) = i - 1]
      BY <1>4, <2>1, Zenon
    <2>3. d = 1 .. n
      BY <1>2, <2>1, Zenon
    <2> QED BY <1>3, <2>2, <2>3, Zenon DEF Rank
  <1>6. /\ \A p \in all : Rank(all, p) \in 0 .. n - 1
        /\ \A p, q \in all : p.key < q.key => Rank(all, p) < Rank(all, q)
        /\ \A k \in 0 .. n - 1 : \E p \in all : Rank(all, p) = k
    BY <1>2, Ranks
  <1>7. ASSUME NEW i \in 1 .. n PROVE s[i] \in all /\ Rank(all, s[i]) = i - 1
    <2>1. i - 1 \in 0 .. n - 1
      BY <1>2
    <2>2. \E p \in all : Rank(all, p) = i - 1
      BY <1>6, <2>1, Zenon
    <2>3. s[i] = CHOOSE p \in all : Rank(all, p) = i - 1
      BY <1>5, Zenon
    <2> QED BY <2>2, <2>3, Zenon
  <1>8. s \in [1 .. n -> KvpParams]
    <2>1. s = [i \in 1 .. n |-> s[i]]
      BY <1>5
    <2> QED BY <1>2, <1>7, <2>1, Zenon
  <1>9. s \in Seq(KvpParams) /\ Len(s) = n /\ DOMAIN s = 1 .. n
    BY <1>2, <1>8
  <1>10. ASSUME NEW i \in 1 .. n, NEW j \in 1 .. n, i < j PROVE s[i].key < s[j].key
    <2>1. PICK p \in all, q \in all : p = s[i] /\ q = s[j]
      BY <1>7, Zenon
    <2>2. Rank(all, p) = i - 1 /\ Rank(all, q) = j - 1
      BY <1>7, <2>1, Zenon
    <2>3. p.key \in Nat /\ q.key \in Nat
      BY <1>2, Zenon
    <2>4. p.key # q.key
      <3>1. p = q => i - 1 = j - 1
        BY <2>2, Zenon
      <3>2. i - 1 # j - 1
        BY <1>10
      <3> QED BY <1>2, <3>1, <3>2, Zenon
    <2>5. ~(q.key < p.key)
      <3>1. q.key < p.key => j - 1 < i - 1
        BY <1>6, <2>2, Zenon
      <3>2. ~(j - 1 < i - 1)
        BY <1>10
      <3> QED BY <3>1, <3>2, Zenon
    <2>6. p.key < q.key
      BY <2>3, <2>4, <2>5
    <2> QED BY <2>1, <2>6, Zenon
  <1>11. \A i, j \in DOMAIN s : s[i].key = s[j].key => i = j
    <2> SUFFICES ASSUME NEW i \in 1 .. n, NEW j \in 1 .. n, s[i].key = s[j].key PROVE i = j
      BY <1>9, Zenon
    <2>1. s[i] = s[j]
      BY <1>2, <1>7, Zenon
    <2>2. i - 1 = j - 1
      BY <1>7, <2>1, Zenon
    <2> QED BY <2>2
  <1>12. s \in Params
    BY <1>2, <1>9, <1>11, Zenon DEF Params
  <1>13. ToSet(s) = all
    <2>1. ASSUME NEW p \in ToSet(s) PROVE p \in all
      <3>1. PICK i \in 1 .. n : p = s[i]
        BY <1>9, Zenon DEF ToSet
      <3> QED BY <1>7, <3>1, Zenon
    <2>2. ASSUME NEW p \in all PROVE p \in ToSet(s)
      <3>1. Rank(all, p) \in 0 .. n - 1
        BY <1>6, Zenon
      <3>2. PICK i \in 1 .. n : i - 1 = Rank(all, p)
        <4>1. Rank(all, p) + 1 \in 1 .. n /\ (Rank(all, p) + 1) - 1 = Rank(all, p)
          BY <1>2, <3>1
        <4> QED BY <4>1, Zenon
      <3>3. PICK x \in all : x = s[i]
        BY <1>7, Zenon
      <3>4. Rank(all, x) = Rank(all, p) /\ Rank(all, p) \in Int
        BY <1>7, <3>1, <3>2, <3>3
      <3>5. ~(x.key < p.key) /\ ~(p.key < x.key)
        BY <1>6, <3>4
      <3>6. x.key = p.key
        BY <1>2, <3>5
      <3>7. x = p
        BY <1>2, <3>6, Zenon
      <3> QED BY <1>9, <3>3, <3>7, Zenon DEF ToSet
    <2> QED BY <2>1, <2>2, Zenon
  <1> QED BY <1>1, <1>3, <1>9, <1>10, <1>12, <1>13, Zenon

\* The order does not depend on the order of the call.
LEMMA SortedSame ==
    ASSUME NEW a \in Params, NEW b \in Params, ToSet(a) = ToSet(b)
    PROVE  Sorted[a] = Sorted[b]
  <1>1. Cardinality(ToSet(a)) = Len(a) /\ Cardinality(ToSet(b)) = Len(b)
    BY ParamFacts
  <1>2. DOMAIN a = 1 .. Len(a) /\ DOMAIN b = 1 .. Len(b)
    BY ParamFacts
  <1>3. DOMAIN a = DOMAIN b
    BY <1>1, <1>2, Zenon
  <1>4. Sorted[a] = [i \in DOMAIN a |->
                       CHOOSE p \in ToSet(a) :
                          Cardinality({q \in ToSet(a) : q.key < p.key}) = i - 1]
    BY Zenon DEF Sorted
  <1>5. Sorted[b] = [i \in DOMAIN b |->
                       CHOOSE p \in ToSet(b) :
                          Cardinality({q \in ToSet(b) : q.key < p.key}) = i - 1]
    BY Zenon DEF Sorted
  <1>6. PICK all, d : all = ToSet(a) /\ d = DOMAIN a
    OBVIOUS
  <1>7. Sorted[a] = [i \in d |-> CHOOSE p \in all :
                                   Cardinality({q \in all : q.key < p.key}) = i - 1]
    BY <1>4, <1>6, Zenon
  <1>8. Sorted[b] = [i \in d |-> CHOOSE p \in all :
                                   Cardinality({q \in all : q.key < p.key}) = i - 1]
    <2>1. all = ToSet(b) /\ d = DOMAIN b
      BY <1>3, <1>6, Zenon
    <2> QED BY <1>5, <2>1, Zenon
  <1> QED BY <1>7, <1>8, Zenon

----------------------------------------------------------------------------
(* Parameters on the wire *)

\* What encode_params() writes for the i-th parameter.
KeyDelta(s, i) == s[i].key - (IF i = 1 THEN 0 ELSE s[i - 1].key)

ParamValue(p) ==
    IF p.key % 2 = 1 THEN append_string_bytes(p.bytes_value) ELSE encode_varint(p.int_value)

\* What decode_params() reads.
KeyBefore(params) == IF params = <<>> THEN 0 ELSE Last(params).key

ReadValue(buf, key, a) ==
    IF key % 2 = 1
    THEN Then(read_string(buf, a), LAMBDA s, b : Read(BytesParam(key, s), b))
    ELSE Then(decode_varint(buf, a), LAMBDA v, b : Read(IntParam(key, v), b))

ReadParam(buf, params, a) ==
    Then(decode_varint(buf, a), LAMBDA delta, b : ReadValue(buf, KeyBefore(params) + delta, b))

NextParam(buf, r) ==
    Then(r, LAMBDA vals, a :
            Then(ReadParam(buf, vals, a), LAMBDA v, b : Read(Append(vals, v), b)))

ParamsRead(buf, n, at, f) ==
    f = [i \in 0 .. n |-> IF i = 0 THEN Read(<<>>, at) ELSE NextParam(buf, f[i - 1])]

\* What is written for the value of a parameter ...
LEMMA ValueBytes == \A p \in KvpParams : ParamValue(p) \in Seq(Bytes) /\ Len(ParamValue(p)) \in Nat
  <1> SUFFICES ASSUME NEW p \in KvpParams
               PROVE  ParamValue(p) \in Seq(Bytes) /\ Len(ParamValue(p)) \in Nat
    OBVIOUS
  <1>1. p \in [key : Numbers, int_value : Numbers, bytes_value : Strings]
    BY Zenon DEF KvpParams
  <1>2. p.int_value \in Numbers /\ p.bytes_value \in Strings
    BY <1>1
  <1>3. /\ append_string_bytes(p.bytes_value) \in Seq(Bytes)
        /\ encode_varint(p.int_value) \in Seq(Bytes)
    BY <1>2, StringBytes, NumberBytes, Zenon
  <1>4. ParamValue(p) \in Seq(Bytes)
    BY <1>3, Zenon DEF ParamValue
  <1> QED BY <1>4

\* ... is read as its key tells.
LEMMA ValueRead ==
    ASSUME NEW buf \in Seq(Bytes), NEW a, NEW p \in KvpParams, Found(buf, a, ParamValue(p))
    PROVE  ReadValue(buf, p.key, a) = Read(p, a + Len(ParamValue(p)))
  <1>1. p \in [key : Numbers, int_value : Numbers, bytes_value : Strings]
        /\ IF p.key % 2 = 1 THEN p.int_value = 0 ELSE p.bytes_value = <<>>
    BY Zenon DEF KvpParams
  <1>2. /\ p.int_value \in Numbers /\ p.bytes_value \in Strings
        /\ p = [key |-> p.key, int_value |-> p.int_value, bytes_value |-> p.bytes_value]
    BY <1>1
  <1>3. CASE p.key % 2 = 1
    <2>1. ParamValue(p) = append_string_bytes(p.bytes_value)
      BY <1>3, Zenon DEF ParamValue
    <2>2. PICK r : r = Read(p.bytes_value, a + Len(ParamValue(p)))
      OBVIOUS
    <2>3. read_string(buf, a) = r
      <3>1. Found(buf, a, append_string_bytes(p.bytes_value))
        BY <2>1, Zenon
      <3>2. read_string(buf, a) =
               Read(p.bytes_value, a + Len(append_string_bytes(p.bytes_value)))
        BY <1>2, <3>1, TextRead, Zenon
      <3> QED BY <2>1, <2>2, <3>2, Zenon
    <2>4. r.ok /\ r.val = p.bytes_value /\ r.at = a + Len(ParamValue(p))
      BY <2>2, ReadIs, Zenon
    <2>5. BytesParam(p.key, p.bytes_value) = p
      BY <1>1, <1>2, <1>3, Zenon DEF BytesParam
    <2> QED BY <1>3, <2>3, <2>4, <2>5, Zenon DEF ReadValue, Then
  <1>4. CASE p.key % 2 # 1
    <2>1. ParamValue(p) = encode_varint(p.int_value)
      BY <1>4, Zenon DEF ParamValue
    <2>2. PICK r : r = Read(p.int_value, a + Len(ParamValue(p)))
      OBVIOUS
    <2>3. decode_varint(buf, a) = r
      <3>1. Found(buf, a, encode_varint(p.int_value))
        BY <2>1, Zenon
      <3>2. decode_varint(buf, a) = Read(p.int_value, a + Len(encode_varint(p.int_value)))
        BY <1>2, <3>1, NumberRead, Zenon
      <3> QED BY <2>1, <2>2, <3>2, Zenon
    <2>4. r.ok /\ r.val = p.int_value /\ r.at = a + Len(ParamValue(p))
      BY <2>2, ReadIs, Zenon
    <2>5. IntParam(p.key, p.int_value) = p
      BY <1>1, <1>2, <1>4, Zenon DEF IntParam
    <2> QED BY <1>4, <2>3, <2>4, <2>5, Zenon DEF ReadValue, Then
  <1> QED BY <1>3, <1>4, Zenon

\* The differences of the sorted keys can be written.
LEMMA DeltaIsNumber ==
    ASSUME NEW params \in Params, NEW i \in 1 .. Len(params)
    PROVE  /\ KeyDelta(Sorted[params], i) \in Numbers
           /\ Sorted[params][i] \in KvpParams
           /\ KeyDelta(Sorted[params], i) + (IF i = 1 THEN 0 ELSE Sorted[params][i - 1].key) =
                 Sorted[params][i].key
  <1>1. PICK s : s = Sorted[params]
    OBVIOUS
  <1>2. s \in Params /\ Len(s) = Len(params)
        /\ \A j, k \in 1 .. Len(params) : j < k => s[j].key < s[k].key
    BY <1>1, SortedIs
  <1>3. \A j \in 1 .. Len(params) : s[j] \in ToSet(s)
    <2>1. DOMAIN s = 1 .. Len(params)
      BY <1>2, ParamFacts
    <2> QED BY <2>1, Zenon DEF ToSet
  <1>4. \A j \in 1 .. Len(params) : s[j] \in KvpParams /\ s[j].key \in Numbers /\ s[j].key \in Nat
    BY <1>2, <1>3, ParamFacts, Zenon
  <1>5. PICK before \in Nat : before = IF i = 1 THEN 0 ELSE s[i - 1].key
    BY <1>4
  <1>6. PICK key \in Numbers : key = s[i].key /\ key \in Nat
    BY <1>4
  <1>7. before <= key
    <2>1. CASE i = 1
      BY <1>5, <1>6, <2>1
    <2>2. CASE i # 1
      <3>1. i - 1 \in 1 .. Len(params) /\ i - 1 < i
        BY <2>2
      <3>2. s[i - 1].key < s[i].key
        BY <1>2, <3>1, Zenon
      <3> QED BY <1>5, <1>6, <2>2, <3>2
    <2> QED BY <2>1, <2>2
  <1>8. key - before \in Nat /\ key - before <= key /\ (key - before) + before = key
    BY <1>6, <1>7
  <1>9. key - before \in Numbers
    BY <1>8, SmallerNumber
  <1>10. KeyDelta(s, i) = key - before
    BY <1>5, <1>6, Zenon DEF KeyDelta
  <1> QED BY <1>1, <1>4, <1>5, <1>6, <1>8, <1>9, <1>10, Zenon

\* What is written for parameters ...
LEMMA ParamBytes ==
    ASSUME NEW params \in Params
    PROVE  \E e \in Seq(Bytes), w \in Seq(Seq(Bytes)), fl \in Seq(Bytes) :
              /\ e = encode_varint(Len(params)) /\ Len(params) \in Numbers
              /\ Len(w) = Len(params)
              /\ \A i \in 1 .. Len(params) :
                    w[i] = encode_varint(KeyDelta(Sorted[params], i)) \o ParamValue(Sorted[params][i])
              /\ fl = FlattenSeq(w) /\ encode_params(params) = e \o fl
              /\ encode_params(params) \in Seq(Bytes)
              /\ Len(encode_params(params)) = Len(e) + Len(fl)
  <1>1. PICK s, n : s = Sorted[params] /\ n = Len(params)
    OBVIOUS
  <1>2. n \in Nat /\ n \in Numbers
    BY <1>1, ParamFacts, LengthIsNumber
  <1>3. Len(s) = n /\ DOMAIN s = 1 .. n
    <2>1. s \in Params /\ Len(s) = n
      BY <1>1, SortedIs, Zenon
    <2> QED BY <2>1, ParamFacts
  <1>4. PICK e : e = encode_varint(n)
    OBVIOUS
  <1>5. e \in Seq(Bytes)
    BY <1>2, <1>4, NumberBytes, Zenon
  <1>6. PICK w : w = [i \in DOMAIN s |-> encode_varint(KeyDelta(s, i)) \o ParamValue(s[i])]
    OBVIOUS
  <1>7. ASSUME NEW i \in 1 .. n
        PROVE  encode_varint(KeyDelta(s, i)) \o ParamValue(s[i]) \in Seq(Bytes)
    <2>1. KeyDelta(s, i) \in Numbers /\ s[i] \in KvpParams
      BY <1>1, DeltaIsNumber, Zenon
    <2>2. encode_varint(KeyDelta(s, i)) \in Seq(Bytes) /\ ParamValue(s[i]) \in Seq(Bytes)
      BY <2>1, NumberBytes, ValueBytes, Zenon
    <2> QED BY <2>2, Joined
  <1>8. w \in [1 .. n -> Seq(Bytes)] /\ \A i \in 1 .. n :
           w[i] = encode_varint(KeyDelta(s, i)) \o ParamValue(s[i])
    BY <1>3, <1>6, <1>7, Zenon
  <1>9. w \in Seq(Seq(Bytes)) /\ Len(w) = n
    <2>1. w \in [1 .. n -> Seq(Bytes)]
      BY <1>8, Zenon
    <2> QED BY <1>2, <2>1
  <1>10. PICK fl : fl = FlattenSeq(w)
    OBVIOUS
  <1>11. fl \in Seq(Bytes)
    BY <1>9, <1>10, FlattenType, Zenon
  <1>12. encode_params(params) = e \o fl
    <2>1. encode_params(params) = encode_varint(Len(s)) \o
             FlattenSeq([i \in DOMAIN s |-> encode_varint(KeyDelta(s, i)) \o ParamValue(s[i])])
      BY <1>1, Zenon DEF encode_params, KeyDelta, ParamValue
    <2> QED BY <1>3, <1>4, <1>6, <1>10, <2>1, Zenon
  <1>13. e \o fl \in Seq(Bytes) /\ Len(e \o fl) = Len(e) + Len(fl)
    BY <1>5, <1>11, Joined
  <1> QED BY <1>1, <1>2, <1>4, <1>5, <1>8, <1>9, <1>10, <1>11, <1>12, <1>13, Zenon

\* ... is read in the order of the keys.
LEMMA ParamsReadBack ==
    ASSUME NEW buf \in Seq(Bytes), NEW at, NEW params \in Params,
           Found(buf, at, encode_params(params))
    PROVE  decode_params(buf, at) = Read(Sorted[params], at + Len(encode_params(params)))
  <1>1. PICK e \in Seq(Bytes), w \in Seq(Seq(Bytes)), fl \in Seq(Bytes) :
              /\ e = encode_varint(Len(params)) /\ Len(params) \in Numbers
              /\ Len(w) = Len(params)
              /\ \A i \in 1 .. Len(params) :
                    w[i] = encode_varint(KeyDelta(Sorted[params], i)) \o ParamValue(Sorted[params][i])
              /\ fl = FlattenSeq(w) /\ encode_params(params) = e \o fl
              /\ encode_params(params) \in Seq(Bytes)
              /\ Len(encode_params(params)) = Len(e) + Len(fl)
    BY ParamBytes
  <1>28. PICK n \in Nat : n = Len(params)
    BY ParamFacts
  <1>2. PICK start, s : n = Len(params) /\ start = at + Len(e) /\ s = Sorted[params]
    BY <1>28, Zenon
  <1>3. Found(buf, at, e) /\ Found(buf, start, fl)
    BY <1>1, <1>2, FoundParts, Zenon
  <1>4. decode_varint(buf, at) = Read(n, start)
    BY <1>1, <1>2, <1>3, NumberRead, Zenon
  <1>5. PICK pos : /\ pos[0] = start /\ pos[n] = start + Len(fl)
                   /\ \A i \in 1 .. n : /\ pos[i - 1] \in Nat /\ pos[i] \in Nat
                                        /\ pos[i] = pos[i - 1] + Len(w[i])
                                        /\ Found(buf, pos[i - 1], w[i])
    <2>1. Found(buf, start, FlattenSeq(w)) /\ n = Len(w) /\ fl = FlattenSeq(w)
      BY <1>1, <1>2, <1>3, Zenon
    <2>2. \E pos : /\ pos[0] = start /\ pos[Len(w)] = start + Len(FlattenSeq(w))
                   /\ \A i \in 1 .. Len(w) : /\ pos[i - 1] \in Nat /\ pos[i] \in Nat
                                             /\ pos[i] = pos[i - 1] + Len(w[i])
                                             /\ Found(buf, pos[i - 1], w[i])
      BY <2>1, FlattenFound
    <2> QED BY <2>1, <2>2, Zenon
  <1>6. s \in Seq(KvpParams) /\ Len(s) = n
    BY <1>2, SortedIs, ParamFacts, Zenon
  <1>7. ASSUME NEW i \in 1 .. n
        PROVE  ReadParam(buf, SubSeq(s, 1, i - 1), pos[i - 1]) = Read(s[i], pos[i])
    <2>1. PICK d, v : d = encode_varint(KeyDelta(s, i)) /\ v = ParamValue(s[i])
      OBVIOUS
    <2>2. /\ KeyDelta(s, i) \in Numbers /\ s[i] \in KvpParams
          /\ KeyDelta(s, i) + (IF i = 1 THEN 0 ELSE s[i - 1].key) = s[i].key
      BY <1>2, DeltaIsNumber, Zenon
    <2>3. d \in Seq(Bytes) /\ v \in Seq(Bytes) /\ Len(d) \in Nat /\ Len(v) \in Nat
      <3>1. d \in Seq(Bytes) /\ v \in Seq(Bytes)
        BY <2>1, <2>2, NumberBytes, ValueBytes, Zenon
      <3> QED BY <3>1
    <2>24. PICK a \in Nat : a = pos[i - 1]
      BY <1>5, Zenon
    <2>4. PICK m : a = pos[i - 1] /\ m = a + Len(d)
      BY <2>24, Zenon
    <2>5. w[i] = d \o v
      BY <1>1, <1>2, <2>1, Zenon
    <2>6. Found(buf, a, d) /\ Found(buf, m, v)
      <3>1. Found(buf, a, d \o v)
        BY <1>5, <2>4, <2>5, Zenon
      <3> QED BY <2>3, <2>4, <3>1, FoundParts, Zenon
    <2>7. pos[i] = m + Len(v)
      <3>1. Len(d \o v) = Len(d) + Len(v)
        BY <2>3, Joined
      <3>2. pos[i] = a + (Len(d) + Len(v))
        BY <1>5, <2>4, <2>5, <3>1, Zenon
      <3>3. PICK k \in Nat, l \in Nat : k = Len(d) /\ l = Len(v)
        BY <2>3
      <3>4. pos[i] = a + (k + l) /\ m = a + k
        BY <2>4, <3>2, <3>3, Zenon
      <3>5. a + (k + l) = (a + k) + l
        OBVIOUS
      <3> QED BY <3>3, <3>4, <3>5, Zenon
    <2>8. decode_varint(buf, a) = Read(KeyDelta(s, i), m)
      BY <2>1, <2>2, <2>4, <2>6, NumberRead, Zenon
    <2>9. ReadValue(buf, s[i].key, m) = Read(s[i], m + Len(v))
      BY <2>1, <2>2, <2>6, ValueRead, Zenon
    <2>10. KeyBefore(SubSeq(s, 1, i - 1)) = IF i = 1 THEN 0 ELSE s[i - 1].key
      <3>1. PICK u : u = SubSeq(s, 1, i - 1)
        OBVIOUS
      <3>2. Len(u) = i - 1 /\ (i > 1 => u[i - 1] = s[i - 1])
        BY <1>6, <3>1, Grows
      <3>3. CASE i = 1
        <4>1. u = <<>>
          BY <3>1, <3>3, SubSeqEmpty
        <4> QED BY <3>1, <3>3, <4>1, Zenon DEF KeyBefore
      <3>4. CASE i # 1
        <4>1. u # <<>> /\ u[Len(u)] = s[i - 1]
          <5>1. Len(<<>>) = 0
            OBVIOUS
          <5> QED BY <3>2, <3>4, <5>1
        <4> QED BY <3>1, <3>4, <4>1, Zenon DEF KeyBefore, Last
      <3> QED BY <3>3, <3>4
    <2>11. KeyBefore(SubSeq(s, 1, i - 1)) + KeyDelta(s, i) = s[i].key
      <3>1. PICK b \in Nat, k \in Nat : b = (IF i = 1 THEN 0 ELSE s[i - 1].key) /\ k = KeyDelta(s, i)
        <4>1. s[i - 1].key \in Nat \/ i = 1
          <5>1. i # 1 => i - 1 \in 1 .. n
            OBVIOUS
          <5>2. i # 1 => s[i - 1] \in KvpParams
            BY <1>2, <5>1, DeltaIsNumber, Zenon
          <5>3. \A p \in KvpParams : p.key \in Nat
            <6>1. \A p \in [key : Numbers, int_value : Numbers, bytes_value : Strings] : p.key \in Nat
              BY ByteIsNumber
            <6> QED BY <6>1, Zenon DEF KvpParams
          <5> QED BY <5>2, <5>3, Zenon
        <4>2. KeyDelta(s, i) \in Nat
          BY <2>2, ByteIsNumber
        <4> QED BY <4>1, <4>2
      <3>2. k + b = s[i].key
        BY <2>2, <3>1, Zenon
      <3>3. b + k = k + b
        OBVIOUS
      <3> QED BY <2>10, <3>1, <3>2, <3>3, Zenon
    <2>12. PICK r : r = Read(KeyDelta(s, i), m)
      OBVIOUS
    <2>13. r.ok /\ r.val = KeyDelta(s, i) /\ r.at = m
      BY <2>12, ReadIs, Zenon
    <2>14. ReadParam(buf, SubSeq(s, 1, i - 1), a) = ReadValue(buf, s[i].key, m)
      BY <2>8, <2>11, <2>12, <2>13, Zenon DEF ReadParam, Then
    <2> QED BY <2>4, <2>7, <2>9, <2>14, Zenon
  <1>8. ASSUME NEW i \in 1 .. n
        PROVE  NextParam(buf, Progress(s, pos, i - 1)) = Progress(s, pos, i)
    <2>1. /\ Progress(s, pos, i - 1).ok
          /\ Progress(s, pos, i - 1).at = pos[i - 1]
          /\ Read(Append(Progress(s, pos, i - 1).val, s[i]), pos[i]) = Progress(s, pos, i)
      BY <1>6, ProgressNext, Zenon
    <2>2. Progress(s, pos, i - 1).val = SubSeq(s, 1, i - 1)
      BY ReadIs, Zenon DEF Progress
    <2>3. /\ Read(s[i], pos[i]).ok /\ Read(s[i], pos[i]).val = s[i]
          /\ Read(s[i], pos[i]).at = pos[i]
      BY ReadIs, Zenon
    <2> QED BY <1>7, <2>1, <2>2, <2>3, Zenon DEF NextParam, Then
  <1>9. PICK g : g = [i \in 0 .. n |-> Progress(s, pos, i)]
    OBVIOUS
  <1>10. ASSUME NEW i \in 0 .. n
         PROVE  Progress(s, pos, i) = IF i = 0 THEN Read(<<>>, start) ELSE NextParam(buf, g[i - 1])
    <2>1. CASE i = 0
      BY <1>5, <2>1, ProgressStart, Zenon
    <2>2. CASE i # 0
      <3>1. i \in 1 .. n /\ i - 1 \in 0 .. n
        BY <2>2
      <3>2. g[i - 1] = Progress(s, pos, i - 1)
        BY <1>9, <3>1, Zenon
      <3> QED BY <1>8, <2>2, <3>1, <3>2, Zenon
    <2> QED BY <2>1, <2>2
  <1>11. ParamsRead(buf, n, start, g)
    BY <1>9, <1>10, Zenon DEF ParamsRead
  <1>12. PICK f : f = CHOOSE h : ParamsRead(buf, n, start, h)
    OBVIOUS
  <1>13. ParamsRead(buf, n, start, f)
    BY <1>11, <1>12, Zenon
  <1>14. f[0] = Progress(s, pos, 0)
    <2>1. 0 \in 0 .. n
      OBVIOUS
    <2> QED BY <1>5, <1>13, <2>1, ProgressStart, Zenon DEF ParamsRead
  <1>15. ASSUME NEW i \in 1 .. n, f[i - 1] = Progress(s, pos, i - 1)
         PROVE  f[i] = Progress(s, pos, i)
    <2>1. i \in 0 .. n /\ i # 0
      OBVIOUS
    <2>2. f[i] = NextParam(buf, f[i - 1])
      BY <1>13, <2>1, Zenon DEF ParamsRead
    <2> QED BY <1>8, <1>15, <2>2, Zenon
  <1>16. f[n] = Read(s, pos[n])
    BY <1>6, <1>14, <1>15, AllRead, Zenon
  <1>17. decode_params(buf, at) = f[n]
    <2>1. Read(n, start).ok /\ Read(n, start).val = n /\ Read(n, start).at = start
      BY ReadIs, Zenon
    <2>2. decode_varint(buf, at).ok => decode_params(buf, at) =
             (CHOOSE h : ParamsRead(buf, decode_varint(buf, at).val, decode_varint(buf, at).at, h))
                [decode_varint(buf, at).val]
      BY Zenon DEF decode_params, ReadCounted, ReadMany, ParamsRead, NextParam, ReadParam,
                   ReadValue, KeyBefore, Then
    <2> QED BY <1>4, <1>12, <2>1, <2>2, Zenon
  <1>18. start + Len(fl) = at + Len(encode_params(params))
    <2>1. at \in Nat /\ Len(e) \in Nat /\ Len(fl) \in Nat
      BY <1>3 DEF Found
    <2> QED BY <1>1, <1>2, <2>1
  <1> QED BY <1>2, <1>5, <1>16, <1>17, <1>18, Zenon

----------------------------------------------------------------------------
(* Fields *)

\* The bytes s stand for the value v of a field, wherever they are found.
Stands(kind, v, s) ==
    /\ s \in Seq(Bytes)
    /\ \A buf \in Seq(Bytes) :
          \A at : Found(buf, at, s) => ReadField(kind, buf, at) = Read(v, at + Len(s))

\* What encode_varint() writes is a number, ...
LEMMA NumberStands == \A v \in Numbers : Stands("varint", v, encode_varint(v))
  <1>1. ASSUME NEW v \in Numbers, NEW buf \in Seq(Bytes), NEW at, Found(buf, at, encode_varint(v))
        PROVE  ReadField("varint", buf, at) = Read(v, at + Len(encode_varint(v)))
    <2>1. ReadField("varint", buf, at) = decode_varint(buf, at)
      BY DEF ReadField
    <2> QED BY <1>1, <2>1, NumberRead, Zenon
  <1> QED BY <1>1, NumberBytes, Zenon DEF Stands

\* ... append_string_bytes() a string, ...
LEMMA TextStands == \A s \in Strings : Stands("string", s, append_string_bytes(s))
  <1>1. ASSUME NEW s \in Strings, NEW buf \in Seq(Bytes), NEW at, Found(buf, at, append_string_bytes(s))
        PROVE  ReadField("string", buf, at) = Read(s, at + Len(append_string_bytes(s)))
    <2>1. ReadField("string", buf, at) = read_string(buf, at)
      BY DEF ReadField
    <2> QED BY <1>1, <2>1, TextRead, Zenon
  <1> QED BY <1>1, StringBytes, Zenon DEF Stands

\* ... encode_namespace() a namespace ...
LEMMA NamespaceStands == \A s \in Namespaces : Stands("namespace", s, encode_namespace(s))
  <1>1. ASSUME NEW s \in Namespaces, NEW buf \in Seq(Bytes), NEW at, Found(buf, at, encode_namespace(s))
        PROVE  ReadField("namespace", buf, at) = Read(s, at + Len(encode_namespace(s)))
    <2>1. ReadField("namespace", buf, at) = decode_namespace(buf, at)
      BY DEF ReadField
    <2> QED BY <1>1, <2>1, NamespaceRead, Zenon
  <1>2. ASSUME NEW s \in Namespaces PROVE encode_namespace(s) \in Seq(Bytes)
    BY NamespaceBytes
  <1> QED BY <1>1, <1>2, Zenon DEF Stands

\* ... and encode_params() the parameters in the order of their keys.
LEMMA ParamsStand == \A s \in Params : Stands("params", Sorted[s], encode_params(s))
  <1>1. ASSUME NEW s \in Params, NEW buf \in Seq(Bytes), NEW at, Found(buf, at, encode_params(s))
        PROVE  ReadField("params", buf, at) = Read(Sorted[s], at + Len(encode_params(s)))
    <2>1. ReadField("params", buf, at) = decode_params(buf, at)
      BY DEF ReadField
    <2> QED BY <1>1, <2>1, ParamsReadBack, Zenon
  <1>2. ASSUME NEW s \in Params PROVE encode_params(s) \in Seq(Bytes)
    BY ParamBytes
  <1> QED BY <1>1, <1>2, Zenon DEF Stands

\* What ReadFields() computes, read after read.
NextField(layout, buf, r) ==
    Then(r, LAMBDA vals, a :
            Then(ReadField(layout[Len(vals) + 1], buf, a), LAMBDA v, b : Read(Append(vals, v), b)))

FieldsRead(layout, buf, at, f) ==
    f = [i \in 0 .. Len(layout) |-> IF i = 0 THEN Read(<<>>, at) ELSE NextField(layout, buf, f[i - 1])]

\* Fields that can be read one after the other are all read.
LEMMA AllFields ==
    ASSUME NEW V, NEW vals \in Seq(V), NEW layout, NEW buf, NEW pos, Len(layout) = Len(vals),
           \A i \in 1 .. Len(vals) : ReadField(layout[i], buf, pos[i - 1]) = Read(vals[i], pos[i])
    PROVE  ReadFields(layout, buf, pos[0]) = Read(vals, pos[Len(vals)])
  <1>1. PICK n \in Nat : n = Len(vals)
    OBVIOUS
  <1>2. ASSUME NEW i \in 1 .. n
        PROVE  NextField(layout, buf, Progress(vals, pos, i - 1)) = Progress(vals, pos, i)
    <2>1. /\ Progress(vals, pos, i - 1).ok
          /\ Progress(vals, pos, i - 1).at = pos[i - 1]
          /\ Read(Append(Progress(vals, pos, i - 1).val, vals[i]), pos[i]) = Progress(vals, pos, i)
      BY <1>1, ProgressNext, Zenon
    <2>2. Progress(vals, pos, i - 1).val = SubSeq(vals, 1, i - 1)
      BY ReadIs, Zenon DEF Progress
    <2>3. Len(SubSeq(vals, 1, i - 1)) + 1 = i
      <3>1. Len(SubSeq(vals, 1, i - 1)) = i - 1
        BY <1>1, Grows
      <3> QED BY <3>1
    <2>4. ReadField(layout[i], buf, pos[i - 1]) = Read(vals[i], pos[i])
      BY <1>1, Zenon
    <2>5. /\ Read(vals[i], pos[i]).ok /\ Read(vals[i], pos[i]).val = vals[i]
          /\ Read(vals[i], pos[i]).at = pos[i]
      BY ReadIs, Zenon
    <2> QED BY <2>1, <2>2, <2>3, <2>4, <2>5, Zenon DEF NextField, Then
  <1>3. PICK g : g = [i \in 0 .. n |-> Progress(vals, pos, i)]
    OBVIOUS
  <1>4. ASSUME NEW i \in 0 .. n
        PROVE  Progress(vals, pos, i) =
                  IF i = 0 THEN Read(<<>>, pos[0]) ELSE NextField(layout, buf, g[i - 1])
    <2>1. CASE i = 0
      BY <2>1, ProgressStart, Zenon
    <2>2. CASE i # 0
      <3>1. i \in 1 .. n /\ i - 1 \in 0 .. n
        BY <2>2
      <3>2. g[i - 1] = Progress(vals, pos, i - 1)
        BY <1>3, <3>1, Zenon
      <3> QED BY <1>2, <2>2, <3>1, <3>2, Zenon
    <2> QED BY <2>1, <2>2
  <1>5. FieldsRead(layout, buf, pos[0], g)
    BY <1>1, <1>3, <1>4, Zenon DEF FieldsRead
  <1>6. PICK f : f = CHOOSE h : FieldsRead(layout, buf, pos[0], h)
    OBVIOUS
  <1>7. FieldsRead(layout, buf, pos[0], f)
    BY <1>5, <1>6, Zenon
  <1>8. f[0] = Progress(vals, pos, 0)
    <2>1. 0 \in 0 .. n
      OBVIOUS
    <2> QED BY <1>1, <1>7, <2>1, ProgressStart, Zenon DEF FieldsRead
  <1>9. ASSUME NEW i \in 1 .. n, f[i - 1] = Progress(vals, pos, i - 1)
        PROVE  f[i] = Progress(vals, pos, i)
    <2>1. i \in 0 .. n /\ i # 0
      OBVIOUS
    <2>2. f[i] = NextField(layout, buf, f[i - 1])
      BY <1>1, <1>7, <2>1, Zenon DEF FieldsRead
    <2> QED BY <1>2, <1>9, <2>2, Zenon
  <1>10. f[n] = Read(vals, pos[n])
    BY <1>1, <1>8, <1>9, AllRead, Zenon
  <1>11. ReadFields(layout, buf, pos[0]) = f[n]
    BY <1>1, <1>6, Zenon DEF ReadFields, ReadMany, FieldsRead, NextField, Then
  <1> QED BY <1>1, <1>10, <1>11, Zenon

\* The fields of a content that holds them are all read.
LEMMA FieldsBack ==
    ASSUME NEW V, NEW vals \in Seq(V), NEW layout, NEW texts \in Seq(Seq(Bytes)),
           Len(layout) = Len(vals), Len(texts) = Len(vals),
           \A i \in 1 .. Len(vals) : Stands(layout[i], vals[i], texts[i])
    PROVE  /\ FlattenSeq(texts) \in Seq(Bytes)
           /\ ReadFields(layout, FlattenSeq(texts), 0) = Read(vals, Len(FlattenSeq(texts)))
  <1>1. PICK content \in Seq(Bytes) : content = FlattenSeq(texts)
    BY FlattenType
  <1>2. Found(content, 0, content)
    BY FoundWhole
  <1>3. PICK n : n = Len(vals)
    OBVIOUS
  <1>4. PICK l \in Nat : l = Len(content)
    OBVIOUS
  <1>5. PICK pos : /\ pos[0] = 0 /\ pos[n] = l
                   /\ \A i \in 1 .. n : /\ pos[i] = pos[i - 1] + Len(texts[i])
                                        /\ Found(content, pos[i - 1], texts[i])
    <2>1. Found(content, 0, FlattenSeq(texts))
      BY <1>1, <1>2, Zenon
    <2>2. \E pos : /\ pos[0] = 0 /\ pos[Len(texts)] = 0 + Len(FlattenSeq(texts))
                   /\ \A i \in 1 .. Len(texts) : /\ pos[i - 1] \in Nat /\ pos[i] \in Nat
                                                 /\ pos[i] = pos[i - 1] + Len(texts[i])
                                                 /\ Found(content, pos[i - 1], texts[i])
      BY <2>1, FlattenFound
    <2>3. 0 + Len(FlattenSeq(texts)) = l
      BY <1>1, <1>4
    <2> QED BY <1>3, <2>2, <2>3, Zenon
  <1>6. \A i \in 1 .. n : ReadField(layout[i], content, pos[i - 1]) = Read(vals[i], pos[i])
    <2> SUFFICES ASSUME NEW i \in 1 .. n
                 PROVE  ReadField(layout[i], content, pos[i - 1]) = Read(vals[i], pos[i])
      OBVIOUS
    <2>1. Stands(layout[i], vals[i], texts[i]) /\ Found(content, pos[i - 1], texts[i])
      BY <1>3, <1>5, Zenon
    <2>2. ReadField(layout[i], content, pos[i - 1]) = Read(vals[i], pos[i - 1] + Len(texts[i]))
      BY <2>1, Zenon DEF Stands
    <2>3. pos[i - 1] + Len(texts[i]) = pos[i]
      BY <1>5, Zenon
    <2> QED BY <2>2, <2>3, Zenon
  <1>7. ReadFields(layout, content, pos[0]) = Read(vals, pos[Len(vals)])
    <2>1. \A i \in 1 .. Len(vals) : ReadField(layout[i], content, pos[i - 1]) = Read(vals[i], pos[i])
      BY <1>3, <1>6, Zenon
    <2> QED BY <2>1, AllFields, ZenonT(30)
  <1> QED BY <1>1, <1>3, <1>4, <1>5, <1>7, Zenon

\* A sequence written out, and one element more.
LEMMA OneMore ==
    /\ \A S : \A a \in S : <<>> \in Seq(S) /\ Append(<<>>, a) = <<a>>
    /\ \A S : \A a, b \in S : <<a>> \in Seq(S) /\ Append(<<a>>, b) = <<a, b>>
    /\ \A S : \A a, b, c \in S : <<a, b>> \in Seq(S) /\ Append(<<a, b>>, c) = <<a, b, c>>
    /\ \A S : \A a, b, c, d \in S : <<a, b, c>> \in Seq(S) /\ Append(<<a, b, c>>, d) = <<a, b, c, d>>
  <1>1. ASSUME NEW S, NEW a \in S PROVE <<>> \in Seq(S) /\ Append(<<>>, a) = <<a>>
    OBVIOUS
  <1>2. ASSUME NEW S, NEW a \in S, NEW b \in S
        PROVE  <<a>> \in Seq(S) /\ Append(<<a>>, b) = <<a, b>>
    <2>1. PICK p, q : p = Append(<<a>>, b) /\ q = <<a, b>>
      OBVIOUS
    <2>2. <<a>> \in Seq(S)
      OBVIOUS
    <2>3. p \in Seq(S) /\ Len(p) = 2 /\ p[1] = a /\ p[2] = b
      BY <2>1, <2>2
    <2>4. q \in Seq(S) /\ Len(q) = 2 /\ q[1] = a /\ q[2] = b
      BY <2>1
    <2>5. \A i \in 1 .. Len(p) : p[i] = q[i]
      <3>1. \A i \in 1 .. 2 : i = 1 \/ i = 2
        OBVIOUS
      <3> QED BY <2>3, <2>4, <3>1, Zenon
    <2>6. p = q
      <3>1. Len(p) = Len(q)
        BY <2>3, <2>4, Zenon
      <3> QED BY <2>3, <2>4, <2>5, <3>1, SeqEqual, Zenon
    <2> QED BY <2>1, <2>2, <2>6, Zenon
  <1>3. ASSUME NEW S, NEW a \in S, NEW b \in S, NEW c \in S
        PROVE  <<a, b>> \in Seq(S) /\ Append(<<a, b>>, c) = <<a, b, c>>
    <2>1. PICK p, q : p = Append(<<a, b>>, c) /\ q = <<a, b, c>>
      OBVIOUS
    <2>2. <<a, b>> \in Seq(S)
      OBVIOUS
    <2>3. p \in Seq(S) /\ Len(p) = 3 /\ p[1] = a /\ p[2] = b /\ p[3] = c
      BY <2>1, <2>2
    <2>4. q \in Seq(S) /\ Len(q) = 3 /\ q[1] = a /\ q[2] = b /\ q[3] = c
      BY <2>1
    <2>5. \A i \in 1 .. Len(p) : p[i] = q[i]
      <3>1. \A i \in 1 .. 3 : i = 1 \/ i = 2 \/ i = 3
        OBVIOUS
      <3> QED BY <2>3, <2>4, <3>1, Zenon
    <2>6. p = q
      <3>1. Len(p) = Len(q)
        BY <2>3, <2>4, Zenon
      <3> QED BY <2>3, <2>4, <2>5, <3>1, SeqEqual, Zenon
    <2> QED BY <2>1, <2>2, <2>6, Zenon
  <1>4. ASSUME NEW S, NEW a \in S, NEW b \in S, NEW c \in S, NEW d \in S
        PROVE  <<a, b, c>> \in Seq(S) /\ Append(<<a, b, c>>, d) = <<a, b, c, d>>
    <2>1. PICK p, q : p = Append(<<a, b, c>>, d) /\ q = <<a, b, c, d>>
      OBVIOUS
    <2>2. <<a, b, c>> \in Seq(S)
      OBVIOUS
    <2>3. p \in Seq(S) /\ Len(p) = 4 /\ p[1] = a /\ p[2] = b /\ p[3] = c /\ p[4] = d
      BY <2>1, <2>2
    <2>4. q \in Seq(S) /\ Len(q) = 4 /\ q[1] = a /\ q[2] = b /\ q[3] = c /\ q[4] = d
      BY <2>1
    <2>5. \A i \in 1 .. Len(p) : p[i] = q[i]
      <3>1. \A i \in 1 .. 4 : i = 1 \/ i = 2 \/ i = 3 \/ i = 4
        OBVIOUS
      <3> QED BY <2>3, <2>4, <3>1, Zenon
    <2>6. p = q
      <3>1. Len(p) = Len(q)
        BY <2>3, <2>4, Zenon
      <3> QED BY <2>3, <2>4, <2>5, <3>1, SeqEqual, Zenon
    <2> QED BY <2>1, <2>2, <2>6, Zenon
  <1> QED BY <1>1, <1>2, <1>3, <1>4, Zenon

\* A few pieces one after the other.
LEMMA FlattenThree ==
    ASSUME NEW a \in Seq(Bytes), NEW b \in Seq(Bytes), NEW c \in Seq(Bytes)
    PROVE  FlattenSeq(<<a, b, c>>) = (a \o b) \o c
  <1>1. PICK S : S = Seq(Bytes)
    OBVIOUS
  <1>2. a \in S /\ b \in S /\ c \in S
    BY <1>1
  <1>3. ASSUME NEW s \in Seq(S), NEW x \in S PROVE FlattenSeq(Append(s, x)) = FlattenSeq(s) \o x
    BY <1>1, FlattenAppend
  <1>4. FlattenSeq(<<>>) = <<>> /\ <<>> \o a = a
    <2>1. <<>> \o a = a
      BY ConcatEmptySeq
    <2> QED BY <2>1, FlattenEmpty, Zenon
  <1>5. FlattenSeq(<<a>>) = a
    <2>1. <<>> \in Seq(S) /\ Append(<<>>, a) = <<a>>
      BY <1>2, OneMore, Zenon
    <2>2. FlattenSeq(Append(<<>>, a)) = FlattenSeq(<<>>) \o a
      BY <1>2, <1>3, <2>1
    <2> QED BY <1>4, <2>1, <2>2, Zenon
  <1>6. FlattenSeq(<<a, b>>) = a \o b
    <2>1. <<a>> \in Seq(S) /\ Append(<<a>>, b) = <<a, b>>
      BY <1>2, OneMore, Zenon
    <2>2. FlattenSeq(Append(<<a>>, b)) = FlattenSeq(<<a>>) \o b
      BY <1>2, <1>3, <2>1
    <2> QED BY <1>5, <2>1, <2>2, Zenon
  <1>7. FlattenSeq(<<a, b, c>>) = (a \o b) \o c
    <2>1. <<a, b>> \in Seq(S) /\ Append(<<a, b>>, c) = <<a, b, c>>
      BY <1>2, OneMore, Zenon
    <2>2. FlattenSeq(Append(<<a, b>>, c)) = FlattenSeq(<<a, b>>) \o c
      BY <1>2, <1>3, <2>1
    <2> QED BY <1>6, <2>1, <2>2, Zenon
  <1> QED BY <1>7

\* Messages of three fields ...
LEMMA ThreeFields ==
    ASSUME NEW k1, NEW k2, NEW k3, NEW v1, NEW v2, NEW v3, NEW s1, NEW s2, NEW s3,
           Stands(k1, v1, s1), Stands(k2, v2, s2), Stands(k3, v3, s3)
    PROVE  /\ (s1 \o s2) \o s3 \in Seq(Bytes)
           /\ ReadFields(<<k1, k2, k3>>, (s1 \o s2) \o s3, 0) =
                 Read(<<v1, v2, v3>>, Len((s1 \o s2) \o s3))
  <1>1. PICK S, V : S = Seq(Bytes) /\ V = {v1, v2, v3}
    OBVIOUS
  <1>2. s1 \in S /\ s2 \in S /\ s3 \in S
    BY <1>1 DEF Stands
  <1>3. v1 \in V /\ v2 \in V /\ v3 \in V
    BY <1>1
  <1>4. <<s1, s2, s3>> \in Seq(S) /\ <<v1, v2, v3>> \in Seq(V)
    BY <1>2, <1>3
  <1>5. \A x, y, z : /\ Len(<<x, y, z>>) = 3 /\ <<x, y, z>>[1] = x /\ <<x, y, z>>[2] = y
                     /\ <<x, y, z>>[3] = z
    OBVIOUS
  <1>6. \A i \in 1 .. 3 : i = 1 \/ i = 2 \/ i = 3
    OBVIOUS
  <1>7. \A i \in 1 .. 3 : Stands(<<k1, k2, k3>>[i], <<v1, v2, v3>>[i], <<s1, s2, s3>>[i])
    <2>1. Stands(<<k1, k2, k3>>[1], <<v1, v2, v3>>[1], <<s1, s2, s3>>[1])
      BY <1>5, Zenon
    <2>2. Stands(<<k1, k2, k3>>[2], <<v1, v2, v3>>[2], <<s1, s2, s3>>[2])
      BY <1>5, Zenon
    <2>3. Stands(<<k1, k2, k3>>[3], <<v1, v2, v3>>[3], <<s1, s2, s3>>[3])
      BY <1>5, Zenon
    <2> QED BY <1>6, <2>1, <2>2, <2>3, Zenon
  <1>8. PICK layout, vals, texts : /\ layout = <<k1, k2, k3>> /\ vals = <<v1, v2, v3>>
                                   /\ texts = <<s1, s2, s3>>
    OBVIOUS
  <1>9. /\ vals \in Seq(V) /\ texts \in Seq(Seq(Bytes))
        /\ Len(layout) = Len(vals) /\ Len(texts) = Len(vals) /\ Len(vals) = 3
        /\ \A i \in 1 .. 3 : Stands(layout[i], vals[i], texts[i])
    BY <1>1, <1>4, <1>5, <1>7, <1>8, Zenon
  <1>10. /\ FlattenSeq(texts) \in Seq(Bytes)
         /\ ReadFields(layout, FlattenSeq(texts), 0) = Read(vals, Len(FlattenSeq(texts)))
    BY <1>9, FieldsBack, Zenon
  <1>11. FlattenSeq(texts) = (s1 \o s2) \o s3
    <2>1. s1 \in Seq(Bytes) /\ s2 \in Seq(Bytes) /\ s3 \in Seq(Bytes)
      BY <1>1, <1>2, Zenon
    <2>2. FlattenSeq(<<s1, s2, s3>>) = (s1 \o s2) \o s3
      BY <2>1, FlattenThree
    <2> QED BY <1>8, <2>2, Zenon
  <1> QED BY <1>8, <1>10, <1>11, Zenon

\* ... and of four.
LEMMA FourFields ==
    ASSUME NEW k1, NEW k2, NEW k3, NEW k4, NEW v1, NEW v2, NEW v3, NEW v4,
           NEW s1, NEW s2, NEW s3, NEW s4,
           Stands(k1, v1, s1), Stands(k2, v2, s2), Stands(k3, v3, s3), Stands(k4, v4, s4)
    PROVE  /\ ((s1 \o s2) \o s3) \o s4 \in Seq(Bytes)
           /\ ReadFields(<<k1, k2, k3, k4>>, ((s1 \o s2) \o s3) \o s4, 0) =
                 Read(<<v1, v2, v3, v4>>, Len(((s1 \o s2) \o s3) \o s4))
  <1>1. PICK S, V : S = Seq(Bytes) /\ V = {v1, v2, v3, v4}
    OBVIOUS
  <1>2. s1 \in S /\ s2 \in S /\ s3 \in S /\ s4 \in S
    BY <1>1 DEF Stands
  <1>3. v1 \in V /\ v2 \in V /\ v3 \in V /\ v4 \in V
    BY <1>1
  <1>4. <<s1, s2, s3, s4>> \in Seq(S) /\ <<v1, v2, v3, v4>> \in Seq(V)
    BY <1>2, <1>3
  <1>5. \A x, y, z, w : /\ Len(<<x, y, z, w>>) = 4 /\ <<x, y, z, w>>[1] = x
                        /\ <<x, y, z, w>>[2] = y /\ <<x, y, z, w>>[3] = z /\ <<x, y, z, w>>[4] = w
    OBVIOUS
  <1>6. \A i \in 1 .. 4 : i = 1 \/ i = 2 \/ i = 3 \/ i = 4
    OBVIOUS
  <1>7. \A i \in 1 .. 4 : Stands(<<k1, k2, k3, k4>>[i], <<v1, v2, v3, v4>>[i], <<s1, s2, s3, s4>>[i])
    <2>1. Stands(<<k1, k2, k3, k4>>[1], <<v1, v2, v3, v4>>[1], <<s1, s2, s3, s4>>[1])
      BY <1>5, Zenon
    <2>2. Stands(<<k1, k2, k3, k4>>[2], <<v1, v2, v3, v4>>[2], <<s1, s2, s3, s4>>[2])
      BY <1>5, Zenon
    <2>3. Stands(<<k1, k2, k3, k4>>[3], <<v1, v2, v3, v4>>[3], <<s1, s2, s3, s4>>[3])
      BY <1>5, Zenon
    <2>4. Stands(<<k1, k2, k3, k4>>[4], <<v1, v2, v3, v4>>[4], <<s1, s2, s3, s4>>[4])
      BY <1>5, Zenon
    <2> QED BY <1>6, <2>1, <2>2, <2>3, <2>4, Zenon
  <1>8. PICK layout, vals, texts : /\ layout = <<k1, k2, k3, k4>> /\ vals = <<v1, v2, v3, v4>>
                                   /\ texts = <<s1, s2, s3, s4>>
    OBVIOUS
  <1>9. /\ vals \in Seq(V) /\ texts \in Seq(Seq(Bytes))
        /\ Len(layout) = Len(vals) /\ Len(texts) = Len(vals) /\ Len(vals) = 4
        /\ \A i \in 1 .. 4 : Stands(layout[i], vals[i], texts[i])
    BY <1>1, <1>4, <1>5, <1>7, <1>8, Zenon
  <1>10. /\ FlattenSeq(texts) \in Seq(Bytes)
         /\ ReadFields(layout, FlattenSeq(texts), 0) = Read(vals, Len(FlattenSeq(texts)))
    BY <1>9, FieldsBack, Zenon
  <1>11. FlattenSeq(texts) = ((s1 \o s2) \o s3) \o s4
    <2>1. s1 \in Seq(Bytes) /\ s2 \in Seq(Bytes) /\ s3 \in Seq(Bytes) /\ s4 \in Seq(Bytes)
      BY <1>1, <1>2, Zenon
    <2>2. <<s1, s2, s3>> \in Seq(S) /\ Append(<<s1, s2, s3>>, s4) = <<s1, s2, s3, s4>>
      BY <1>2, OneMore
    <2>3. FlattenSeq(Append(<<s1, s2, s3>>, s4)) = FlattenSeq(<<s1, s2, s3>>) \o s4
      BY <1>1, <1>2, <2>2, FlattenAppend
    <2>4. FlattenSeq(<<s1, s2, s3>>) = (s1 \o s2) \o s3
      BY <2>1, FlattenThree
    <2> QED BY <1>8, <2>2, <2>3, <2>4, Zenon
  <1> QED BY <1>8, <1>10, <1>11, Zenon

----------------------------------------------------------------------------
(* Messages *)

\* The content of CLIENT_SETUP and SERVER_SETUP: the parameters are read in the order of
\* their keys.
LEMMA SetupRead ==
    ASSUME NEW params \in Params
    PROVE  /\ encode_params(params) \in Seq(Bytes)
           /\ parse_server_setup(encode_params(params)) =
                 Read([params |-> Sorted[params]], Len(encode_params(params)))
  <1>1. PICK c \in Seq(Bytes) : c = encode_params(params)
    BY ParamBytes
  <1>2. Found(c, 0, c) /\ 0 + Len(c) = Len(c)
    BY FoundWhole
  <1>3. PICK r : r = decode_params(c, 0)
    OBVIOUS
  <1>4. r = Read(Sorted[params], 0 + Len(c))
    BY <1>1, <1>2, <1>3, ParamsReadBack, Zenon
  <1>5. r.ok /\ r.val = Sorted[params] /\ r.at = Len(c)
    BY <1>2, <1>4, ReadIs, Zenon
  <1>6. parse_server_setup(c) = Read([params |-> Sorted[params]], Len(c))
    BY <1>3, <1>5, Zenon DEF parse_server_setup, Result
  <1> QED BY <1>1, <1>6, Zenon

\* The content of the answers to ANNOUNCE and SUBSCRIBE_ANNOUNCES.
LEMMA AnnounceOkRead ==
    ASSUME NEW id \in Numbers
    PROVE  /\ encode_varint(id) \in Seq(Bytes)
           /\ parse_announce_ok(encode_varint(id)) =
                 Read([request_id |-> id], Len(encode_varint(id)))
  <1>1. PICK c \in Seq(Bytes) : c = encode_varint(id)
    BY NumberBytes
  <1>2. Found(c, 0, c) /\ 0 + Len(c) = Len(c)
    BY FoundWhole
  <1>3. PICK r : r = decode_varint(c, 0)
    OBVIOUS
  <1>4. r = Read(id, 0 + Len(c))
    BY <1>1, <1>2, <1>3, NumberRead, Zenon
  <1>5. r.ok /\ r.val = id /\ r.at = Len(c)
    BY <1>2, <1>4, ReadIs, Zenon
  <1>6. parse_announce_ok(c) = Read([request_id |-> id], Len(c))
    BY <1>3, <1>5, Zenon DEF parse_announce_ok, Result
  <1> QED BY <1>1, <1>6, Zenon

\* No parameters: their number alone.
LEMMA NoParams ==
    /\ <<>> \in Params /\ Sorted[<<>>] = <<>> /\ encode_params(<<>>) = encode_varint(0)
  <1>1. <<>> \in Params
    BY Room DEF Params
  <1>2. Sorted[<<>>] = <<>>
    <2>1. Sorted[<<>>] \in Seq(KvpParams) /\ Len(Sorted[<<>>]) = Len(<<>>)
      BY <1>1, SortedIs, ParamFacts
    <2>2. PICK s \in Seq(KvpParams) : s = Sorted[<<>>] /\ Len(s) = 0
      BY <2>1
    <2>3. s = <<>>
      BY <2>2, EmptySeq
    <2> QED BY <2>2, <2>3
  <1>3. PICK e \in Seq(Bytes), w \in Seq(Seq(Bytes)), fl \in Seq(Bytes) :
             /\ e = encode_varint(Len(<<>>)) /\ Len(w) = Len(<<>>)
             /\ fl = FlattenSeq(w) /\ encode_params(<<>>) = e \o fl
    BY <1>1, ParamBytes
  <1>4. Len(<<>>) = 0
    OBVIOUS
  <1>5. w = <<>>
    BY <1>3, <1>4, EmptySeq
  <1>6. fl = <<>>
    BY <1>3, <1>5, FlattenEmpty, Zenon
  <1>7. e \o <<>> = e
    BY ConcatEmptySeq
  <1> QED BY <1>1, <1>2, <1>3, <1>4, <1>6, <1>7, Zenon

\* The content of SUBSCRIBE_ANNOUNCES, and of ANNOUNCE, which has no parameters.
LEMMA AnnounceRead ==
    ASSUME NEW id \in Numbers, NEW ns \in Namespaces, NEW params \in Params
    PROVE  LET c == (encode_varint(id) \o encode_namespace(ns)) \o encode_params(params)
               r == [request_id |-> id, track_namespace |-> ns, params |-> Sorted[params]]
           IN  /\ c \in Seq(Bytes)
               /\ parse_announce(c) = Read(r, Len(c)) /\ parse_subscribe_announces(c) = Read(r, Len(c))
  <1>1. PICK a, b, d, s : /\ a = encode_varint(id) /\ b = encode_namespace(ns)
                          /\ d = encode_params(params) /\ s = Sorted[params]
    OBVIOUS
  <1>2. Stands("varint", id, a) /\ Stands("namespace", ns, b) /\ Stands("params", s, d)
    BY <1>1, NumberStands, NamespaceStands, ParamsStand, Zenon
  <1>3. PICK c : c = (a \o b) \o d
    OBVIOUS
  <1>4. PICK f :
             /\ c \in Seq(Bytes)
             /\ ReadFields(<<"varint", "namespace", "params">>, c, 0) = Read(f, Len(c))
             /\ f[1] = id /\ f[2] = ns /\ f[3] = s
    <2>1. /\ c \in Seq(Bytes)
          /\ ReadFields(<<"varint", "namespace", "params">>, c, 0) = Read(<<id, ns, s>>, Len(c))
      BY <1>2, <1>3, ThreeFields
    <2>2. <<id, ns, s>>[1] = id /\ <<id, ns, s>>[2] = ns /\ <<id, ns, s>>[3] = s
      OBVIOUS
    <2> QED BY <2>1, <2>2
  <1>5. PICK r : r = ReadFields(<<"varint", "namespace", "params">>, c, 0)
    OBVIOUS
  <1>6. r.ok /\ r.val = f /\ r.at = Len(c)
    <2>1. r = Read(f, Len(c))
      BY <1>4, <1>5
    <2> QED BY <2>1, ReadIs, Zenon
  <1>7. PICK result : result = [request_id |-> id, track_namespace |-> ns, params |-> s]
    OBVIOUS
  <1>8. [request_id |-> f[1], track_namespace |-> f[2], params |-> f[3]] = result
    BY <1>4, <1>7, Zenon
  <1>9. /\ parse_announce(c) =
             Read([request_id |-> f[1], track_namespace |-> f[2], params |-> f[3]], Len(c))
        /\ parse_subscribe_announces(c) =
             Read([request_id |-> f[1], track_namespace |-> f[2], params |-> f[3]], Len(c))
    BY <1>5, <1>6, Zenon DEF parse_announce, parse_subscribe_announces, Result
  <1> QED BY <1>1, <1>3, <1>4, <1>7, <1>8, <1>9, Zenon

\* The content of SUBSCRIBE_ERROR: the retry interval is read over.
LEMMA SubscribeErrorRead ==
    ASSUME NEW m \in [request_id : Numbers, error_code : Numbers, retry_interval : Numbers,
                      reason : Strings]
    PROVE  LET c == ((encode_varint(m.request_id) \o encode_varint(m.error_code)) \o
                     encode_varint(m.retry_interval)) \o append_string_bytes(m.reason)
           IN  /\ c \in Seq(Bytes)
               /\ parse_subscribe_error(c) =
                     Read([request_id |-> m.request_id, error_code |-> m.error_code,
                           reason |-> m.reason], Len(c))
  <1>0. PICK id \in Numbers, code \in Numbers, retry \in Numbers, reason \in Strings :
             /\ id = m.request_id /\ code = m.error_code
             /\ retry = m.retry_interval /\ reason = m.reason
    OBVIOUS
  <1>1. PICK a, b, d, e : /\ a = encode_varint(id) /\ b = encode_varint(code)
                          /\ d = encode_varint(retry) /\ e = append_string_bytes(reason)
    OBVIOUS
  <1>2. /\ Stands("varint", id, a) /\ Stands("varint", code, b) /\ Stands("varint", retry, d)
        /\ Stands("string", reason, e)
    BY <1>1, NumberStands, TextStands, Zenon
  <1>3. PICK c : c = ((a \o b) \o d) \o e
    OBVIOUS
  <1>4. PICK f : /\ c \in Seq(Bytes)
                 /\ ReadFields(<<"varint", "varint", "varint", "string">>, c, 0) = Read(f, Len(c))
                 /\ f[1] = id /\ f[2] = code /\ f[4] = reason
    <2>1. /\ c \in Seq(Bytes)
          /\ ReadFields(<<"varint", "varint", "varint", "string">>, c, 0) =
                Read(<<id, code, retry, reason>>, Len(c))
      BY <1>2, <1>3, FourFields
    <2>2. /\ <<id, code, retry, reason>>[1] = id /\ <<id, code, retry, reason>>[2] = code
          /\ <<id, code, retry, reason>>[4] = reason
      OBVIOUS
    <2> QED BY <2>1, <2>2
  <1>5. PICK r : r = ReadFields(<<"varint", "varint", "varint", "string">>, c, 0)
    OBVIOUS
  <1>6. r.ok /\ r.val = f /\ r.at = Len(c)
    <2>1. r = Read(f, Len(c))
      BY <1>4, <1>5
    <2> QED BY <2>1, ReadIs, Zenon
  <1>7. parse_subscribe_error(c) =
           Read([request_id |-> f[1], error_code |-> f[2], reason |-> f[4]], Len(c))
    BY <1>5, <1>6, Zenon DEF parse_subscribe_error, Result
  <1> QED BY <1>0, <1>1, <1>3, <1>4, <1>7, Zenon

----------------------------------------------------------------------------
(* Parameters of a message *)

\* What IntOf() and BytesOf() find in a list of parameters with this one ...
LEMMA ParamThere ==
    ASSUME NEW params \in Params, NEW p \in ToSet(params), NEW key, p.key = key
    PROVE  /\ \E q \in ToSet(params) : q.key = key
           /\ \A default : IntOf(params, key, default) = p.int_value
           /\ BytesOf(params, key) = p.bytes_value
  <1>1. PICK all : all = ToSet(params)
    OBVIOUS
  <1>2. p \in all /\ \A x, y \in all : x.key = y.key => x = y
    BY <1>1, ParamFacts, Zenon
  <1>3. PICK q : q = CHOOSE x \in all : x.key = key
    OBVIOUS
  <1>4. q = p
    BY <1>2, <1>3, Zenon
  <1>5. \E x \in all : x.key = key
    BY <1>2, Zenon
  <1> QED BY <1>1, <1>3, <1>4, <1>5, Zenon DEF IntOf, BytesOf

\* ... and in one without.
LEMMA ParamAbsent ==
    ASSUME NEW params, NEW key, \A q \in ToSet(params) : q.key # key
    PROVE  /\ ~\E q \in ToSet(params) : q.key = key
           /\ \A default : IntOf(params, key, default) = default
           /\ BytesOf(params, key) = <<>>
  BY Zenon DEF IntOf, BytesOf

\* Parameters that carry a number ...
LEMMA IntParamIs ==
    ASSUME NEW key \in Numbers, key % 2 = 0, NEW v \in Numbers
    PROVE  /\ IntParam(key, v) \in KvpParams
           /\ IntParam(key, v).key = key /\ IntParam(key, v).int_value = v
  <1>1. <<>> \in Strings
    BY Room DEF Strings
  <1>2. PICK p : p = IntParam(key, v)
    OBVIOUS
  <1>3. p = [key |-> key, int_value |-> v, bytes_value |-> <<>>]
    BY <1>2 DEF IntParam
  <1>4. /\ p \in [key : Numbers, int_value : Numbers, bytes_value : Strings]
        /\ p.key = key /\ p.int_value = v /\ p.bytes_value = <<>>
    BY <1>1, <1>3
  <1>5. ~(key % 2 = 1)
    OBVIOUS
  <1>6. p \in KvpParams
    BY <1>4, <1>5, Zenon DEF KvpParams
  <1> QED BY <1>2, <1>4, <1>6, Zenon

\* ... or bytes.
LEMMA BytesParamIs ==
    ASSUME NEW key \in Numbers, key % 2 = 1, NEW s \in Strings
    PROVE  /\ BytesParam(key, s) \in KvpParams
           /\ BytesParam(key, s).key = key /\ BytesParam(key, s).bytes_value = s
  <1>1. 0 \in Numbers
    <2>1. 0 \in 0 .. 63
      OBVIOUS
    <2> QED BY <2>1, ByteIsNumber, Zenon
  <1>2. PICK p : p = BytesParam(key, s)
    OBVIOUS
  <1>3. p = [key |-> key, int_value |-> 0, bytes_value |-> s]
    BY <1>2 DEF BytesParam
  <1>4. /\ p \in [key : Numbers, int_value : Numbers, bytes_value : Strings]
        /\ p.key = key /\ p.int_value = 0 /\ p.bytes_value = s
    BY <1>1, <1>3
  <1>6. p \in KvpParams
    BY <1>4, Zenon DEF KvpParams
  <1> QED BY <1>2, <1>4, <1>6, Zenon

\* One parameter, or none.
LEMMA OptionalParam ==
    ASSUME NEW p \in KvpParams, NEW cond \in BOOLEAN
    PROVE  /\ If(cond, <<p>>) \in Params /\ Len(If(cond, <<p>>)) \in 0 .. 1
           /\ \A q : q \in ToSet(If(cond, <<p>>)) <=> cond /\ q = p
  <1>1. PICK s : s = <<p>>
    OBVIOUS
  <1>2. s \in Seq(KvpParams) /\ Len(s) = 1 /\ s[1] = p /\ DOMAIN s = {1}
    BY <1>1
  <1>3. s \in Params
    <2>1. Len(s) < Power[2]
      BY <1>2, Room
    <2>2. \A i, j \in DOMAIN s : s[i].key = s[j].key => i = j
      BY <1>2, Zenon
    <2> QED BY <1>2, <2>1, <2>2, Zenon DEF Params
  <1>4. \A q : q \in ToSet(s) <=> q = p
    BY <1>2, Zenon DEF ToSet
  <1>5. \A q : ~(q \in ToSet(<<>>))
    <2>1. DOMAIN <<>> = {}
      OBVIOUS
    <2> QED BY <2>1, Zenon DEF ToSet
  <1>6. CASE cond
    <2>1. If(cond, <<p>>) = s
      BY <1>1, <1>6 DEF If
    <2>2. Len(s) \in 0 .. 1
      BY <1>2
    <2> QED BY <1>3, <1>4, <1>6, <2>1, <2>2, Zenon
  <1>7. CASE ~cond
    <2>1. If(cond, <<p>>) = <<>>
      BY <1>7, Zenon DEF If
    <2>2. Len(<<>>) \in 0 .. 1
      OBVIOUS
    <2> QED BY <1>5, <1>7, <2>1, <2>2, NoParams, Zenon
  <1> QED BY <1>6, <1>7

\* Two lists of parameters with different keys, one behind the other.
LEMMA JoinedParams ==
    ASSUME NEW s \in Params, NEW t \in Params, Len(s) + Len(t) < Power[2],
           \A p \in ToSet(s), q \in ToSet(t) : p.key # q.key
    PROVE  /\ s \o t \in Params /\ Len(s \o t) = Len(s) + Len(t)
           /\ \A q : q \in ToSet(s \o t) <=> q \in ToSet(s) \/ q \in ToSet(t)
  <1>1. /\ s \in Seq(KvpParams) /\ t \in Seq(KvpParams)
        /\ \A i, j \in DOMAIN s : s[i].key = s[j].key => i = j
        /\ \A i, j \in DOMAIN t : t[i].key = t[j].key => i = j
    BY DEF Params
  <1>0. PICK m \in Nat, n \in Nat : m = Len(s) /\ n = Len(t)
    BY <1>1
  <1>a. PICK u : u = s \o t
    OBVIOUS
  <1>2. u = s \o t /\ m = Len(s) /\ n = Len(t)
    BY <1>0, <1>a, Zenon
  <1>3. /\ u \in Seq(KvpParams) /\ Len(u) = m + n
        /\ \A i \in 1 .. m + n : u[i] = IF i <= m THEN s[i] ELSE t[i - m]
    BY <1>1, <1>2, ConcatProperties
  <1>4. DOMAIN s = 1 .. m /\ DOMAIN t = 1 .. n /\ DOMAIN u = 1 .. m + n
    BY <1>1, <1>2, <1>3
  <1>5. /\ \A i \in 1 .. m : i \in 1 .. m + n /\ u[i] = s[i] /\ s[i] \in ToSet(s)
        /\ \A i \in 1 .. n : m + i \in 1 .. m + n /\ u[m + i] = t[i] /\ t[i] \in ToSet(t)
    <2>1. \A i \in 1 .. m : i \in 1 .. m + n /\ i <= m
      OBVIOUS
    <2>2. \A i \in 1 .. n : m + i \in 1 .. m + n /\ ~(m + i <= m) /\ (m + i) - m = i
      OBVIOUS
    <2>3. \A i \in 1 .. m : s[i] \in ToSet(s)
      BY <1>4, Zenon DEF ToSet
    <2>4. \A i \in 1 .. n : t[i] \in ToSet(t)
      BY <1>4, Zenon DEF ToSet
    <2> QED BY <1>3, <2>1, <2>2, <2>3, <2>4, Zenon
  <1>6. \A i \in 1 .. m + n : i \in 1 .. m \/ \E k \in 1 .. n : i = m + k
    <2> SUFFICES ASSUME NEW i \in 1 .. m + n, ~(i \in 1 .. m) PROVE \E k \in 1 .. n : i = m + k
      OBVIOUS
    <2>1. i - m \in 1 .. n /\ i = m + (i - m)
      OBVIOUS
    <2> QED BY <2>1
  <1>7. ASSUME NEW i \in DOMAIN u, NEW j \in DOMAIN u, u[i].key = u[j].key PROVE i = j
    <2>1. CASE i \in 1 .. m /\ j \in 1 .. m
      BY <1>1, <1>4, <1>5, <1>7, <2>1, Zenon
    <2>2. CASE i \in 1 .. m /\ \E k \in 1 .. n : j = m + k
      BY <1>5, <1>7, <2>2, Zenon
    <2>3. CASE j \in 1 .. m /\ \E k \in 1 .. n : i = m + k
      BY <1>5, <1>7, <2>3, Zenon
    <2>4. CASE (\E k \in 1 .. n : i = m + k) /\ (\E k \in 1 .. n : j = m + k)
      <3>1. PICK k \in 1 .. n, l \in 1 .. n : i = m + k /\ j = m + l
        BY <2>4, Zenon
      <3>2. t[k].key = t[l].key
        BY <1>5, <1>7, <3>1, Zenon
      <3> QED BY <1>1, <1>4, <3>1, <3>2, Zenon
    <2> QED BY <1>4, <1>6, <2>1, <2>2, <2>3, <2>4, Zenon
  <1>8. u \in Params
    <2>1. Len(u) < Power[2]
      BY <1>2, <1>3, Zenon
    <2> QED BY <1>3, <1>7, <2>1, Zenon DEF Params
  <1>9. ASSUME NEW q, q \in ToSet(u) PROVE q \in ToSet(s) \/ q \in ToSet(t)
    <2>1. PICK i \in DOMAIN u : q = u[i]
      BY <1>9, Zenon DEF ToSet
    <2> QED BY <1>4, <1>5, <1>6, <2>1, Zenon
  <1>10. ASSUME NEW q, q \in ToSet(s) \/ q \in ToSet(t) PROVE q \in ToSet(u)
    <2>1. CASE q \in ToSet(s)
      <3>1. PICK i \in 1 .. m : q = s[i]
        BY <1>4, <2>1, Zenon DEF ToSet
      <3> QED BY <1>4, <1>5, <3>1, Zenon DEF ToSet
    <2>2. CASE q \in ToSet(t)
      <3>1. PICK i \in 1 .. n : q = t[i]
        BY <1>4, <2>2, Zenon DEF ToSet
      <3> QED BY <1>4, <1>5, <3>1, Zenon DEF ToSet
    <2> QED BY <1>10, <2>1, <2>2
  <1> QED BY <1>2, <1>3, <1>8, <1>9, <1>10, Zenon

----------------------------------------------------------------------------
(* SUBSCRIBE_OK *)

\* The keys of the format.
LEMMA KeysAre ==
    /\ Key.Path = 1 /\ Key.MaxSubscribeId = 2 /\ Key.AuthToken = 3 /\ Key.Forward = 16
    /\ Key.SubscriberPriority = 32 /\ Key.SubscriptionFilter = 33 /\ Key.GroupOrder = 34
    /\ Key.Expires = 8 /\ Key.LargestObject = 9
    /\ \A k \in {1, 2, 3, 8, 9, 16, 32, 33, 34} : k \in Numbers
  <1>1. \A k \in {1, 2, 3, 8, 9, 16, 32, 33, 34} : k \in 0 .. 63
    OBVIOUS
  <1>2. \A k \in {1, 2, 3, 8, 9, 16, 32, 33, 34} : k \in Numbers
    BY <1>1, ByteIsNumber, Zenon
  <1> QED BY <1>2 DEF Key

\* The parameters of SUBSCRIBE_OK say what was meant, the ones left out included.
LEMMA OkParams ==
    ASSUME NEW c, NEW expires \in Numbers, NEW order \in Numbers, NEW exists \in BOOLEAN,
           NEW group \in Numbers, NEW object \in Numbers,
           c.expires_ms = expires, c.group_order = order, c.content_exists = exists,
           c.largest_group_id = group, c.largest_object_id = object
    PROVE  /\ SubscribeOkParams(c) \in Params
           /\ \A s \in Params : ToSet(s) = ToSet(SubscribeOkParams(c)) =>
                 /\ IntOf(s, Key.Expires, 0) = expires /\ IntOf(s, Key.GroupOrder, 0) = order
                 /\ (\E p \in ToSet(s) : p.key = Key.LargestObject) <=> exists
                 /\ exists => BytesOf(s, Key.LargestObject) = encode_varint(group) \o encode_varint(object)
                 /\ ~exists => BytesOf(s, Key.LargestObject) = <<>>
  <1>1. PICK largest : largest = encode_varint(group) \o encode_varint(object)
    OBVIOUS
  <1>2. largest \in Strings
    <2>1. PICK g \in Seq(Bytes), o \in Seq(Bytes) :
               /\ g = encode_varint(group) /\ o = encode_varint(object)
               /\ Len(g) \in 1 .. 8 /\ Len(o) \in 1 .. 8
      BY NumberBytes
    <2>2. largest \in Seq(Bytes) /\ Len(largest) = Len(g) + Len(o)
      BY <1>1, <2>1, Joined
    <2>3. Len(largest) < Power[2]
      <3>1. \A x, y \in 1 .. 8 : x + y < Power[2]
        BY Room
      <3> QED BY <2>1, <2>2, <3>1, Zenon
    <2> QED BY <2>2, <2>3 DEF Strings
  <1>3. PICK e, l, o : e = IntParam(8, expires) /\ l = BytesParam(9, largest) /\ o = IntParam(34, order)
    OBVIOUS
  <1>4. /\ e \in KvpParams /\ e.key = 8 /\ e.int_value = expires
        /\ l \in KvpParams /\ l.key = 9 /\ l.bytes_value = largest
        /\ o \in KvpParams /\ o.key = 34 /\ o.int_value = order
    <2>1. 8 \in Numbers /\ 9 \in Numbers /\ 34 \in Numbers
      BY KeysAre
    <2>2. 8 % 2 = 0 /\ 9 % 2 = 1 /\ 34 % 2 = 0
      OBVIOUS
    <2>3. e \in KvpParams /\ e.key = 8 /\ e.int_value = expires
      BY <1>3, <2>1, <2>2, IntParamIs
    <2>4. o \in KvpParams /\ o.key = 34 /\ o.int_value = order
      BY <1>3, <2>1, <2>2, IntParamIs
    <2>5. l \in KvpParams /\ l.key = 9 /\ l.bytes_value = largest
      BY <1>2, <1>3, <2>1, <2>2, BytesParamIs
    <2> QED BY <2>3, <2>4, <2>5
  <1>5. PICK ce \in BOOLEAN, co \in BOOLEAN : (ce <=> expires > 0) /\ (co <=> order # 0)
    OBVIOUS
  <1>6. (~ce => expires = 0) /\ (~co => order = 0)
    BY <1>5, ByteIsNumber
  <1>7. PICK pe, pl, po : pe = If(ce, <<e>>) /\ pl = If(exists, <<l>>) /\ po = If(co, <<o>>)
    OBVIOUS
  <1>8. /\ pe \in Params /\ pl \in Params /\ po \in Params
        /\ Len(pe) \in 0 .. 1 /\ Len(pl) \in 0 .. 1 /\ Len(po) \in 0 .. 1
        /\ \A q : q \in ToSet(pe) <=> ce /\ q = e
        /\ \A q : q \in ToSet(pl) <=> exists /\ q = l
        /\ \A q : q \in ToSet(po) <=> co /\ q = o
    BY <1>4, <1>7, OptionalParam, Zenon
  <1>9. 8 # 9 /\ 8 # 34 /\ 9 # 34
    OBVIOUS
  <1>10. /\ pe \o pl \in Params /\ Len(pe \o pl) = Len(pe) + Len(pl)
         /\ \A q : q \in ToSet(pe \o pl) <=> q \in ToSet(pe) \/ q \in ToSet(pl)
    <2>1. Len(pe) + Len(pl) < Power[2]
      <3>1. \A x, y \in 0 .. 1 : x + y < Power[2]
        BY Room
      <3> QED BY <1>8, <3>1, Zenon
    <2>2. \A p \in ToSet(pe), q \in ToSet(pl) : p.key # q.key
      <3>1. \A p \in ToSet(pe), q \in ToSet(pl) : p.key = 8 /\ q.key = 9
        BY <1>4, <1>8, Zenon
      <3> QED BY <1>9, <3>1, Zenon
    <2> QED BY <1>8, <2>1, <2>2, JoinedParams
  <1>11. PICK all : all = (pe \o pl) \o po
    OBVIOUS
  <1>12. /\ all \in Params
         /\ \A q : q \in ToSet(all) <=> (ce /\ q = e) \/ (exists /\ q = l) \/ (co /\ q = o)
    <2>1. Len(pe \o pl) + Len(po) < Power[2]
      <3>1. \A x, y, z \in 0 .. 1 : (x + y) + z < Power[2]
        BY Room
      <3> QED BY <1>8, <1>10, <3>1, Zenon
    <2>2. \A p \in ToSet(pe \o pl), q \in ToSet(po) : p.key # q.key
      <3>1. \A p \in ToSet(pe \o pl), q \in ToSet(po) : (p.key = 8 \/ p.key = 9) /\ q.key = 34
        BY <1>4, <1>8, <1>10, Zenon
      <3> QED BY <1>9, <3>1, Zenon
    <2>3. all \in Params /\ \A q : q \in ToSet(all) <=> q \in ToSet(pe \o pl) \/ q \in ToSet(po)
      BY <1>8, <1>10, <1>11, <2>1, <2>2, JoinedParams
    <2> QED BY <1>8, <1>10, <2>3, Zenon
  <1>13. SubscribeOkParams(c) = all
    <2>1. SubscribeOkParams(c) =
             (If(expires > 0, <<IntParam(8, expires)>>) \o
              If(exists, <<BytesParam(9, encode_varint(group) \o encode_varint(object))>>)) \o
             If(order # 0, <<IntParam(34, order)>>)
      BY KeysAre, Zenon DEF SubscribeOkParams
    <2>2. /\ If(expires > 0, <<e>>) = If(ce, <<e>>) /\ If(order # 0, <<o>>) = If(co, <<o>>)
      BY <1>5, Zenon DEF If
    <2> QED BY <1>1, <1>3, <1>7, <1>11, <2>1, <2>2, Zenon
  <1>14. ASSUME NEW s \in Params, ToSet(s) = ToSet(all)
         PROVE  /\ IntOf(s, 8, 0) = expires /\ IntOf(s, 34, 0) = order
                /\ (\E p \in ToSet(s) : p.key = 9) <=> exists
                /\ exists => BytesOf(s, 9) = largest
                /\ ~exists => BytesOf(s, 9) = <<>>
    <2>1. \A q : q \in ToSet(s) <=> (ce /\ q = e) \/ (exists /\ q = l) \/ (co /\ q = o)
      BY <1>12, <1>14, Zenon
    <2>2. IntOf(s, 8, 0) = expires
      <3>1. CASE ce
        <4>1. e \in ToSet(s)
          BY <2>1, <3>1, Zenon
        <4> QED BY <1>4, <4>1, ParamThere
      <3>2. CASE ~ce
        <4>1. \A q \in ToSet(s) : q.key # 8
          BY <1>4, <1>9, <2>1, <3>2, Zenon
        <4>2. IntOf(s, 8, 0) = 0
          BY <4>1, ParamAbsent
        <4> QED BY <1>6, <3>2, <4>2
      <3> QED BY <3>1, <3>2
    <2>3. IntOf(s, 34, 0) = order
      <3>1. CASE co
        <4>1. o \in ToSet(s)
          BY <2>1, <3>1, Zenon
        <4> QED BY <1>4, <4>1, ParamThere
      <3>2. CASE ~co
        <4>1. \A q \in ToSet(s) : q.key # 34
          BY <1>4, <1>9, <2>1, <3>2, Zenon
        <4>2. PICK k : k = 34
          OBVIOUS
        <4>3. \A q \in ToSet(s) : q.key # k
          BY <4>1, <4>2
        <4>4. IntOf(s, k, 0) = 0
          BY <4>3, ParamAbsent, Zenon
        <4> QED BY <1>6, <3>2, <4>2, <4>4
      <3> QED BY <3>1, <3>2
    <2>4. CASE exists
      <3>1. l \in ToSet(s)
        BY <2>1, <2>4, Zenon
      <3> QED BY <1>4, <2>2, <2>3, <2>4, <3>1, ParamThere, Zenon
    <2>5. CASE ~exists
      <3>1. \A q \in ToSet(s) : q.key # 9
        BY <1>4, <1>9, <2>1, <2>5, Zenon
      <3> QED BY <2>2, <2>3, <2>5, <3>1, ParamAbsent, Zenon
    <2> QED BY <2>4, <2>5
  <1>15. ASSUME NEW s \in Params, ToSet(s) = ToSet(SubscribeOkParams(c))
         PROVE  /\ IntOf(s, Key.Expires, 0) = expires /\ IntOf(s, Key.GroupOrder, 0) = order
                /\ (\E p \in ToSet(s) : p.key = Key.LargestObject) <=> exists
                /\ exists => BytesOf(s, Key.LargestObject) = encode_varint(group) \o encode_varint(object)
                /\ ~exists => BytesOf(s, Key.LargestObject) = <<>>
    <2>1. Key.Expires = 8 /\ Key.GroupOrder = 34 /\ Key.LargestObject = 9
      BY KeysAre, Zenon
    <2>2. ToSet(s) = ToSet(all)
      BY <1>13, <1>15, Zenon
    <2>3. /\ IntOf(s, 8, 0) = expires /\ IntOf(s, 34, 0) = order
          /\ (\E p \in ToSet(s) : p.key = 9) <=> exists
          /\ exists => BytesOf(s, 9) = largest
          /\ ~exists => BytesOf(s, 9) = <<>>
      BY <1>14, <2>2, Zenon
    <2> QED BY <1>1, <2>1, <2>3, Zenon
  <1> QED BY <1>12, <1>13, <1>15, Zenon

\* What stands for a byte is below the number of its values.
LEMMA ByteKept == \A v \in Bytes : v % Byte = v
  <1> SUFFICES ASSUME NEW v \in Bytes PROVE v % Byte = v
    OBVIOUS
  <1>1. v \in 0 .. Byte - 1 /\ Byte \in Nat \ {0}
    BY ByteFacts DEF Bytes
  <1> QED BY <1>1, ModSmall

\* There is no number in no bytes.
LEMMA NothingRead == decode_varint(<<>>, 0) = Failed /\ ~Failed.ok
  <1>1. Len(<<>>) - 0 < 1
    OBVIOUS
  <1>2. decode_varint(<<>>, 0) = Failed
    BY <1>1, Zenon DEF decode_varint
  <1> QED BY <1>2 DEF Failed

\* Two numbers are read one after the other.
LEMMA PairRead ==
    ASSUME NEW a \in Numbers, NEW b \in Numbers
    PROVE  \A s, r : s = encode_varint(a) \o encode_varint(b) /\ r = decode_varint(s, 0) =>
              /\ r.ok /\ r.val = a
              /\ decode_varint(s, r.at).ok /\ decode_varint(s, r.at).val = b
  <1>1. PICK x \in Seq(Bytes), y \in Seq(Bytes) : x = encode_varint(a) /\ y = encode_varint(b)
    BY NumberBytes
  <1> SUFFICES ASSUME NEW s, NEW r, s = encode_varint(a) \o encode_varint(b), r = decode_varint(s, 0)
               PROVE  /\ r.ok /\ r.val = a
                      /\ decode_varint(s, r.at).ok /\ decode_varint(s, r.at).val = b
    OBVIOUS
  <1>2. s = x \o y
    BY <1>1
  <1>3. s \in Seq(Bytes)
    BY <1>2, Joined
  <1>4. Found(s, 0, s)
    BY <1>3, FoundWhole
  <1>5. Found(s, 0, x) /\ Found(s, 0 + Len(x), y)
    <2>1. Found(s, 0, x \o y)
      BY <1>2, <1>4
    <2> QED BY <1>3, <2>1, FoundParts
  <1>6. decode_varint(s, 0) = Read(a, 0 + Len(x))
    BY <1>1, <1>3, <1>5, NumberRead
  <1>7. decode_varint(s, 0 + Len(x)) = Read(b, (0 + Len(x)) + Len(y))
    BY <1>1, <1>3, <1>5, NumberRead
  <1>8. r.ok /\ r.val = a /\ r.at = 0 + Len(x)
    <2>1. r = Read(a, 0 + Len(x))
      BY <1>6
    <2> QED BY <2>1, ReadIs
  <1>9. decode_varint(s, r.at).ok /\ decode_varint(s, r.at).val = b
    <2>1. decode_varint(s, r.at) = Read(b, (0 + Len(x)) + Len(y))
      BY <1>7, <1>8
    <2> QED BY <2>1, ReadIs
  <1> QED BY <1>8, <1>9

\* The content of SUBSCRIBE_OK.
LEMMA SubscribeOkRead ==
    ASSUME NEW c \in [request_id : Numbers, track_alias : Numbers, expires_ms : Numbers,
                      group_order : Bytes, content_exists : BOOLEAN,
                      largest_group_id : Numbers, largest_object_id : Numbers],
           ~c.content_exists => c.largest_group_id = 0 /\ c.largest_object_id = 0
    PROVE  LET t == (encode_varint(c.request_id) \o encode_varint(c.track_alias)) \o
                    encode_params(SubscribeOkParams(c))
           IN  t \in Seq(Bytes) /\ parse_subscribe_ok(t) = Read(c, Len(t))
  <1>1. PICK id \in Numbers, alias \in Numbers, expires \in Numbers, order \in Bytes,
             group \in Numbers, object \in Numbers :
             /\ c.request_id = id /\ c.track_alias = alias /\ c.expires_ms = expires
             /\ c.group_order = order /\ c.largest_group_id = group /\ c.largest_object_id = object
    OBVIOUS
  <1>2. PICK exists \in BOOLEAN : c.content_exists = exists
    <2>1. c.content_exists \in BOOLEAN
      OBVIOUS
    <2> QED BY <2>1, Zenon
  <1>3. c = [request_id |-> c.request_id, track_alias |-> c.track_alias, expires_ms |-> c.expires_ms,
             group_order |-> c.group_order, content_exists |-> c.content_exists,
             largest_group_id |-> c.largest_group_id, largest_object_id |-> c.largest_object_id]
    OBVIOUS
  <1>4. PICK params : params = SubscribeOkParams(c)
    OBVIOUS
  <1>5. order \in Numbers
    BY ByteIsNumber
  <1>6. /\ params \in Params
        /\ \A s \in Params : ToSet(s) = ToSet(params) =>
              /\ IntOf(s, Key.Expires, 0) = expires /\ IntOf(s, Key.GroupOrder, 0) = order
              /\ (\E p \in ToSet(s) : p.key = Key.LargestObject) <=> exists
              /\ exists => BytesOf(s, Key.LargestObject) = encode_varint(group) \o encode_varint(object)
              /\ ~exists => BytesOf(s, Key.LargestObject) = <<>>
    BY <1>1, <1>2, <1>4, <1>5, OkParams
  <1>7. PICK s : s = Sorted[params]
    OBVIOUS
  <1>8. s \in Params /\ ToSet(s) = ToSet(params)
    BY <1>6, <1>7, SortedIs, Zenon
  <1>9. PICK largest : largest = BytesOf(s, Key.LargestObject)
    OBVIOUS
  <1>10. /\ IntOf(s, Key.Expires, 0) = expires /\ IntOf(s, Key.GroupOrder, 0) % Byte = order
         /\ (\E p \in ToSet(s) : p.key = Key.LargestObject) <=> exists
         /\ exists => largest = encode_varint(group) \o encode_varint(object)
         /\ ~exists => largest = <<>>
    BY <1>6, <1>8, <1>9, ByteKept, Zenon
  <1>11. PICK g, o : /\ g = decode_varint(largest, 0)
                     /\ o = IF g.ok THEN decode_varint(largest, g.at) ELSE Failed
    OBVIOUS
  <1>12. (IF g.ok THEN g.val ELSE 0) = group /\ (IF o.ok THEN o.val ELSE 0) = object
    <2>1. CASE exists
      <3>1. g.ok /\ g.val = group /\ o.ok /\ o.val = object
        <4>1. largest = encode_varint(group) \o encode_varint(object)
          BY <1>10, <2>1, Zenon
        <4>2. /\ g.ok /\ g.val = group
              /\ decode_varint(largest, g.at).ok /\ decode_varint(largest, g.at).val = object
          <5>1. \A p, r : p = encode_varint(group) \o encode_varint(object) /\ r = decode_varint(p, 0) =>
                   /\ r.ok /\ r.val = group
                   /\ decode_varint(p, r.at).ok /\ decode_varint(p, r.at).val = object
            BY PairRead, ZenonT(30)
          <5> QED BY <1>11, <4>1, <5>1, Zenon
        <4> QED BY <1>11, <4>2, Zenon
      <3> QED BY <3>1, Zenon
    <2>2. CASE ~exists
      <3>1. ~g.ok /\ ~o.ok
        BY <1>10, <1>11, <2>2, NothingRead, Zenon
      <3>2. group = 0 /\ object = 0
        BY <1>1, <1>2, <2>2, Zenon
      <3> QED BY <3>1, <3>2, Zenon
    <2> QED BY <2>1, <2>2
  <1>13. PICK x, y, z : /\ x = encode_varint(id) /\ y = encode_varint(alias)
                        /\ z = encode_params(params)
    OBVIOUS
  <1>14. Stands("varint", id, x) /\ Stands("varint", alias, y) /\ Stands("params", s, z)
    BY <1>6, <1>7, <1>13, NumberStands, ParamsStand, Zenon
  <1>15. PICK t : t = (x \o y) \o z
    OBVIOUS
  <1>16. PICK f : /\ t \in Seq(Bytes)
                  /\ ReadFields(<<"varint", "varint", "params">>, t, 0) = Read(f, Len(t))
                  /\ f[1] = id /\ f[2] = alias /\ f[3] = s
    <2>1. /\ t \in Seq(Bytes)
          /\ ReadFields(<<"varint", "varint", "params">>, t, 0) = Read(<<id, alias, s>>, Len(t))
      BY <1>14, <1>15, ThreeFields
    <2>2. <<id, alias, s>>[1] = id /\ <<id, alias, s>>[2] = alias /\ <<id, alias, s>>[3] = s
      OBVIOUS
    <2> QED BY <2>1, <2>2
  <1>17. PICK r : r = ReadFields(<<"varint", "varint", "params">>, t, 0)
    OBVIOUS
  <1>18. r.ok /\ r.val = f /\ r.at = Len(t)
    <2>1. r = Read(f, Len(t))
      BY <1>16, <1>17
    <2> QED BY <2>1, ReadIs, Zenon
  <1>19. parse_subscribe_ok(t) =
            Read([request_id |-> f[1], track_alias |-> f[2],
                  expires_ms |-> IntOf(f[3], Key.Expires, 0),
                  group_order |-> IntOf(f[3], Key.GroupOrder, 0) % Byte,
                  content_exists |-> \E p \in ToSet(f[3]) : p.key = Key.LargestObject,
                  largest_group_id |-> IF g.ok THEN g.val ELSE 0,
                  largest_object_id |-> IF o.ok THEN o.val ELSE 0], Len(t))
    <2>1. /\ g = decode_varint(BytesOf(f[3], Key.LargestObject), 0)
          /\ o = IF g.ok THEN decode_varint(BytesOf(f[3], Key.LargestObject), g.at) ELSE Failed
      BY <1>9, <1>11, <1>16, Zenon
    <2> QED BY <1>17, <1>18, <2>1, Zenon DEF parse_subscribe_ok, Result
  <1>20. (\E p \in ToSet(f[3]) : p.key = Key.LargestObject) = exists
    <2>1. (\E p \in ToSet(f[3]) : p.key = Key.LargestObject) <=> exists
      BY <1>10, <1>16, Zenon
    <2> QED BY <2>1, Zenon
  <1>21. parse_subscribe_ok(t) = Read(c, Len(t))
    <2>1. parse_subscribe_ok(t) =
             Read([request_id |-> id, track_alias |-> alias, expires_ms |-> expires,
                   group_order |-> order, content_exists |-> exists,
                   largest_group_id |-> group, largest_object_id |-> object], Len(t))
      BY <1>10, <1>12, <1>16, <1>19, <1>20, Zenon
    <2>2. c = [request_id |-> id, track_alias |-> alias, expires_ms |-> expires,
               group_order |-> order, content_exists |-> exists,
               largest_group_id |-> group, largest_object_id |-> object]
      BY <1>1, <1>2, <1>3, Zenon
    <2> QED BY <2>1, <2>2, Zenon
  <1> QED BY <1>1, <1>4, <1>13, <1>15, <1>16, <1>21, Zenon

----------------------------------------------------------------------------
(* SUBSCRIBE and CLIENT_SETUP *)

\* Parameters in another order are the same parameters.
LEMMA Reordered ==
    ASSUME NEW p1 \in KvpParams, NEW p2 \in KvpParams, NEW p3 \in KvpParams, NEW p4 \in KvpParams,
           NEW rest \in Seq(KvpParams), <<p1, p2, p3, p4>> \o rest \in Params
    PROVE  /\ <<p3, p1, p4, p2>> \o rest \in Params
           /\ ToSet(<<p3, p1, p4, p2>> \o rest) = ToSet(<<p1, p2, p3, p4>> \o rest)
           /\ \A p \in {p1, p2, p3, p4} : p \in ToSet(<<p1, p2, p3, p4>> \o rest)
  <1>0. PICK n \in Nat : n = Len(rest)
    OBVIOUS
  <1>1. PICK a, b : a = <<p1, p2, p3, p4>> /\ b = <<p3, p1, p4, p2>>
    OBVIOUS
  <1>2. /\ a \in Seq(KvpParams) /\ Len(a) = 4 /\ a[1] = p1 /\ a[2] = p2 /\ a[3] = p3 /\ a[4] = p4
        /\ b \in Seq(KvpParams) /\ Len(b) = 4 /\ b[1] = p3 /\ b[2] = p1 /\ b[3] = p4 /\ b[4] = p2
    BY <1>1
  <1>3. PICK s : s = a \o rest
    OBVIOUS
  <1>4. PICK t : t = b \o rest
    OBVIOUS
  <1>5. /\ s \in Seq(KvpParams) /\ Len(s) = 4 + n
        /\ \A i \in 1 .. 4 + n : s[i] = IF i <= 4 THEN a[i] ELSE rest[i - 4]
    <2>1. /\ s \in Seq(KvpParams) /\ Len(s) = Len(a) + Len(rest)
          /\ \A i \in 1 .. Len(a) + Len(rest) :
                s[i] = IF i <= Len(a) THEN a[i] ELSE rest[i - Len(a)]
      BY <1>2, <1>3, ConcatProperties
    <2> QED BY <1>0, <1>2, <2>1, Zenon
  <1>6. /\ t \in Seq(KvpParams) /\ Len(t) = 4 + n
        /\ \A i \in 1 .. 4 + n : t[i] = IF i <= 4 THEN b[i] ELSE rest[i - 4]
    <2>1. /\ t \in Seq(KvpParams) /\ Len(t) = Len(b) + Len(rest)
          /\ \A i \in 1 .. Len(b) + Len(rest) :
                t[i] = IF i <= Len(b) THEN b[i] ELSE rest[i - Len(b)]
      BY <1>2, <1>4, ConcatProperties
    <2> QED BY <1>0, <1>2, <2>1, Zenon
  <1>7. DOMAIN s = 1 .. 4 + n /\ DOMAIN t = 1 .. 4 + n
    BY <1>5, <1>6
  <1>8. /\ 1 \in 1 .. 4 + n /\ 2 \in 1 .. 4 + n /\ 3 \in 1 .. 4 + n /\ 4 \in 1 .. 4 + n
        /\ 1 <= 4 /\ 2 <= 4 /\ 3 <= 4 /\ 4 <= 4
        /\ \A i \in 1 .. 4 + n : i = 1 \/ i = 2 \/ i = 3 \/ i = 4 \/ ~(i <= 4)
    OBVIOUS
  <1>9. /\ s[1] = p1 /\ s[2] = p2 /\ s[3] = p3 /\ s[4] = p4
        /\ t[1] = p3 /\ t[2] = p1 /\ t[3] = p4 /\ t[4] = p2
        /\ \A i \in 1 .. 4 + n : ~(i <= 4) => t[i] = s[i]
    <2>1. s[1] = a[1] /\ s[2] = a[2] /\ s[3] = a[3] /\ s[4] = a[4]
      BY <1>5, <1>8, Zenon
    <2>2. t[1] = b[1] /\ t[2] = b[2] /\ t[3] = b[3] /\ t[4] = b[4]
      BY <1>6, <1>8, Zenon
    <2>3. \A i \in 1 .. 4 + n : ~(i <= 4) => t[i] = s[i]
      BY <1>5, <1>6, Zenon
    <2> QED BY <1>2, <2>1, <2>2, <2>3, Zenon
  <1> DEFINE at == [i \in 1 .. 4 + n |-> IF i = 1 THEN 3 ELSE IF i = 2 THEN 1
                                         ELSE IF i = 3 THEN 4 ELSE IF i = 4 THEN 2 ELSE i]
  <1>10. \A i \in 1 .. 4 + n : at[i] \in 1 .. 4 + n
    OBVIOUS
  <1>11. \A i, j \in 1 .. 4 + n : at[i] = at[j] => i = j
    OBVIOUS
  <1>12. \A j \in 1 .. 4 + n : \E i \in 1 .. 4 + n : at[i] = j
    <2> SUFFICES ASSUME NEW j \in 1 .. 4 + n PROVE \E i \in 1 .. 4 + n : at[i] = j
      OBVIOUS
    <2>1. at[2] = 1 /\ at[4] = 2 /\ at[1] = 3 /\ at[3] = 4 /\ (~(j <= 4) => at[j] = j)
      BY <1>8
    <2> QED BY <1>8, <2>1, Zenon
  <1>13. \A i \in 1 .. 4 + n : t[i] = s[at[i]]
    <2> SUFFICES ASSUME NEW i \in 1 .. 4 + n PROVE t[i] = s[at[i]]
      OBVIOUS
    <2>1. at[2] = 1 /\ at[4] = 2 /\ at[1] = 3 /\ at[3] = 4 /\ (~(i <= 4) => at[i] = i)
      BY <1>8
    <2> QED BY <1>8, <1>9, <2>1, Zenon
  <1> HIDE DEF at
  <1>14. s \in Params
    BY <1>1, <1>3, Zenon
  <1>15. t \in Params
    <2>1. \A i, j \in DOMAIN s : s[i].key = s[j].key => i = j
      BY <1>14 DEF Params
    <2>2. \A i, j \in DOMAIN t : t[i].key = t[j].key => i = j
      <3> SUFFICES ASSUME NEW i \in 1 .. 4 + n, NEW j \in 1 .. 4 + n, t[i].key = t[j].key PROVE i = j
        BY <1>7, Zenon
      <3>1. s[at[i]].key = s[at[j]].key /\ at[i] \in DOMAIN s /\ at[j] \in DOMAIN s
        BY <1>7, <1>10, <1>13, Zenon
      <3>2. at[i] = at[j]
        BY <2>1, <3>1, Zenon
      <3> QED BY <1>11, <3>2, Zenon
    <2>3. Len(t) < Power[2]
      BY <1>5, <1>6, <1>14, ParamFacts, Zenon
    <2> QED BY <1>6, <2>2, <2>3, Zenon DEF Params
  <1>16. ToSet(t) = ToSet(s)
    <2>1. \A p : p \in ToSet(t) => p \in ToSet(s)
      <3> SUFFICES ASSUME NEW p, p \in ToSet(t) PROVE p \in ToSet(s)
        OBVIOUS
      <3>1. PICK i \in 1 .. 4 + n : p = t[i]
        BY <1>7, Zenon DEF ToSet
      <3>2. p = s[at[i]] /\ at[i] \in DOMAIN s
        BY <1>7, <1>10, <1>13, <3>1, Zenon
      <3> QED BY <3>2, Zenon DEF ToSet
    <2>2. \A p : p \in ToSet(s) => p \in ToSet(t)
      <3> SUFFICES ASSUME NEW p, p \in ToSet(s) PROVE p \in ToSet(t)
        OBVIOUS
      <3>1. PICK j \in 1 .. 4 + n : p = s[j]
        BY <1>7, Zenon DEF ToSet
      <3>2. PICK i \in 1 .. 4 + n : at[i] = j
        BY <1>12, Zenon
      <3>3. p = t[i] /\ i \in DOMAIN t
        BY <1>7, <1>13, <3>1, <3>2, Zenon
      <3> QED BY <3>3, Zenon DEF ToSet
    <2> QED BY <2>1, <2>2, Zenon
  <1>17. p1 \in ToSet(s) /\ p2 \in ToSet(s) /\ p3 \in ToSet(s) /\ p4 \in ToSet(s)
    BY <1>7, <1>8, <1>9, Zenon DEF ToSet
  <1>18. \A p \in {p1, p2, p3, p4} : p \in ToSet(s)
    BY <1>17
  <1> QED BY <1>1, <1>3, <1>4, <1>15, <1>16, <1>18, Zenon

\* CLIENT_SETUP lists its parameters in the order of their keys.
LEMMA ClientSetupParams ==
    ASSUME NEW path \in Strings, NEW max \in Numbers
    PROVE  LET params == <<BytesParam(1, path), IntParam(2, max)>>
           IN  params \in Params /\ Sorted[params] = params
  <1>1. PICK p, q : p = BytesParam(1, path) /\ q = IntParam(2, max)
    OBVIOUS
  <1>2. p \in KvpParams /\ p.key = 1 /\ q \in KvpParams /\ q.key = 2
    <2>1. 1 \in Numbers /\ 2 \in Numbers
      BY KeysAre
    <2>2. 1 % 2 = 1 /\ 2 % 2 = 0
      OBVIOUS
    <2>3. p \in KvpParams /\ p.key = 1
      BY <1>1, <2>1, <2>2, BytesParamIs
    <2>4. q \in KvpParams /\ q.key = 2
      BY <1>1, <2>1, <2>2, IntParamIs
    <2> QED BY <2>3, <2>4
  <1>3. PICK s : s = <<p, q>>
    OBVIOUS
  <1>4. /\ s \in Seq(KvpParams) /\ Len(s) = 2 /\ s[1] = p /\ s[2] = q /\ DOMAIN s = {1, 2}
    BY <1>2, <1>3
  <1>5. s \in Params
    <2>1. Len(s) < Power[2]
      BY <1>4, Room
    <2>2. 1 # 2
      OBVIOUS
    <2>3. \A i, j \in DOMAIN s : s[i].key = s[j].key => i = j
      BY <1>2, <1>4, <2>2, Zenon
    <2> QED BY <1>4, <2>1, <2>3, Zenon DEF Params
  <1>6. PICK t : t = Sorted[s]
    OBVIOUS
  <1>7. /\ t \in Seq(KvpParams) /\ Len(t) = 2 /\ ToSet(t) = ToSet(s)
        /\ \A i, j \in 1 .. 2 : i < j => t[i].key < t[j].key
    BY <1>4, <1>5, <1>6, SortedIs, ParamFacts, Zenon
  <1>8. t[1] = p /\ t[2] = q
    <2>1. DOMAIN t = {1, 2}
      BY <1>7
    <2>2. t[1] \in ToSet(s) /\ t[2] \in ToSet(s)
      BY <1>7, <2>1, Zenon DEF ToSet
    <2>3. \A x \in ToSet(s) : x = p \/ x = q
      BY <1>4, Zenon DEF ToSet
    <2>4. t[1].key < t[2].key
      BY <1>7
    <2> QED BY <1>2, <2>2, <2>3, <2>4
  <1>9. t = s
    BY <1>3, <1>4, <1>7, <1>8, SeqEqual
  <1> QED BY <1>1, <1>3, <1>5, <1>6, <1>9, Zenon

\* The content of SUBSCRIBE.
LEMMA SubscribeRead ==
    ASSUME NEW c \in [request_id : Numbers, track_namespace : Namespaces, track_name : Strings,
                      priority : Bytes, group_order : Bytes, forward : Bytes, filter_type : Numbers,
                      authorization : Strings, extra_params : Params],
           SubscribeParams(c) \in Params
    PROVE  LET t == ((encode_varint(c.request_id) \o encode_namespace(c.track_namespace)) \o
                     append_string_bytes(c.track_name)) \o encode_params(SubscribeParams(c))
           IN  /\ t \in Seq(Bytes)
               /\ parse_subscribe(t) =
                     Read([request_id |-> c.request_id, track_namespace |-> c.track_namespace,
                           track_name |-> c.track_name, priority |-> c.priority,
                           group_order |-> c.group_order, forward |-> c.forward,
                           filter_type |-> c.filter_type,
                           params |-> Sorted[
                              <<IntParam(16, c.forward), IntParam(32, c.priority),
                                BytesParam(33, encode_varint(c.filter_type)),
                                IntParam(34, c.group_order)>>
                              \o (IF c.authorization = <<>> THEN <<>>
                                  ELSE <<BytesParam(3, c.authorization)>>)
                              \o c.extra_params]], Len(t))
  <1>1. PICK id \in Numbers, ns \in Namespaces, name \in Strings, priority \in Bytes,
             order \in Bytes, forward \in Bytes, filter \in Numbers :
             /\ c.request_id = id /\ c.track_namespace = ns /\ c.track_name = name
             /\ c.priority = priority /\ c.group_order = order /\ c.forward = forward
             /\ c.filter_type = filter
    OBVIOUS
  <1>2. PICK token \in Strings, extra \in Params : c.authorization = token /\ c.extra_params = extra
    OBVIOUS
  <1>3. PICK text : text = encode_varint(filter)
    OBVIOUS
  <1>4. text \in Strings /\ text \in Seq(Bytes)
    <2>1. text \in Seq(Bytes) /\ Len(text) \in 1 .. 8
      BY <1>3, NumberBytes, Zenon
    <2>2. \A x \in 1 .. 8 : x < Power[2]
      BY Room
    <2> QED BY <2>1, <2>2, Zenon DEF Strings
  <1>5. PICK p1, p2, p3, p4 : /\ p1 = IntParam(32, priority) /\ p2 = IntParam(34, order)
                              /\ p3 = IntParam(16, forward) /\ p4 = BytesParam(33, text)
    OBVIOUS
  <1>6. /\ p1 \in KvpParams /\ p1.key = 32 /\ p1.int_value = priority
        /\ p2 \in KvpParams /\ p2.key = 34 /\ p2.int_value = order
        /\ p3 \in KvpParams /\ p3.key = 16 /\ p3.int_value = forward
        /\ p4 \in KvpParams /\ p4.key = 33 /\ p4.bytes_value = text
    <2>1. 32 \in Numbers /\ 34 \in Numbers /\ 16 \in Numbers /\ 33 \in Numbers
      BY KeysAre
    <2>2. 32 % 2 = 0 /\ 34 % 2 = 0 /\ 16 % 2 = 0 /\ 33 % 2 = 1
      OBVIOUS
    <2>3. priority \in Numbers /\ order \in Numbers /\ forward \in Numbers
      BY ByteIsNumber
    <2>4. p1 \in KvpParams /\ p1.key = 32 /\ p1.int_value = priority
      BY <1>5, <2>1, <2>2, <2>3, IntParamIs
    <2>5. p2 \in KvpParams /\ p2.key = 34 /\ p2.int_value = order
      BY <1>5, <2>1, <2>2, <2>3, IntParamIs
    <2>6. p3 \in KvpParams /\ p3.key = 16 /\ p3.int_value = forward
      BY <1>5, <2>1, <2>2, <2>3, IntParamIs
    <2>7. p4 \in KvpParams /\ p4.key = 33 /\ p4.bytes_value = text
      BY <1>4, <1>5, <2>1, <2>2, BytesParamIs
    <2> QED BY <2>4, <2>5, <2>6, <2>7
  <1>7. PICK auth : auth = IF token = <<>> THEN <<>> ELSE <<BytesParam(3, token)>>
    OBVIOUS
  <1>8. auth \in Seq(KvpParams) /\ extra \in Seq(KvpParams)
    <2>1. BytesParam(3, token) \in KvpParams
      <3>1. 3 \in Numbers /\ 3 % 2 = 1
        BY KeysAre
      <3> QED BY <3>1, BytesParamIs
    <2>2. auth \in Seq(KvpParams)
      BY <1>7, <2>1
    <2> QED BY <2>2, ParamFacts
  <1>9. PICK rest \in Seq(KvpParams) : rest = auth \o extra
    <2>1. auth \o extra \in Seq(KvpParams)
      BY <1>8, Joined
    <2> QED BY <2>1, Zenon
  <1>10. PICK a \in Seq(KvpParams), b \in Seq(KvpParams) : a = <<p1, p2, p3, p4>> /\ b = <<p3, p1, p4, p2>>
    <2>1. p1 \in KvpParams /\ p2 \in KvpParams /\ p3 \in KvpParams /\ p4 \in KvpParams
      BY <1>6
    <2>2. <<p1, p2, p3, p4>> \in Seq(KvpParams) /\ <<p3, p1, p4, p2>> \in Seq(KvpParams)
      BY <2>1
    <2> QED BY <2>2
  <1>11. /\ (a \o auth) \o extra = a \o rest /\ (b \o auth) \o extra = b \o rest
    BY <1>8, <1>9, <1>10, Associative
  <1>12. SubscribeParams(c) = a \o rest
    <2>1. SubscribeParams(c) =
             (<<IntParam(32, priority), IntParam(34, order), IntParam(16, forward),
                BytesParam(33, encode_varint(filter))>> \o
              If(token # <<>>, <<BytesParam(3, token)>>)) \o extra
      BY <1>1, <1>2, KeysAre DEF SubscribeParams
    <2>2. If(token # <<>>, <<BytesParam(3, token)>>) = auth
      BY <1>7 DEF If
    <2>3. <<IntParam(32, priority), IntParam(34, order), IntParam(16, forward),
            BytesParam(33, encode_varint(filter))>> = a
      BY <1>3, <1>5, <1>10
    <2> QED BY <1>11, <2>1, <2>2, <2>3
  <1>13. PICK listed : listed = b \o rest
    OBVIOUS
  <1>14. listed = <<IntParam(16, c.forward), IntParam(32, c.priority),
                    BytesParam(33, encode_varint(c.filter_type)), IntParam(34, c.group_order)>>
                  \o (IF c.authorization = <<>> THEN <<>> ELSE <<BytesParam(3, c.authorization)>>)
                  \o c.extra_params
    <2>1. <<IntParam(16, c.forward), IntParam(32, c.priority),
            BytesParam(33, encode_varint(c.filter_type)), IntParam(34, c.group_order)>> = b
      BY <1>1, <1>3, <1>5, <1>10
    <2>2. (IF c.authorization = <<>> THEN <<>> ELSE <<BytesParam(3, c.authorization)>>) = auth
      BY <1>2, <1>7
    <2>3. c.extra_params = extra
      BY <1>2
    <2> QED BY <1>11, <1>13, <2>1, <2>2, <2>3
  <1>15. PICK params \in Params : params = SubscribeParams(c)
    OBVIOUS
  <1>16. /\ listed \in Params /\ ToSet(listed) = ToSet(params)
         /\ p1 \in ToSet(params) /\ p2 \in ToSet(params) /\ p3 \in ToSet(params) /\ p4 \in ToSet(params)
    <2>1. <<p1, p2, p3, p4>> \o rest \in Params
      BY <1>10, <1>12
    <2>2. /\ <<p3, p1, p4, p2>> \o rest \in Params
          /\ ToSet(<<p3, p1, p4, p2>> \o rest) = ToSet(<<p1, p2, p3, p4>> \o rest)
          /\ \A p \in {p1, p2, p3, p4} : p \in ToSet(<<p1, p2, p3, p4>> \o rest)
      BY <1>6, <2>1, Reordered
    <2>3. <<p1, p2, p3, p4>> \o rest = params /\ <<p3, p1, p4, p2>> \o rest = listed
      BY <1>10, <1>12, <1>13, <1>15
    <2>4. p1 \in {p1, p2, p3, p4} /\ p2 \in {p1, p2, p3, p4} /\ p3 \in {p1, p2, p3, p4} /\ p4 \in {p1, p2, p3, p4}
      OBVIOUS
    <2> QED BY <2>2, <2>3, <2>4
  <1>17. PICK s : s = Sorted[params]
    OBVIOUS
  <1>18. /\ s = Sorted[listed] /\ s \in Params /\ ToSet(s) = ToSet(params)
    BY <1>16, <1>17, SortedSame, SortedIs, Zenon
  <1>19. /\ IntOf(s, Key.SubscriberPriority, DefaultPriority) % Byte = priority
         /\ IntOf(s, Key.GroupOrder, 1) % Byte = order
         /\ IntOf(s, Key.Forward, 1) % Byte = forward
         /\ BytesOf(s, Key.SubscriptionFilter) = text
    <2>0. p1 \in ToSet(s) /\ p2 \in ToSet(s) /\ p3 \in ToSet(s) /\ p4 \in ToSet(s)
      BY <1>16, <1>18, Zenon
    <2>1. p1.key = Key.SubscriberPriority /\ p2.key = Key.GroupOrder /\ p3.key = Key.Forward
          /\ p4.key = Key.SubscriptionFilter
      BY <1>6, KeysAre
    <2>2. IntOf(s, Key.SubscriberPriority, DefaultPriority) = priority
      <3>1. \A default : IntOf(s, Key.SubscriberPriority, default) = p1.int_value
        BY <1>18, <2>0, <2>1, ParamThere, ZenonT(30)
      <3> QED BY <1>6, <3>1, Zenon
    <2>3. IntOf(s, Key.GroupOrder, 1) = order
      <3>1. \A default : IntOf(s, Key.GroupOrder, default) = p2.int_value
        BY <1>18, <2>0, <2>1, ParamThere, ZenonT(30)
      <3> QED BY <1>6, <3>1, Zenon
    <2>4. IntOf(s, Key.Forward, 1) = forward
      <3>1. \A default : IntOf(s, Key.Forward, default) = p3.int_value
        BY <1>18, <2>0, <2>1, ParamThere, ZenonT(30)
      <3> QED BY <1>6, <3>1, Zenon
    <2>5. BytesOf(s, Key.SubscriptionFilter) = text
      BY <1>6, <1>18, <2>0, <2>1, ParamThere
    <2> QED BY <2>2, <2>3, <2>4, <2>5, ByteKept, Zenon
  <1>20. decode_varint(text, 0).ok /\ decode_varint(text, 0).val = filter
    <2>1. Found(text, 0, text)
      BY <1>4, FoundWhole
    <2>2. decode_varint(text, 0) = Read(filter, 0 + Len(text))
      BY <1>3, <1>4, <2>1, NumberRead
    <2>3. PICK r : r = Read(filter, 0 + Len(text))
      OBVIOUS
    <2>4. r.ok /\ r.val = filter
      BY <2>3, ReadIs, Zenon
    <2> QED BY <2>2, <2>3, <2>4, Zenon
  <1>21. PICK w, x, y, z : /\ w = encode_varint(id) /\ x = encode_namespace(ns)
                           /\ y = append_string_bytes(name) /\ z = encode_params(params)
    OBVIOUS
  <1>22. /\ Stands("varint", id, w) /\ Stands("namespace", ns, x)
         /\ Stands("string", name, y) /\ Stands("params", s, z)
    BY <1>17, <1>21, NumberStands, NamespaceStands, TextStands, ParamsStand, Zenon
  <1>23. PICK t : t = ((w \o x) \o y) \o z
    OBVIOUS
  <1>24. PICK f : /\ t \in Seq(Bytes)
                  /\ ReadFields(<<"varint", "namespace", "string", "params">>, t, 0) = Read(f, Len(t))
                  /\ f[1] = id /\ f[2] = ns /\ f[3] = name /\ f[4] = s
    <2>1. /\ t \in Seq(Bytes)
          /\ ReadFields(<<"varint", "namespace", "string", "params">>, t, 0) =
                Read(<<id, ns, name, s>>, Len(t))
      BY <1>22, <1>23, FourFields
    <2>2. /\ <<id, ns, name, s>>[1] = id /\ <<id, ns, name, s>>[2] = ns
          /\ <<id, ns, name, s>>[3] = name /\ <<id, ns, name, s>>[4] = s
      OBVIOUS
    <2> QED BY <2>1, <2>2
  <1>25. PICK r : r = ReadFields(<<"varint", "namespace", "string", "params">>, t, 0)
    OBVIOUS
  <1>26. r.ok /\ r.val = f /\ r.at = Len(t)
    <2>1. r = Read(f, Len(t))
      BY <1>24, <1>25
    <2> QED BY <2>1, ReadIs, Zenon
  <1>27. PICK type : type = decode_varint(BytesOf(f[4], Key.SubscriptionFilter), 0)
    OBVIOUS
  <1>28. type.ok /\ type.val = filter
    BY <1>19, <1>20, <1>24, <1>27, Zenon
  <1>29. parse_subscribe(t) =
            Read([request_id |-> f[1], track_namespace |-> f[2], track_name |-> f[3],
                  params |-> f[4],
                  priority |-> IntOf(f[4], Key.SubscriberPriority, DefaultPriority) % Byte,
                  group_order |-> IntOf(f[4], Key.GroupOrder, 1) % Byte,
                  forward |-> IntOf(f[4], Key.Forward, 1) % Byte,
                  filter_type |-> IF type.ok THEN type.val ELSE kFilterLatestObject], Len(t))
    BY <1>25, <1>26, <1>27, Zenon DEF parse_subscribe, Result
  <1>30. PICK result :
            result = [request_id |-> id, track_namespace |-> ns, track_name |-> name,
                      params |-> s, priority |-> priority, group_order |-> order,
                      forward |-> forward, filter_type |-> filter]
    OBVIOUS
  <1>31. parse_subscribe(t) = Read(result, Len(t))
    BY <1>19, <1>24, <1>28, <1>29, <1>30, Zenon
  <1>32. result = [request_id |-> c.request_id, track_namespace |-> c.track_namespace,
                   track_name |-> c.track_name, priority |-> c.priority,
                   group_order |-> c.group_order, forward |-> c.forward,
                   filter_type |-> c.filter_type, params |-> Sorted[listed]]
    <2>1. [request_id |-> id, track_namespace |-> ns, track_name |-> name, priority |-> priority,
           group_order |-> order, forward |-> forward, filter_type |-> filter, params |-> s] = result
      BY <1>30
    <2> QED BY <1>1, <1>18, <2>1, Zenon
  <1>33. t = ((encode_varint(c.request_id) \o encode_namespace(c.track_namespace)) \o
              append_string_bytes(c.track_name)) \o encode_params(SubscribeParams(c))
    BY <1>1, <1>15, <1>21, <1>23, Zenon
  <1> QED BY <1>14, <1>24, <1>31, <1>32, <1>33, Zenon

=============================================================================
