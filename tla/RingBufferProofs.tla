-------------------------- MODULE RingBufferProofs --------------------------
(***************************************************************************)
(* Theorems about RingBuffer, for every capacity, channel count and block  *)
(* size.  The orderly ring implements the bounded audio queue: its         *)
(* invariant says which samples lie in the ring, and with it each atomic   *)
(* access of write(), read() and flush() is a step of AudioQueue or leaves *)
(* the queue alone.                                                        *)
(***************************************************************************)
EXTENDS RingBuffer, SequenceTheorems, TLAPS

----------------------------------------------------------------------------
(* Remainders, and whole frames *)

\* A remainder lies below its divisor: what a position becomes is a slot.
LEMMA ModRange == ASSUME NEW a \in Int, NEW c \in Nat \ {0} PROVE a % c \in 0..(c - 1)
  BY SMT

\* A position that has not reached the end of data_ is left as it is.
LEMMA ModSmall == ASSUME NEW c \in Nat \ {0}, NEW a \in 0..(c - 1) PROVE a % c = a
  BY SMT

\* A position at most one lap past the end of data_ comes back by one capacity.
LEMMA ModWrap == ASSUME NEW c \in Nat \ {0}, NEW a \in c..(2 * c - 1) PROVE a % c = a - c
  BY SMT

\* The division the code writes as / and %.
LEMMA Division ==
    ASSUME NEW a \in Int, NEW c \in Nat \ {0}
    PROVE  a \div c \in Int /\ a = c * (a \div c) + (a % c)
  <1>1. a \div c \in Int
    BY SMT
  <1>2. a = c * (a \div c) + (a % c)
    BY SMT
  <1> QED BY <1>1, <1>2

\* So many frames are a whole number of frames ...
LEMMA FramesWhole == ASSUME NEW q \in Int, NEW c \in Nat \ {0} PROVE (q * c) % c = 0
  BY SMT

\* ... and a whole number of frames is so many frames.
LEMMA WholeFrames ==
    ASSUME NEW a \in Int, NEW c \in Nat \ {0}, a % c = 0
    PROVE  \E q \in Int : a = q * c
  <1>1. a \div c \in Int
    BY Division
  <1>2. a = (a \div c) * c
    BY SMT
  <1> QED BY <1>1, <1>2, Zenon

\* Sums and differences of whole frames are whole frames.
LEMMA SumWhole ==
    ASSUME NEW a \in Int, NEW b \in Int, NEW c \in Nat \ {0}, a % c = 0, b % c = 0
    PROVE  (a + b) % c = 0 /\ (a - b) % c = 0
  <1>1. PICK p \in Int : a = p * c
    BY WholeFrames
  <1>2. PICK q \in Int : b = q * c
    BY WholeFrames
  <1>3. a + b = (p + q) * c /\ a - b = (p - q) * c
    BY <1>1, <1>2, SMT
  <1>4. p + q \in Int /\ p - q \in Int
    OBVIOUS
  <1> QED BY <1>3, <1>4, FramesWhole, Zenon

\* A remainder by a whole number of frames is a whole number of frames: wrapping at
\* the end of data_ splits no frame.
LEMMA WrapWhole ==
    ASSUME NEW a \in Int, NEW m \in Nat \ {0}, NEW c \in Nat \ {0}, a % c = 0, m % c = 0
    PROVE  (a % m) % c = 0
  <1>1. PICK p \in Int : a = p * c
    BY WholeFrames
  <1>2. PICK k \in Int : m = k * c
    BY WholeFrames
  <1>3. a \div m \in Int /\ a = m * (a \div m) + (a % m) /\ a % m \in Int
    BY Division, ModRange
  <1>4. a % m = (p - k * (a \div m)) * c
    BY <1>1, <1>2, <1>3, SMT
  <1>5. p - k * (a \div m) \in Int
    BY <1>3, SMT
  <1> QED BY <1>4, <1>5, FramesWhole, Zenon

----------------------------------------------------------------------------
(* The ring *)

\* capacity_ is a positive number of floats.
LEMMA CapacityType == Capacity \in Nat \ {0}
  BY SizeAssumption, SMT DEF Capacity

\* The range of uint32_t is not empty.
LEMMA WordType == Word \in Nat \ {0}
  BY SizeAssumption, CapacityType, SMT

\* The unsigned sums and differences of write() and read() stay in their word.
LEMMA WordOps ==
    ASSUME NEW a \in Int, NEW b \in Int
    PROVE  /\ Add(a, b) \in 0..(Word - 1)
           /\ Sub(a, b) \in 0..(Word - 1)
           /\ Advance(a, b) \in Slots
  <1>1. a + b \in Int /\ a - b \in Int
    OBVIOUS
  <1>2. Add(a, b) \in 0..(Word - 1) /\ Sub(a, b) \in 0..(Word - 1)
    BY <1>1, ModRange, WordType DEF Add, Sub
  <1>3. Add(a, b) \in Int
    BY <1>2, WordType
  <1>4. Advance(a, b) \in Slots
    BY <1>3, ModRange, CapacityType DEF Advance, Slots
  <1> QED BY <1>2, <1>4

\* The part of an oversized block that write() keeps is a block of at most
\* capacity_ floats.
LEMMA KeptType ==
    ASSUME NEW n \in WriteFrames
    PROVE  /\ Kept(n) \in 1..Capacity
           /\ n * Channels \in 1..(Word - 1)
           /\ Kept(n) <= n * Channels
  BY FramesAssumption, CapacityType, SMT DEF Kept

\* copy_from_ring returns a block of the requested length.
LEMMA CopyFromType ==
    ASSUME data \in [Slots -> Nat], NEW pos \in Slots, NEW n \in 0..Capacity
    PROVE  copy_from_ring(pos, n) \in [1..n -> Nat]
  BY CapacityType, SMT DEF copy_from_ring, Slots

\* copy_to_ring leaves data_ an array of the same slots.
LEMMA CopyToType ==
    ASSUME data \in [Slots -> Nat], NEW pos \in Slots, NEW first \in Nat, NEW n \in 0..Capacity
    PROVE  copy_to_ring(pos, first, n) \in [Slots -> Nat]
  BY CapacityType, SMT DEF copy_to_ring, Slots

\* A function on 1 .. n is a sequence of that length, as blocks are.
LEMMA BlockIsSeq ==
    ASSUME NEW n \in Nat, NEW f \in [1..n -> Nat]
    PROVE  f \in Seq(Nat)
  BY SMT

\* The constructed ring has its type.
LEMMA TypeInit == Init => TypeOK
  BY CapacityType, WordType, SMT DEF Init, TypeOK, Slots

\* No atomic access of write(), read() or flush() breaks the type.
LEMMA TypeStep == TypeOK /\ [Next]_vars => TypeOK'
  <1> SUFFICES ASSUME TypeOK, [Next]_vars PROVE TypeOK'
    OBVIOUS
  <1> USE CapacityType, WordType
  <1> USE DEF TypeOK, Slots, ring, writer, reader, history
  <1>a. /\ write_pos \in Int /\ buffered \in Int /\ w_floats \in Int
        /\ w_rp \in Int /\ r_floats \in Int /\ r_rp \in Int
    OBVIOUS
  <1>b. Excess \in Int /\ Excess \in Nat
    <2>1. w_buf \in Int /\ w_floats \in Int /\ Capacity \in Int
      OBVIOUS
    <2>2. Add(w_buf, w_floats) \in 0..(Word - 1)
      BY <2>1, WordOps, Zenon
    <2>3. Add(w_buf, w_floats) \in Int
      BY <2>2
    <2>4. Sub(Add(w_buf, w_floats), Capacity) \in 0..(Word - 1)
      BY <2>1, <2>3, WordOps, Zenon
    <2> QED BY <2>4 DEF Excess
  <1>1. ASSUME NEW n \in WriteFrames, WriteBegin(n) PROVE TypeOK'
    BY <1>1, KeptType, SMTT(30) DEF WriteBegin
  <1>2. CASE WriteLoadReadPos
    BY <1>2 DEF WriteLoadReadPos
  <1>3. CASE WriteStoreReadPos
    <2>1. Advance(w_rp, Excess) \in Slots
      BY <1>a, <1>b, WordOps, Zenon
    <2> QED BY <1>3, <2>1 DEF WriteStoreReadPos
  <1>4. CASE WriteFetchSub
    <2>1. Sub(buffered, Excess) \in 0..(Word - 1)
      BY <1>a, <1>b, WordOps, Zenon
    <2> QED BY <1>4, <1>b, <2>1 DEF WriteFetchSub
  <1>5. CASE WriteCopy
    <2>1. produced + w_total - w_floats + 1 \in Nat
      OBVIOUS
    <2>2. copy_to_ring(write_pos, produced + w_total - w_floats + 1, w_floats) \in [Slots -> Nat]
      BY <2>1, CopyToType
    <2> QED BY <1>5, <2>2 DEF WriteCopy
  <1>6. CASE WriteStoreWritePos
    <2>1. Advance(write_pos, w_floats) \in Slots
      BY <1>a, WordOps, Zenon
    <2> QED BY <1>6, <2>1 DEF WriteStoreWritePos
  <1>7. CASE WriteFetchAdd
    <2>1. Add(buffered, w_floats) \in 0..(Word - 1)
      BY <1>a, WordOps, Zenon
    <2> QED BY <1>7, <2>1 DEF WriteFetchAdd
  <1>8. ASSUME NEW n \in ReadFrames, ReadBegin(n) PROVE TypeOK'
    BY <1>8, FramesAssumption DEF ReadBegin
  <1>9. CASE ReadLoadReadPos
    BY <1>9 DEF ReadLoadReadPos
  <1>10. CASE ReadCopy
    <2>1. copy_from_ring(r_rp, r_floats) \in [1..r_floats -> Nat]
      BY CopyFromType
    <2>2. copy_from_ring(r_rp, r_floats) \in Seq(Nat)
      BY <2>1, BlockIsSeq
    <2> QED BY <1>10, <2>1, <2>2 DEF ReadCopy
  <1>11. CASE ReadStoreReadPos
    <2>1. Advance(r_rp, r_floats) \in Slots
      BY <1>a, WordOps, Zenon
    <2> QED BY <1>11, <2>1 DEF ReadStoreReadPos
  <1>12. CASE ReadFetchSub
    <2>1. Sub(buffered, r_floats) \in 0..(Word - 1)
      BY <1>a, WordOps, Zenon
    <2>2. dst[r_floats] \in Nat
      BY <1>12 DEF ReadFetchSub
    <2> QED BY <1>12, <2>1, <2>2 DEF ReadFetchSub
  <1>13. CASE FlushBegin
    BY <1>13 DEF FlushBegin
  <1>14. CASE FlushStoreReadPos
    BY <1>14 DEF FlushStoreReadPos
  <1>15. CASE FlushStoreBuffered
    BY <1>15 DEF FlushStoreBuffered
  <1>16. CASE UNCHANGED vars
    BY <1>16 DEF vars
  <1> QED
    BY <1>1, <1>2, <1>3, <1>4, <1>5, <1>6, <1>7, <1>8, <1>9, <1>10, <1>11, <1>12, <1>13,
       <1>14, <1>15, <1>16 DEF Next, Writer, Reader, Flush

\* The state of the ring and of both threads keeps its type in every interleaving
\* of write(), read() and flush(), overflow races included.
THEOREM TypeCorrect == Spec => []TypeOK
  BY TypeInit, TypeStep, PTL DEF Spec

\* copy_to_ring and copy_from_ring never leave data_, whatever the interleaving.
THEOREM MemorySafe == Spec => []CopiesInBounds
  <1>1. TypeOK => CopiesInBounds
    BY CapacityType, SMT DEF TypeOK, CopiesInBounds, Chunks, Slots
  <1> QED BY <1>1, TypeCorrect, PTL

----------------------------------------------------------------------------
(* Whole frames, in every interleaving.                                     *)

Whole(x) == x % Channels = 0

\* FrameAligned is not inductive alone: the locals carry positions and counts over
\* from one atomic access to the next.
FrameInv ==
    /\ Whole(write_pos) /\ Whole(read_pos) /\ Whole(buffered)
    /\ Whole(w_floats) /\ Whole(w_buf) /\ Whole(w_rp)
    /\ Whole(r_floats) /\ Whole(r_rp)

\* capacity_ is a whole number of frames, and so is what write() keeps of a block.
LEMMA SizesWhole ==
    /\ Whole(Capacity) /\ Whole(0)
    /\ \A n \in WriteFrames \cup ReadFrames : Whole(n * Channels)
    /\ \A n \in WriteFrames : Whole(Kept(n))
  <1>1. \A n \in Nat : Whole(n * Channels)
    BY FramesWhole, SizeAssumption DEF Whole
  <1>2. Whole(Capacity) /\ Whole(0)
    BY <1>1, SizeAssumption, ModSmall DEF Capacity, Whole
  <1>3. WriteFrames \subseteq Nat /\ ReadFrames \subseteq Nat
    BY FramesAssumption
  <1> QED BY <1>1, <1>2, <1>3 DEF Kept

\* The unsigned arithmetic of the ring splits no frame if the word holds a whole
\* number of frames.
LEMMA WordOpsWhole ==
    ASSUME Word % Channels = 0, NEW a \in Int, NEW b \in Int, Whole(a), Whole(b)
    PROVE  Whole(Add(a, b)) /\ Whole(Sub(a, b)) /\ Whole(Advance(a, b))
  <1> USE DEF Whole
  <1>c. Channels \in Nat \ {0}
    BY SizeAssumption
  <1>1. a + b \in Int /\ a - b \in Int
    OBVIOUS
  <1>2. (a + b) % Channels = 0 /\ (a - b) % Channels = 0
    BY <1>c, SumWhole
  <1>3. Whole(Add(a, b)) /\ Whole(Sub(a, b))
    BY <1>1, <1>2, <1>c, WordType, WrapWhole DEF Add, Sub
  <1>4. Add(a, b) \in Int
    BY WordOps, WordType
  <1>5. Whole(Advance(a, b))
    BY <1>3, <1>4, <1>c, CapacityType, SizesWhole, WrapWhole DEF Advance
  <1> QED BY <1>3, <1>5

\* The constructed ring is aligned.
LEMMA FrameInit == Init => FrameInv
  BY SizesWhole DEF Init, FrameInv

\* No atomic access of write(), read() or flush() splits a frame.
LEMMA FrameStep ==
    ASSUME Word % Channels = 0
    PROVE  TypeOK /\ FrameInv /\ [Next]_vars => FrameInv'
  <1> SUFFICES ASSUME TypeOK, FrameInv, [Next]_vars PROVE FrameInv'
    OBVIOUS
  <1> USE DEF FrameInv, ring, writer, reader, history
  <1>a. /\ write_pos \in Int /\ read_pos \in Int /\ buffered \in Int /\ w_floats \in Int
        /\ w_buf \in Int /\ w_rp \in Int /\ r_floats \in Int /\ r_rp \in Int /\ Capacity \in Int
    BY CapacityType, WordType DEF TypeOK, Slots
  <1>b. Excess \in Int /\ Whole(Excess)
    <2>1. Add(w_buf, w_floats) \in Int /\ Whole(Add(w_buf, w_floats))
      BY <1>a, WordOps, WordType, WordOpsWhole
    <2>2. Sub(Add(w_buf, w_floats), Capacity) \in Int
      BY <1>a, <2>1, WordOps, WordType
    <2> QED BY <1>a, <2>1, <2>2, WordOpsWhole, SizesWhole DEF Excess
  <1>1. ASSUME NEW n \in WriteFrames, WriteBegin(n) PROVE FrameInv'
    BY <1>1, SizesWhole DEF WriteBegin, Whole
  <1>2. CASE WriteLoadReadPos
    BY <1>2 DEF WriteLoadReadPos, Whole
  <1>3. CASE WriteStoreReadPos
    <2>1. Whole(Advance(w_rp, Excess))
      BY <1>a, <1>b, WordOpsWhole
    <2> QED BY <1>3, <2>1 DEF WriteStoreReadPos, Whole
  <1>4. CASE WriteFetchSub
    <2>1. Whole(Sub(buffered, Excess))
      BY <1>a, <1>b, WordOpsWhole
    <2> QED BY <1>4, <2>1 DEF WriteFetchSub, Whole
  <1>5. CASE WriteCopy
    BY <1>5 DEF WriteCopy, Whole
  <1>6. CASE WriteStoreWritePos
    <2>1. Whole(Advance(write_pos, w_floats))
      BY <1>a, WordOpsWhole
    <2> QED BY <1>6, <2>1 DEF WriteStoreWritePos, Whole
  <1>7. CASE WriteFetchAdd
    <2>1. Whole(Add(buffered, w_floats))
      BY <1>a, WordOpsWhole
    <2> QED BY <1>7, <2>1 DEF WriteFetchAdd, Whole
  <1>8. ASSUME NEW n \in ReadFrames, ReadBegin(n) PROVE FrameInv'
    BY <1>8, SizesWhole DEF ReadBegin, Whole
  <1>9. CASE ReadLoadReadPos
    BY <1>9 DEF ReadLoadReadPos, Whole
  <1>10. CASE ReadCopy
    BY <1>10 DEF ReadCopy, Whole
  <1>11. CASE ReadStoreReadPos
    <2>1. Whole(Advance(r_rp, r_floats))
      BY <1>a, WordOpsWhole
    <2> QED BY <1>11, <2>1 DEF ReadStoreReadPos, Whole
  <1>12. CASE ReadFetchSub
    <2>1. Whole(Sub(buffered, r_floats))
      BY <1>a, WordOpsWhole
    <2> QED BY <1>12, <2>1 DEF ReadFetchSub, Whole
  <1>13. CASE FlushBegin
    BY <1>13 DEF FlushBegin, Whole
  <1>14. CASE FlushStoreReadPos
    BY <1>14 DEF FlushStoreReadPos, Whole
  <1>15. CASE FlushStoreBuffered
    BY <1>15, SizesWhole DEF FlushStoreBuffered, Whole
  <1>16. CASE UNCHANGED vars
    BY <1>16 DEF vars, Whole
  <1> QED
    BY <1>1, <1>2, <1>3, <1>4, <1>5, <1>6, <1>7, <1>8, <1>9, <1>10, <1>11, <1>12, <1>13,
       <1>14, <1>15, <1>16 DEF Next, Writer, Reader, Flush

\* The interleaved channels never slip: every position and count of the ring is a
\* whole number of frames in every interleaving of write(), read() and flush(), also
\* when a race of an overflow with a read or a flush has made buffered_ wrap around,
\* provided that a frame divides 2^32 as the mono and stereo rings' does.
THEOREM FramesNeverSlip ==
    ASSUME Word % Channels = 0
    PROVE  Spec => []FrameAligned
  <1>1. FrameInv => FrameAligned
    BY DEF FrameInv, FrameAligned, Whole
  <1>2. TypeOK /\ FrameInv /\ [Next]_vars => FrameInv'
    BY FrameStep
  <1> QED BY <1>1, <1>2, FrameInit, TypeCorrect, PTL DEF Spec

----------------------------------------------------------------------------
(* The orderly ring: overflows and flushes meet no operation of the other thread. *)

\* For a block that fits the ring, the position arithmetic of write() and read()
\* is one conditional wrap.
LEMMA AdvanceIsWrap ==
    ASSUME NEW a \in Slots, NEW n \in 0..Capacity
    PROVE  Advance(a, n) = Wrap(a + n)
  <1>1. a + n \in 0..(2 * Capacity - 1) /\ a + n \in 0..(Word - 1)
    BY CapacityType, WordType, SizeAssumption DEF Slots
  <1>2. Add(a, n) = a + n
    BY <1>1, ModSmall, WordType DEF Add
  <1>3. CASE a + n < Capacity
    BY <1>1, <1>2, <1>3, ModSmall, CapacityType DEF Advance, Wrap
  <1>4. CASE a + n >= Capacity
    BY <1>1, <1>2, <1>4, ModWrap, CapacityType DEF Advance, Wrap
  <1> QED BY <1>1, <1>3, <1>4, CapacityType

\* Below the word's limit, unsigned arithmetic is arithmetic.
LEMMA SmallSums ==
    ASSUME NEW a \in 0..Capacity, NEW b \in 0..Capacity
    PROVE  /\ Add(a, b) = a + b
           /\ b <= a => Sub(a, b) = a - b
  <1>1. a + b \in 0..(Word - 1)
    BY CapacityType, WordType, SizeAssumption
  <1>2. b <= a => a - b \in 0..(Word - 1)
    BY CapacityType, WordType, SizeAssumption
  <1> QED BY <1>1, <1>2, ModSmall, WordType DEF Add, Sub

\* Advancing in two parts is advancing by their sum, and different distances below
\* the capacity lead to different slots.
LEMMA WrapFacts ==
    ASSUME NEW a \in Slots, NEW i \in 0..Capacity
    PROVE  /\ Wrap(a + i) \in Slots
           /\ \A j \in 0..Capacity : i + j <= Capacity => Wrap(Wrap(a + i) + j) = Wrap(a + (i + j))
           /\ \A j \in 0..(Capacity - 1) : i < Capacity /\ i # j => Wrap(a + i) # Wrap(a + j)
  BY CapacityType DEF Slots, Wrap

\* Where copy_to_ring finds the sample i places behind a, when it copies in at
\* the place b behind a.
LEMMA CopiedSlot ==
    ASSUME NEW a \in Slots, NEW b \in 0..Capacity, NEW n \in 0..Capacity, b + n <= Capacity,
           NEW i \in 0..(Capacity - 1), NEW first \in Nat, data \in [Slots -> Nat]
    PROVE  copy_to_ring(Wrap(a + b), first, n)[Wrap(a + i)] =
              IF i >= b /\ i < b + n THEN first + (i - b) ELSE data[Wrap(a + i)]
  <1>1. Wrap(a + i) \in Slots /\ Wrap(a + b) \in Slots
    BY WrapFacts, CapacityType
  <1> DEFINE s == Wrap(a + i)
             wp == Wrap(a + b)
             offset == IF s >= wp THEN s - wp ELSE s + (Capacity - wp)
  <1>2. offset < n <=> i >= b /\ i < b + n
    BY CapacityType DEF Wrap, Slots
  <1>3. i >= b => offset = i - b
    BY CapacityType DEF Wrap, Slots
  <1>4. copy_to_ring(wp, first, n)[s] = IF offset < n THEN first + offset ELSE data[s]
    BY <1>1 DEF copy_to_ring
  <1> QED BY <1>2, <1>3, <1>4

\* What copy_from_ring puts at index i.
LEMMA CopiedBlock ==
    ASSUME NEW a \in Slots, NEW n \in 0..Capacity, NEW i \in 1..n
    PROVE  copy_from_ring(a, n)[i] = data[Wrap(a + (i - 1))]
  BY CapacityType DEF copy_from_ring, Wrap, Slots

\* What a write that overflows drops: exactly what does not fit.
LEMMA ExcessIs ==
    ASSUME NEW a \in 0..Capacity, NEW b \in 0..Capacity, a + b >= Capacity
    PROVE  Sub(Add(a, b), Capacity) = (a + b) - Capacity
  <1>1. /\ a + b \in 0..(Word - 1) /\ (a + b) - Capacity \in 0..(Word - 1)
    BY CapacityType, WordType, SizeAssumption
  <1>2. Add(a, b) = a + b
    BY <1>1, ModSmall, WordType DEF Add
  <1>3. ((a + b) - Capacity) % Word = (a + b) - Capacity
    BY <1>1, ModSmall, WordType
  <1>4. Sub(a + b, Capacity) = ((a + b) - Capacity) % Word
    BY Zenon DEF Sub
  <1> QED BY <1>2, <1>3, <1>4, Zenon

\* Consequences of the invariant that several steps need.
LEMMA OrderlyFacts ==
    ASSUME TypeOK, OrderlyInv
    PROVE  /\ Front \in Slots
           /\ buffered \in 0..Capacity /\ Count \in 0..Capacity /\ w_floats \in 0..Capacity
           /\ Filled \in 0..Capacity
           /\ rpc \in {"load_rp", "copy", "store_rp", "sub"} => Count = buffered /\ Cut = 0
           /\ Evicting => Excess = buffered + w_floats - Capacity /\ Excess \in 1..buffered
  <1> USE CapacityType
  <1>1. /\ Front \in Slots
        /\ buffered \in 0..Capacity /\ Count \in 0..Capacity /\ w_floats \in 0..Capacity
        /\ w_total \in Nat /\ w_floats <= w_total
    BY DEF OrderlyInv, Shape, Front, Count, TypeOK
  <1>2. Filled \in 0..Capacity
    BY <1>1 DEF OrderlyInv, Shape, Filled, Count, Contained, Flushing
  <1>3. ASSUME rpc \in {"load_rp", "copy", "store_rp", "sub"} PROVE Count = buffered /\ Cut = 0
    <2>1. buffered > 0
      BY <1>1, <1>3 DEF OrderlyInv, Shape, TypeOK
    <2>2. wpc \in {"store_wp", "add"} => w_total = w_floats
      BY <1>1, <2>1 DEF OrderlyInv, Shape
    <2> QED BY <1>1, <1>3, <2>2 DEF Count, Cut
  <1>4. ASSUME Evicting PROVE Excess = buffered + w_floats - Capacity /\ Excess \in 1..buffered
    <2>1. w_buf = buffered /\ buffered + w_floats > Capacity
      BY <1>4 DEF OrderlyInv, Shape
    <2>2. Excess = buffered + w_floats - Capacity
      BY <1>1, <2>1, ExcessIs DEF Excess
    <2> QED BY <1>1, <2>1, <2>2
  <1> QED BY <1>1, <1>2, <1>3, <1>4

\* A step that leaves the samples of the ring where they are keeps Contents.
LEMMA ContentsKept ==
    ASSUME Contents, Front' = Front, Filled' = Filled, gone' + Cut' = gone + Cut, data' = data,
           gone \in Int, gone' \in Int, Cut \in Int, Cut' \in Int
    PROVE  Contents'
  <1> SUFFICES ASSUME NEW i \in 0..(Capacity - 1), i < Filled
               PROVE  data[Wrap(Front + i)] = gone' + Cut' + 1 + i
    BY DEF Contents, Wrap
  <1>1. data[Wrap(Front + i)] = gone + Cut + 1 + i
    BY DEF Contents
  <1> QED BY <1>1, CapacityType

\* A step that releases the k oldest samples keeps Contents.
LEMMA ContentsReleased ==
    ASSUME Contents, NEW k \in 0..Capacity, Front \in Slots, Filled \in 0..Capacity,
           k <= Filled, Front' = Wrap(Front + k), Filled' = Filled - k, gone' = gone + k,
           Cut' = Cut, data' = data, gone \in Int, Cut \in Int
    PROVE  Contents'
  <1> SUFFICES ASSUME NEW i \in 0..(Capacity - 1), i < Filled - k
               PROVE  data[Wrap(Front' + i)] = gone + k + Cut + 1 + i
    BY DEF Contents, Wrap
  <1>1. /\ k + i \in 0..(Capacity - 1) /\ k + i < Filled
        /\ i \in 0..Capacity /\ k + i <= Capacity
    BY CapacityType
  <1>2. Wrap(Wrap(Front + k) + i) = Wrap(Front + (k + i))
    BY <1>1, WrapFacts
  <1>3. data[Wrap(Front + (k + i))] = gone + Cut + 1 + (k + i)
    BY <1>1 DEF Contents
  <1> QED BY <1>2, <1>3, CapacityType

\* The write position lies where it did when the k oldest samples are released.
LEMMA PositionReleased ==
    ASSUME NEW a \in Slots, NEW k \in 0..Capacity, NEW n \in 0..Capacity, k <= n
    PROVE  Wrap(Wrap(a + k) + (n - k)) = Wrap(a + n)
  <1>1. n - k \in 0..Capacity /\ k + (n - k) <= Capacity /\ k + (n - k) = n
    BY CapacityType
  <1> QED BY <1>1, WrapFacts

\* The constructed ring satisfies the invariant.
LEMMA OrderlyInit == Init => OrderlyInv
  BY CapacityType DEF Init, OrderlyInv, Shape, Positions, Contents, CopiedOut, Contained,
     Evicting, Flushing, Front, Count, Filled, Cut, Wrap

\* No atomic access of an orderly write(), read() or flush() breaks the invariant.
LEMMA OrderlyStep == TypeOK /\ TypeOK' /\ OrderlyInv /\ [OrderlyNext]_vars => OrderlyInv'
  <1> SUFFICES ASSUME TypeOK, TypeOK', OrderlyInv, [OrderlyNext]_vars PROVE OrderlyInv'
    OBVIOUS
  <1> USE CapacityType
  <1>a. /\ Front \in Slots
        /\ buffered \in 0..Capacity /\ Count \in 0..Capacity /\ w_floats \in 0..Capacity
        /\ Filled \in 0..Capacity
        /\ rpc \in {"load_rp", "copy", "store_rp", "sub"} => Count = buffered /\ Cut = 0
        /\ Evicting => Excess = buffered + w_floats - Capacity /\ Excess \in 1..buffered
    BY OrderlyFacts
  <1>b. Shape /\ Positions /\ Contents /\ CopiedOut /\ Contained
    BY DEF OrderlyInv, Shape
  <1>c. gone \in Int /\ gone' \in Int /\ Cut \in Int /\ Cut' \in Int
    BY DEF TypeOK, Cut
  <1>1. ASSUME NEW n \in WriteFrames, WriteBegin(n), Contained' PROVE OrderlyInv'
    <2>1. Kept(n) \in 1..Capacity
      BY KeptType
    <2>2. Add(buffered, Kept(n)) = buffered + Kept(n)
      BY <1>a, <2>1, SmallSums
    <2>3. Kept(n) < n * Channels => Kept(n) = Capacity
      BY FramesAssumption DEF Kept
    <2>4. /\ wpc = "idle" /\ wpc' \in {"load_rp", "copy"} /\ buffered' = buffered
          /\ wpc' = "copy" => buffered + Kept(n) <= Capacity
          /\ wpc' = "load_rp" => buffered + Kept(n) > Capacity
          /\ w_buf' = buffered /\ w_floats' = Kept(n) /\ w_total' = n * Channels
          /\ rpc' = rpc /\ r_floats' = r_floats
      BY <1>1, <1>a, <2>1, <2>2 DEF WriteBegin, Overflows, ring, reader
    <2>5. Shape'
      BY <1>1, <1>a, <1>b, <2>1, <2>3, <2>4 DEF Shape, Evicting
    <2>6. Front' = Front /\ Count' = Count /\ Filled' = Filled /\ Cut' = Cut
      BY <1>1, <2>4 DEF WriteBegin, Front, Count, Filled, Cut, ring, reader
    <2>7. Contents'
      BY <1>1, <1>b, <1>c, <2>6, ContentsKept DEF WriteBegin, ring, history
    <2> QED
      BY <1>1, <1>b, <2>4, <2>5, <2>6, <2>7 DEF WriteBegin, OrderlyInv, Positions, CopiedOut,
         ring, reader, history
  <1>2. CASE WriteLoadReadPos /\ Contained'
    <2>1. Front' = Front /\ Count' = Count /\ Filled' = Filled /\ Cut' = Cut
      BY <1>2 DEF WriteLoadReadPos, Front, Count, Filled, Cut, ring, reader
    <2>2. Contents'
      BY <1>2, <1>b, <1>c, <2>1, ContentsKept DEF WriteLoadReadPos, ring, history
    <2>3. Shape'
      BY <1>2, <1>b DEF WriteLoadReadPos, Shape, Evicting, ring, reader
    <2> QED
      BY <1>2, <1>b, <2>1, <2>2, <2>3 DEF WriteLoadReadPos, OrderlyInv, Positions, CopiedOut,
         ring, reader, history
  <1>3. CASE WriteStoreReadPos /\ Contained'
    <2>1. Evicting /\ rpc = "idle" /\ w_rp = read_pos
      BY <1>3, <1>b DEF WriteStoreReadPos, Evicting, Contained, Positions
    <2>2. read_pos' = Wrap(w_rp + (buffered + w_floats - Capacity))
      BY <1>3, <1>a, <2>1, AdvanceIsWrap DEF WriteStoreReadPos, TypeOK
    <2>3. Front' = Front /\ Count' = Count /\ Filled' = Filled /\ Cut' = Cut
      BY <1>3, <2>1 DEF WriteStoreReadPos, Front, Count, Filled, Cut, reader
    <2>4. Contents'
      BY <1>3, <1>b, <1>c, <2>3, ContentsKept DEF WriteStoreReadPos, history
    <2>5. Shape'
      BY <1>3, <1>b DEF WriteStoreReadPos, Shape, Evicting, reader
    <2> QED
      BY <1>3, <1>b, <2>1, <2>2, <2>3, <2>4, <2>5 DEF WriteStoreReadPos, OrderlyInv, Positions,
         CopiedOut, reader, history
  <1>4. CASE WriteFetchSub /\ Contained'
    <2>1. /\ Evicting /\ rpc = "idle" /\ wpc = "sub" /\ wpc' = "copy" /\ rpc' = "idle"
          /\ w_floats' = w_floats /\ w_total' = w_total
      BY <1>4, <1>b DEF WriteFetchSub, Evicting, Contained, reader
    <2>2. buffered' = buffered - Excess /\ Excess \in 0..Capacity
      BY <1>4, <1>a, <2>1, SmallSums DEF WriteFetchSub
    <2>3. /\ Count = buffered /\ Front' = read_pos /\ read_pos = Wrap(Front + Excess)
          /\ Count' = buffered - Excess /\ Filled = buffered /\ Filled' = Filled - Excess
          /\ Cut' = Cut
      BY <1>4, <1>a, <1>b, <2>1, <2>2 DEF WriteFetchSub, Positions, Front, Count, Filled, Cut
    <2>4. gone' = gone + Excess /\ data' = data /\ produced' = produced /\ write_pos' = write_pos
      BY <1>4 DEF WriteFetchSub
    <2>5. Contents'
      BY <1>a, <1>b, <1>c, <2>1, <2>2, <2>3, <2>4, ContentsReleased
    <2>6. Shape'
      BY <1>4, <1>a, <1>b, <2>1, <2>2 DEF Shape, Evicting
    <2>7. write_pos' = Wrap(Front' + Count')
      <3>1. Wrap(Wrap(Front + Excess) + (buffered - Excess)) = Wrap(Front + buffered)
        BY <1>a, <2>1, <2>2, PositionReleased
      <3>2. write_pos = Wrap(Front + buffered)
        BY <1>b, <2>1, <2>3 DEF Positions
      <3> QED BY <2>3, <2>4, <3>1, <3>2
    <2>8. produced' = gone' + Count'
      BY <1>a, <1>b, <1>c, <2>1, <2>2, <2>3, <2>4 DEF Positions
    <2>9. Positions'
      BY <2>1, <2>7, <2>8 DEF Positions
    <2>10. CopiedOut'
      BY <2>1 DEF CopiedOut
    <2> QED BY <2>5, <2>6, <2>9, <2>10 DEF OrderlyInv
  <1>5. CASE WriteCopy /\ Contained'
    <2>1. /\ wpc = "copy" /\ wpc' = "store_wp" /\ rpc' = rpc /\ buffered' = buffered
          /\ ~Flushing /\ Count = buffered /\ Count' = buffered /\ Filled = buffered
          /\ Filled' = buffered + w_floats /\ Front' = Front
          /\ buffered + w_floats <= Capacity
          /\ Cut' = w_total - w_floats
      BY <1>5, <1>b DEF WriteCopy, Contained, Flushing, Shape, Count, Filled, Front, Cut, reader
    <2>2. /\ write_pos = Wrap(Front + buffered) /\ produced = gone + buffered
      BY <1>b, <2>1 DEF Positions
    <2>3. gone + buffered + Cut' + 1 \in Nat /\ (buffered > 0 => Cut' = 0)
      <3>1. /\ w_total \in Nat /\ w_floats <= w_total /\ gone \in Nat
            /\ w_floats < w_total => w_floats = Capacity
        BY <1>b DEF Shape, TypeOK
      <3> QED BY <1>a, <2>1, <3>1
    <2>4. data' = copy_to_ring(Wrap(Front + buffered), gone + buffered + Cut' + 1, w_floats)
      BY <1>5, <1>c, <1>a, <2>1, <2>2 DEF WriteCopy, TypeOK
    <2>5. Contents'
      <3> SUFFICES ASSUME NEW i \in 0..(Capacity - 1), i < buffered + w_floats
                   PROVE  data'[Wrap(Front + i)] = gone + Cut' + 1 + i
        BY <1>5, <2>1 DEF Contents, WriteCopy, history, Wrap
      <3>1. data'[Wrap(Front + i)] =
              IF i >= buffered /\ i < buffered + w_floats
              THEN gone + buffered + Cut' + 1 + (i - buffered) ELSE data[Wrap(Front + i)]
        <4>1. data \in [Slots -> Nat]
          BY DEF TypeOK
        <4> QED BY <4>1, <1>a, <2>1, <2>3, <2>4, CopiedSlot
      <3>2. i < buffered => data[Wrap(Front + i)] = gone + 0 + 1 + i
        BY <1>b, <2>1 DEF Contents, Cut
      <3> QED BY <3>1, <3>2, <1>a, <1>c, <2>3
    <2>6. Shape'
      BY <1>5, <1>b, <2>1 DEF WriteCopy, Shape, Evicting, reader
    <2>7. Positions'
      BY <1>5, <1>b, <2>1, <2>2 DEF WriteCopy, Positions, reader, history
    <2>8. CopiedOut'
      BY <1>5, <1>b DEF WriteCopy, CopiedOut, reader, history
    <2> QED BY <2>5, <2>6, <2>7, <2>8 DEF OrderlyInv
  <1>6. CASE WriteStoreWritePos /\ Contained'
    <2>1. /\ wpc = "store_wp" /\ wpc' = "add" /\ ~Flushing /\ Count = buffered
          /\ buffered + w_floats <= Capacity
      BY <1>6, <1>b DEF WriteStoreWritePos, Contained, Flushing, Shape, Count
    <2>2. Front' = Front /\ Count' = Count /\ Filled' = Filled /\ Cut' = Cut
      BY <1>6 DEF WriteStoreWritePos, Front, Count, Filled, Cut, reader
    <2>3. Contents'
      BY <1>6, <1>b, <1>c, <2>2, ContentsKept DEF WriteStoreWritePos, history
    <2>4. write_pos' = Wrap(Front + (buffered + w_floats))
      <3>1. write_pos' = Wrap(write_pos + w_floats)
        BY <1>6, <1>a, AdvanceIsWrap DEF WriteStoreWritePos, TypeOK
      <3>2. write_pos = Wrap(Front + buffered)
        BY <1>b, <2>1 DEF Positions
      <3> QED BY <3>1, <3>2, <1>a, <2>1, WrapFacts
    <2>5. Shape'
      BY <1>6, <1>b DEF WriteStoreWritePos, Shape, Evicting, reader
    <2>6. Positions'
      BY <1>6, <1>b, <2>1, <2>2, <2>4 DEF WriteStoreWritePos, Positions, reader, history, Flushing
    <2>7. CopiedOut'
      BY <1>6, <1>b DEF WriteStoreWritePos, CopiedOut, reader, history
    <2> QED BY <2>3, <2>5, <2>6, <2>7 DEF OrderlyInv
  <1>7. CASE WriteFetchAdd /\ Contained'
    <2>1. /\ wpc = "add" /\ wpc' = "idle" /\ rpc' = rpc /\ ~Flushing /\ Count = buffered
          /\ buffered + w_floats <= Capacity /\ Cut = w_total - w_floats /\ Cut' = 0
          /\ w_floats' = w_floats /\ w_total' = w_total /\ data' = data
          /\ write_pos' = write_pos /\ read_pos' = read_pos
      BY <1>7, <1>b DEF WriteFetchAdd, Contained, Flushing, Shape, Count, Cut, reader
    <2>2. buffered' = buffered + w_floats
      BY <1>7, <1>a, SmallSums DEF WriteFetchAdd
    <2>3. Front' = Front /\ Count' = buffered + w_floats /\ Filled' = Filled
      BY <1>7, <2>1, <2>2 DEF WriteFetchAdd, Front, Count, Filled, Flushing, reader
    <2>4. gone' = gone + Cut /\ produced' = produced + w_total
      BY <1>7, <2>1 DEF WriteFetchAdd
    <2>5. Contents'
      BY <1>b, <1>c, <2>1, <2>3, <2>4, ContentsKept
    <2>6. Shape'
      BY <1>7, <1>a, <1>b, <2>1, <2>2 DEF WriteFetchAdd, Shape, Evicting, reader, TypeOK
    <2>7. Positions'
      <3>1. produced' = gone' + Count'
        BY <1>a, <1>b, <1>c, <2>1, <2>3, <2>4 DEF Positions, TypeOK
      <3> QED BY <1>7, <1>b, <2>1, <2>3, <3>1 DEF WriteFetchAdd, Positions, Flushing, reader
    <2>8. CopiedOut'
      BY <1>7, <1>a, <1>b, <1>c, <2>1, <2>4 DEF WriteFetchAdd, CopiedOut, reader
    <2> QED BY <2>5, <2>6, <2>7, <2>8 DEF OrderlyInv
  <1>8. ASSUME NEW n \in ReadFrames, ReadBegin(n), Contained' PROVE OrderlyInv'
    <2>1. n * Channels \in Nat
      BY FramesAssumption
    <2>2. Front' = Front /\ Count' = Count /\ Filled' = Filled /\ Cut' = Cut
      BY <1>8 DEF ReadBegin, Front, Count, Filled, Cut, ring, writer
    <2>3. Contents'
      BY <1>8, <1>b, <1>c, <2>2, ContentsKept DEF ReadBegin, ring, history
    <2>4. Shape'
      BY <1>8, <1>a, <1>b, <2>1 DEF ReadBegin, Shape, Evicting, ring, writer
    <2> QED
      BY <1>8, <1>b, <2>2, <2>3, <2>4 DEF ReadBegin, OrderlyInv, Positions, CopiedOut,
         ring, writer, history
  <1>9. CASE ReadLoadReadPos /\ Contained'
    <2>1. Front' = Front /\ Count' = Count /\ Filled' = Filled /\ Cut' = Cut
      BY <1>9 DEF ReadLoadReadPos, Front, Count, Filled, Cut, ring, writer
    <2>2. Contents'
      BY <1>9, <1>b, <1>c, <2>1, ContentsKept DEF ReadLoadReadPos, ring, history
    <2>3. Shape'
      BY <1>9, <1>b DEF ReadLoadReadPos, Shape, Evicting, ring, writer
    <2> QED
      BY <1>9, <1>b, <2>1, <2>2, <2>3 DEF ReadLoadReadPos, OrderlyInv, Positions, CopiedOut,
         ring, writer, history
  <1>10. CASE ReadCopy /\ Contained'
    <2>1. Front' = Front /\ Count' = Count /\ Filled' = Filled /\ Cut' = Cut
      BY <1>10 DEF ReadCopy, Front, Count, Filled, Cut, ring, writer
    <2>2. /\ r_rp = Front /\ r_floats <= buffered /\ buffered <= Filled /\ Cut = 0
          /\ r_floats \in 0..Capacity
      BY <1>10, <1>a, <1>b
      DEF ReadCopy, Shape, Positions, Front, Filled, Contained, Evicting, TypeOK
    <2>3. ASSUME NEW i \in 1..r_floats PROVE dst'[i] = gone + i
      <3>1. dst'[i] = data[Wrap(Front + (i - 1))]
        BY <1>10, <1>a, <2>2, CopiedBlock DEF ReadCopy
      <3>2. i - 1 \in 0..(Capacity - 1) /\ i - 1 < Filled
        BY <1>a, <2>2
      <3>3. data[Wrap(Front + (i - 1))] = gone + 0 + 1 + (i - 1)
        BY <1>b, <2>2, <3>2 DEF Contents
      <3> QED BY <3>1, <3>2, <3>3, <1>c
    <2>4. CopiedOut'
      BY <1>10, <2>3 DEF ReadCopy, CopiedOut, history
    <2>5. Contents'
      BY <1>10, <1>b, <1>c, <2>1, ContentsKept DEF ReadCopy, ring, history
    <2>6. Shape'
      BY <1>10, <1>b DEF ReadCopy, Shape, Evicting, ring, writer
    <2> QED
      BY <1>10, <1>b, <2>1, <2>4, <2>5, <2>6 DEF ReadCopy, OrderlyInv, Positions,
         ring, writer, history
  <1>11. CASE ReadStoreReadPos /\ Contained'
    <2>1. ~Evicting /\ r_rp = read_pos
      BY <1>11, <1>b DEF ReadStoreReadPos, Contained, Positions
    <2>2. Front' = Front /\ Count' = Count /\ Filled' = Filled /\ Cut' = Cut
      BY <1>11, <2>1 DEF ReadStoreReadPos, Front, Count, Filled, Cut, Evicting, writer
    <2>3. read_pos' = Wrap(r_rp + r_floats)
      BY <1>11, AdvanceIsWrap DEF ReadStoreReadPos, TypeOK
    <2>4. Contents'
      BY <1>11, <1>b, <1>c, <2>2, ContentsKept DEF ReadStoreReadPos, history
    <2>5. Shape'
      BY <1>11, <1>b DEF ReadStoreReadPos, Shape, Evicting, writer
    <2> QED
      BY <1>11, <1>b, <2>1, <2>2, <2>3, <2>4, <2>5 DEF ReadStoreReadPos, OrderlyInv, Positions,
         CopiedOut, Evicting, writer, history
  <1>12. CASE ReadFetchSub /\ Contained'
    <2>1. /\ rpc = "sub" /\ rpc' = "idle" /\ ~Evicting /\ Count = buffered
          /\ r_floats \in 1..Capacity /\ r_floats <= buffered
          /\ Front = r_rp /\ read_pos = Wrap(Front + r_floats)
          /\ write_pos' = write_pos /\ read_pos' = read_pos /\ data' = data
          /\ produced' = produced /\ wpc' = wpc /\ w_floats' = w_floats /\ w_total' = w_total
      BY <1>12, <1>a, <1>b DEF ReadFetchSub, Shape, Positions, Front, Contained, TypeOK, writer
    <2>2. buffered' = buffered - r_floats
      BY <1>12, <1>a, <2>1, SmallSums DEF ReadFetchSub
    <2>3. gone' = gone + r_floats
      BY <1>12, <1>b, <2>1 DEF ReadFetchSub, CopiedOut
    <2>4. /\ Front' = Wrap(Front + r_floats) /\ Count' = buffered - r_floats
          /\ Filled' = Filled - r_floats /\ Cut' = Cut /\ r_floats <= Filled
      BY <1>a, <2>1, <2>2 DEF Front, Count, Filled, Cut, Evicting
    <2>5. Contents'
      BY <1>a, <1>b, <1>c, <2>1, <2>3, <2>4, ContentsReleased
    <2>6. Shape'
      BY <1>12, <1>a, <1>b, <2>1, <2>2 DEF Shape, Evicting
    <2>7. Positions'
      <3> DEFINE ahead == IF wpc = "add" THEN buffered + w_floats ELSE buffered
      <3>1. ahead \in 0..Capacity /\ r_floats <= ahead
        BY <1>a, <1>b, <2>1 DEF Shape
      <3>2. Wrap(Wrap(Front + r_floats) + (ahead - r_floats)) = Wrap(Front + ahead)
        BY <1>a, <2>1, <3>1, PositionReleased
      <3>3. write_pos = Wrap(Front + ahead)
        BY <1>b, <2>1 DEF Positions
      <3>4. (IF wpc = "add" THEN Count + w_floats ELSE Count)' = ahead - r_floats
        BY <1>a, <2>1, <2>4
      <3>5. produced' = gone' + Count'
        BY <1>a, <1>b, <1>c, <2>1, <2>3, <2>4 DEF Positions
      <3> QED BY <2>1, <2>4, <3>2, <3>3, <3>4, <3>5 DEF Positions, Evicting
    <2>8. CopiedOut'
      BY <2>1 DEF CopiedOut
    <2> QED BY <2>5, <2>6, <2>7, <2>8 DEF OrderlyInv
  <1>13. CASE FlushBegin /\ Contained'
    <2>1. wpc = "idle"
      BY <1>13 DEF FlushBegin, Contained, Flushing, writer
    <2>2. Front' = Front /\ Count' = Count /\ Filled' = Filled /\ Cut' = Cut
      BY <1>13 DEF FlushBegin, Front, Count, Filled, Cut, ring, writer
    <2>3. Contents'
      BY <1>13, <1>b, <1>c, <2>2, ContentsKept DEF FlushBegin, ring, history
    <2>4. Shape'
      BY <1>13, <1>b DEF FlushBegin, Shape, Evicting, ring, writer
    <2> QED
      BY <1>13, <1>b, <2>1, <2>2, <2>3, <2>4 DEF FlushBegin, OrderlyInv, Positions, CopiedOut,
         ring, writer, history
  <1>14. CASE FlushStoreReadPos /\ Contained'
    <2>1. /\ wpc = "idle" /\ wpc' = "idle" /\ rpc' = "flush_buf" /\ read_pos' = write_pos
          /\ write_pos' = write_pos /\ produced' = produced /\ gone' = produced
      BY <1>14, <1>b DEF FlushStoreReadPos, Contained, Flushing, Positions, writer
    <2>2. Front' = write_pos /\ Count' = 0 /\ Filled' = 0
      BY <2>1 DEF Front, Count, Filled
    <2>3. Wrap(write_pos + 0) = write_pos
      BY DEF Wrap, TypeOK, Slots
    <2>4. Contents'
      BY <2>2 DEF Contents
    <2>5. Shape'
      BY <1>14, <1>b DEF FlushStoreReadPos, Shape, Evicting, writer
    <2>6. Positions'
      BY <2>1, <2>2, <2>3 DEF Positions, TypeOK
    <2>7. CopiedOut'
      BY <2>1 DEF CopiedOut
    <2> QED BY <2>4, <2>5, <2>6, <2>7 DEF OrderlyInv
  <1>15. CASE FlushStoreBuffered /\ Contained'
    <2>1. /\ wpc = "idle" /\ wpc' = "idle" /\ rpc' = "idle" /\ buffered' = 0
      BY <1>15, <1>b DEF FlushStoreBuffered, Contained, Flushing, writer
    <2>2. Front' = Front /\ Count' = 0 /\ Count = 0 /\ Filled' = Filled /\ Cut' = Cut
      BY <1>15, <2>1 DEF FlushStoreBuffered, Front, Count, Filled, Cut, writer
    <2>3. Contents'
      BY <1>15, <1>b, <1>c, <2>2, ContentsKept DEF FlushStoreBuffered, history
    <2>4. Shape'
      BY <1>15, <1>b, <2>1 DEF FlushStoreBuffered, Shape, Evicting, writer
    <2>5. Positions'
      BY <1>15, <1>b, <2>1, <2>2 DEF FlushStoreBuffered, Positions, writer, history
    <2>6. CopiedOut'
      BY <2>1 DEF CopiedOut
    <2> QED BY <2>3, <2>4, <2>5, <2>6 DEF OrderlyInv
  <1>16. CASE UNCHANGED vars
    BY <1>16, <1>b DEF vars, ring, writer, reader, history, OrderlyInv, Shape, Positions, Contents,
       CopiedOut, Contained, Evicting, Flushing, Front, Count, Filled, Cut
  <1> QED
    BY <1>1, <1>2, <1>3, <1>4, <1>5, <1>6, <1>7, <1>8, <1>9, <1>10, <1>11, <1>12, <1>13, <1>14,
       <1>15, <1>16
    DEF OrderlyNext, Next, Writer, Reader, Flush

\* An orderly step is a step of the ring, so the type invariant carries over.
LEMMA OrderlyType == OrderlySpec => []TypeOK
  <1>1. [OrderlyNext]_vars => [Next]_vars
    BY DEF OrderlyNext
  <1> QED BY <1>1, TypeInit, TypeStep, PTL DEF OrderlySpec

\* The invariant of the orderly ring: positions, counts and contents agree at
\* every atomic access of write(), read() and flush().
THEOREM OrderlyInvariant == OrderlySpec => []OrderlyInv
  BY OrderlyType, OrderlyInit, OrderlyStep, PTL DEF OrderlySpec

\* As long as an overflowing write meets no read and a flush no write, write() and
\* read() never touch the same slot of data_ at the same time.
THEOREM OrderlyNoDataRace == OrderlySpec => []NoDataRace
  <1>1. TypeOK /\ OrderlyInv => NoDataRace
    <2> SUFFICES ASSUME TypeOK, OrderlyInv, wpc = "copy", rpc = "copy",
                        NEW i \in 0..(w_floats - 1), NEW j \in 0..(r_floats - 1)
                 PROVE  Advance(write_pos, i) # Advance(r_rp, j)
      BY DEF NoDataRace, Span
    <2>1. /\ r_rp = Front /\ Front \in Slots /\ write_pos = Wrap(Front + buffered)
          /\ buffered + w_floats <= Capacity /\ r_floats <= buffered
          /\ buffered \in 0..Capacity /\ w_floats \in 0..Capacity /\ r_floats \in 0..Capacity
      BY CapacityType DEF OrderlyInv, Shape, Positions, Front, Count, TypeOK
    <2>2. /\ i \in 0..Capacity /\ j \in 0..(Capacity - 1) /\ buffered + i \in 0..Capacity
          /\ buffered + i < Capacity /\ buffered + i # j
      BY <2>1, CapacityType
    <2>3. Advance(write_pos, i) = Wrap(Front + (buffered + i))
      BY <2>1, <2>2, AdvanceIsWrap, WrapFacts DEF TypeOK
    <2>4. Advance(r_rp, j) = Wrap(Front + j)
      BY <2>1, <2>2, AdvanceIsWrap, CapacityType
    <2>5. Wrap(Front + (buffered + i)) # Wrap(Front + j)
      BY <2>1, <2>2, WrapFacts
    <2> QED BY <2>3, <2>4, <2>5
  <1> QED BY <1>1, OrderlyType, OrderlyInvariant, PTL

\* In an orderly ring read() returns exactly the samples that follow the ones that
\* were read, flushed or dropped before.
THEOREM OrderlyInOrder == OrderlySpec => []InOrder
  <1>1. TypeOK /\ OrderlyInv => InOrder
    BY DEF TypeOK, OrderlyInv, CopiedOut, InOrder
  <1> QED BY <1>1, OrderlyType, OrderlyInvariant, PTL

\* Between operations an orderly ring's positions and count agree.
THEOREM OrderlySync == OrderlySpec => []QuiescentSync
  <1>1. TypeOK /\ OrderlyInv => QuiescentSync
    BY AdvanceIsWrap, CapacityType
    DEF TypeOK, OrderlyInv, Shape, Positions, QuiescentSync, Quiescent, Front, Count
  <1> QED BY <1>1, OrderlyType, OrderlyInvariant, PTL

----------------------------------------------------------------------------
(* The queue *)

Stream(from, n) == Queue!Stream(from, n)

\* Consecutive samples of the producer's stream are a sequence.
LEMMA StreamFacts ==
    ASSUME NEW g \in Nat, NEW n \in Nat
    PROVE  /\ Stream(g, n) \in Seq(Nat) /\ Len(Stream(g, n)) = n
           /\ \A i \in 1..n : Stream(g, n)[i] = g + i
  BY SMT DEF Stream, Queue!Stream

\* Taking samples off the front leaves the ones that follow.
LEMMA StreamTail ==
    ASSUME NEW g \in Nat, NEW n \in Nat, NEW k \in 0..n
    PROVE  SubSeq(Stream(g, n), k + 1, Len(Stream(g, n))) = Stream(g + k, n - k)
  <1> DEFINE s == Stream(g, n)  t == SubSeq(s, k + 1, n)  u == Stream(g + k, n - k)
  <1>1. Len(s) = n /\ \A i \in 1..n : s[i] = g + i
    BY StreamFacts
  <1>2. u \in Seq(Nat) /\ Len(u) = n - k /\ \A i \in 1..(n - k) : u[i] = g + k + i
    <2>1. g + k \in Nat /\ n - k \in Nat
      OBVIOUS
    <2> QED BY <2>1, StreamFacts, Zenon
  <1>3. \A i \in (k + 1)..n : s[i] \in Nat
    BY <1>1
  <1> HIDE DEF s, u
  <1>4. /\ t \in Seq(Nat)
        /\ Len(t) = IF k + 1 <= n THEN n - (k + 1) + 1 ELSE 0
        /\ \A i \in 1..(n - (k + 1) + 1) : t[i] = s[(k + 1) + i - 1]
    BY <1>3, SubSeqProperties
  <1>5. Len(t) = n - k
    BY <1>4
  <1>6. \A i \in 1..(n - k) : t[i] = u[i]
    BY <1>1, <1>2, <1>4
  <1>7. t = u
    BY <1>2, <1>4, <1>5, <1>6, SeqEqual
  <1> QED BY <1>1, <1>7 DEF s, u

\* The samples taken off the front.
LEMMA StreamHead ==
    ASSUME NEW g \in Nat, NEW n \in Nat, NEW k \in 0..n
    PROVE  SubSeq(Stream(g, n), 1, k) = Stream(g, k)
  <1> DEFINE s == Stream(g, n)  t == SubSeq(s, 1, k)  u == Stream(g, k)
  <1>1. \A i \in 1..n : s[i] = g + i
    BY StreamFacts
  <1>2. u \in Seq(Nat) /\ Len(u) = k /\ \A i \in 1..k : u[i] = g + i
    BY StreamFacts
  <1>3. \A i \in 1..k : s[i] \in Nat
    BY <1>1
  <1> HIDE DEF s, u
  <1>4. /\ t \in Seq(Nat)
        /\ Len(t) = IF 1 <= k THEN k - 1 + 1 ELSE 0
        /\ \A i \in 1..(k - 1 + 1) : t[i] = s[1 + i - 1]
    BY <1>3, SubSeqProperties
  <1>5. Len(t) = k
    BY <1>4
  <1>6. \A i \in 1..k : t[i] = u[i]
    BY <1>1, <1>2, <1>4
  <1>7. t = u
    BY <1>2, <1>4, <1>5, <1>6, SeqEqual
  <1> QED BY <1>7 DEF s, u

\* The samples that follow are appended.
LEMMA StreamConcat ==
    ASSUME NEW g \in Nat, NEW n \in Nat, NEW k \in Nat
    PROVE  Stream(g, n) \o Stream(g + n, k) = Stream(g, n + k)
  <1> DEFINE s == Stream(g, n)  t == Stream(g + n, k)  u == Stream(g, n + k)
  <1>1. s \in Seq(Nat) /\ Len(s) = n /\ \A i \in 1..n : s[i] = g + i
    BY StreamFacts
  <1>2. t \in Seq(Nat) /\ Len(t) = k /\ \A i \in 1..k : t[i] = g + n + i
    <2>1. g + n \in Nat
      OBVIOUS
    <2> QED BY <2>1, StreamFacts, Zenon
  <1>3. u \in Seq(Nat) /\ Len(u) = n + k /\ \A i \in 1..(n + k) : u[i] = g + i
    BY StreamFacts
  <1> HIDE DEF s, t, u
  <1>4. /\ s \o t \in Seq(Nat) /\ Len(s \o t) = n + k
        /\ \A i \in 1..(n + k) : (s \o t)[i] = IF i <= n THEN s[i] ELSE t[i - n]
    <2>1. /\ s \o t \in Seq(Nat) /\ Len(s \o t) = Len(s) + Len(t)
          /\ \A i \in 1..(Len(s) + Len(t)) :
                (s \o t)[i] = IF i <= Len(s) THEN s[i] ELSE t[i - Len(s)]
      BY <1>1, <1>2, ConcatProperties, Zenon
    <2> QED BY <1>1, <1>2, <2>1, Zenon
  <1>5. ASSUME NEW i \in 1..(n + k) PROVE (s \o t)[i] = u[i]
    <2>0. u[i] = g + i /\ (s \o t)[i] = IF i <= n THEN s[i] ELSE t[i - n]
      BY <1>3, <1>4, Zenon
    <2>1. CASE i <= n
      <3>1. i \in 1..n
        BY <2>1
      <3> QED BY <1>1, <2>0, <2>1, <3>1
    <2>2. CASE ~(i <= n)
      <3>1. i - n \in 1..k
        BY <2>2
      <3>2. t[i - n] = g + n + (i - n)
        BY <1>2, <3>1, Zenon
      <3> QED BY <2>0, <2>2, <3>2
    <2> QED BY <2>1, <2>2
  <1>6. s \o t = u
    BY <1>3, <1>4, <1>5, SeqEqual
  <1> QED BY <1>6 DEF s, t, u

----------------------------------------------------------------------------
(* The mapped state.                                                        *)

\* A write in progress is a write of something.
Pending == wpc # "idle" => w_total \in 1..(Word - 1)

\* The samples between what is gone and what completed writes have handed over lie in
\* the ring, oldest first.
QueueIs ==
    /\ Held = Stream(gone, produced - gone)
    /\ produced - gone = Count /\ Count \in 0..Capacity /\ gone \in Nat

\* They do, by the positions and the contents of the orderly ring.
LEMMA HeldIs == TypeOK /\ OrderlyInv => QueueIs
  <1> SUFFICES ASSUME TypeOK, OrderlyInv PROVE QueueIs
    OBVIOUS
  <1>1. /\ Front \in Slots /\ Count \in 0..Capacity /\ Count <= Filled /\ gone \in Nat
        /\ produced = gone + Count /\ Filled \in 0..Capacity
    <2>1. /\ Front \in Slots /\ Count \in 0..Capacity /\ Filled \in 0..Capacity
          /\ w_floats \in 0..Capacity
      BY OrderlyFacts
    <2>2. produced = gone + Count
      BY DEF OrderlyInv, Positions
    <2>3. gone \in Nat
      BY DEF TypeOK
    <2>4. Count <= Filled
      BY <2>1, CapacityType DEF Filled
    <2> QED BY <2>1, <2>2, <2>3, <2>4
  <1>2. Count > 0 => Cut = 0
    BY <1>1, OrderlyFacts DEF Cut, Filled, TypeOK, OrderlyInv, Shape
  <1>3. ASSUME NEW i \in 1..Count PROVE Held[i] = gone + i
    <2>1. Held[i] = data[Wrap(Front + (i - 1))]
      BY <1>1, CopiedBlock DEF Held, TypeOK
    <2>2. i - 1 \in 0..(Capacity - 1) /\ i - 1 < Filled /\ Cut = 0
      BY <1>1, <1>2, CapacityType
    <2>3. data[Wrap(Front + (i - 1))] = gone + Cut + 1 + (i - 1)
      BY <2>2 DEF OrderlyInv, Contents
    <2> QED BY <1>1, <2>1, <2>2, <2>3
  <1>4. Held \in [1..Count -> Nat]
    BY <1>1, CopyFromType DEF Held, TypeOK
  <1>5. produced - gone = Count
    BY <1>1
  <1>6. Held = Stream(gone, Count)
    BY <1>1, <1>3, <1>4 DEF Stream, Queue!Stream
  <1> QED BY <1>1, <1>5, <1>6 DEF QueueIs

\* A write hands over at least one sample.
LEMMA PendingStep == Pending /\ [Next]_vars => Pending'
  <1> SUFFICES ASSUME Pending, [Next]_vars PROVE Pending'
    OBVIOUS
  <1> USE DEF Pending, ring, writer, reader, history
  <1>1. ASSUME NEW n \in WriteFrames, WriteBegin(n) PROVE Pending'
    BY <1>1, FramesAssumption DEF WriteBegin
  <1>2. CASE UNCHANGED vars
    BY <1>2 DEF vars
  <1>3. CASE WriteLoadReadPos \/ WriteStoreReadPos \/ WriteFetchSub
    BY <1>3 DEF WriteLoadReadPos, WriteStoreReadPos, WriteFetchSub
  <1>4. CASE WriteCopy \/ WriteStoreWritePos \/ WriteFetchAdd
    BY <1>4 DEF WriteCopy, WriteStoreWritePos, WriteFetchAdd
  <1>5. CASE Reader
    BY <1>5 DEF Reader, ReadBegin, ReadLoadReadPos, ReadCopy, ReadStoreReadPos, ReadFetchSub
  <1>6. CASE Flush
    BY <1>6 DEF Flush, FlushBegin, FlushStoreReadPos, FlushStoreBuffered
  <1> QED BY <1>1, <1>2, <1>3, <1>4, <1>5, <1>6 DEF Next, Writer

\* The constructed ring is the empty queue.
LEMMA QueueInit == Init => Queue!Init
  <1> SUFFICES ASSUME Init PROVE Queue!Init
    OBVIOUS
  <1>1. Held = <<>>
    BY DEF Init, Held, Front, Count, copy_from_ring
  <1> QED BY <1>1 DEF Init, Queue!Init

\* A step that completes no operation and drops no sample leaves the queue alone.
LEMMA Stutters ==
    ASSUME QueueIs, QueueIs', gone' = gone, produced' = produced, out' = out,
           wpc' = "idle" <=> wpc = "idle", w_total' = w_total
    PROVE  UNCHANGED Queue!vars
  <1>1. Held' = Held
    BY DEF QueueIs, Stream, Queue!Stream
  <1>2. (IF wpc = "idle" THEN 0 ELSE w_total)' = IF wpc = "idle" THEN 0 ELSE w_total
    OBVIOUS
  <1> QED BY <1>1, <1>2 DEF Queue!vars

\* Every atomic access of an orderly ring is a step of the queue or none: a write is
\* requested at its first access, evicts at its fetch_sub and deposits at its
\* fetch_add; a read takes at its fetch_sub; a flush clears when it stores read_pos_.
LEMMA QueueStep ==
    ASSUME TypeOK, OrderlyInv, Pending, QueueIs, TypeOK', OrderlyInv', QueueIs', [OrderlyNext]_vars
    PROVE  [Queue!Next]_(Queue!vars)
  <1> USE DEF ring, writer, reader, history
  <1> DEFINE held == produced - gone
  <1>a. /\ held \in 0..Capacity /\ gone \in Nat /\ Capacity \in Nat \ {0}
        /\ Held = Stream(gone, held) /\ Held' = Stream(gone', produced' - gone')
        /\ Len(Held) = held /\ held = Count
    <2>1. /\ held \in 0..Capacity /\ gone \in Nat /\ Capacity \in Nat \ {0} /\ held \in Nat
          /\ Held = Stream(gone, held) /\ held = Count
      BY CapacityType DEF QueueIs
    <2>2. Held' = Stream(gone', produced' - gone')
      BY DEF QueueIs, Stream, Queue!Stream
    <2> QED BY <2>1, <2>2, StreamFacts
  <1>b. ASSUME wpc # "idle"
        PROVE  w_total \in Nat \ {0} /\ w_floats \in 0..Capacity /\ Queue!Keep = w_floats
    <2>1. w_total \in Nat \ {0}
      BY <1>b, WordType DEF Pending
    <2>2. w_floats \in 0..Capacity /\ w_floats <= w_total
      BY DEF TypeOK
    <2>3. w_floats < w_total => w_floats = Capacity
      BY DEF OrderlyInv, Shape
    <2>4. (IF w_total > Capacity THEN Capacity ELSE w_total) = w_floats
      BY <1>a, <2>1, <2>2, <2>3
    <2> QED BY <1>b, <2>1, <2>2, <2>4 DEF Queue!Keep
  <1>1. ASSUME NEW n \in WriteFrames, WriteBegin(n) PROVE \E k \in 1..(Word - 1) : Queue!Request(k)
    <2>1. n * Channels \in 1..(Word - 1)
      BY FramesAssumption
    <2>2. Held' = Held
      BY <1>1, <1>a DEF WriteBegin
    <2>3. Queue!Request(n * Channels)
      BY <1>1, <2>2 DEF WriteBegin, Queue!Request
    <2> QED BY <2>1, <2>3
  <1>2. CASE WriteLoadReadPos
    BY <1>2, Stutters DEF WriteLoadReadPos
  <1>3. CASE WriteStoreReadPos
    BY <1>3, Stutters DEF WriteStoreReadPos
  <1>4. CASE WriteFetchSub /\ Contained'
    <2>1. /\ Excess = buffered + w_floats - Capacity /\ Excess \in 1..buffered /\ Count = buffered
      BY <1>4, OrderlyFacts DEF WriteFetchSub, Evicting, OrderlyInv, Shape, Contained, Count
    <2>2. /\ wpc = "sub" /\ wpc' = "copy" /\ w_total' = w_total /\ out' = out
          /\ gone' = gone + Excess /\ produced' = produced
      BY <1>4 DEF WriteFetchSub
    <2>3. Excess \in 0..held /\ held + w_floats - Capacity = Excess
      BY <1>a, <2>1
    <2>4. SubSeq(Held, Excess + 1, Len(Held)) = Stream(gone + Excess, held - Excess)
      <3>1. held \in Nat
        BY <1>a
      <3>2. SubSeq(Stream(gone, held), Excess + 1, Len(Stream(gone, held)))
              = Stream(gone + Excess, held - Excess)
        BY <1>a, <2>3, <3>1, StreamTail, Zenon
      <3> QED BY <1>a, <3>2
    <2>5. produced' - gone' = held - Excess
      BY <1>a, <2>2, <2>3 DEF TypeOK
    <2>6. Held' = SubSeq(Held, Excess + 1, Len(Held))
      BY <1>a, <2>2, <2>4, <2>5
    <2>7. Queue!Evict
      <3>1. Queue!Keep = w_floats
        BY <1>b, <2>2
      <3>2. Len(Held) + Queue!Keep - Capacity = Excess /\ Excess > 0
        BY <1>a, <2>1, <2>3, <3>1
      <3> HIDE DEF held
      <3> QED BY <2>2, <2>6, <3>2 DEF Queue!Evict
    <2> QED BY <2>7 DEF Queue!Next
  <1>5. CASE WriteCopy
    BY <1>5, Stutters DEF WriteCopy
  <1>6. CASE WriteStoreWritePos
    BY <1>6, Stutters DEF WriteStoreWritePos
  <1>7. CASE WriteFetchAdd
    <2>1. /\ wpc = "add" /\ wpc' = "idle" /\ w_total' = w_total /\ out' = out
          /\ gone' = gone + (w_total - w_floats) /\ produced' = produced + w_total
      BY <1>7 DEF WriteFetchAdd
    <2>2. /\ w_total \in Nat \ {0} /\ w_floats \in 0..Capacity /\ w_floats <= w_total
          /\ w_floats < w_total => w_floats = Capacity
          /\ held + w_floats <= Capacity
      <3>1. w_total \in Nat \ {0} /\ w_floats \in 0..Capacity
        BY <1>b, <2>1
      <3>2. w_floats <= w_total
        BY DEF TypeOK
      <3>3. (w_floats < w_total => w_floats = Capacity) /\ buffered + w_floats <= Capacity
        BY <2>1 DEF OrderlyInv, Shape
      <3>4. Count = buffered
        BY <2>1 DEF OrderlyInv, Shape, Contained, Flushing, Count
      <3> QED BY <1>a, <3>1, <3>2, <3>3, <3>4
    <2>3. produced + w_total - w_floats = gone + (w_total - w_floats) + held
      BY <1>a, <2>2 DEF TypeOK
    <2>4. held = 0 \/ w_total - w_floats = 0
      BY <1>a, <2>2
    <2>5. Held \o Stream(produced + w_total - w_floats, w_floats)
            = Stream(gone + (w_total - w_floats), held + w_floats)
      <3> DEFINE g == gone + (w_total - w_floats)
      <3>1. g \in Nat /\ held \in Nat /\ w_floats \in Nat
        BY <1>a, <2>2
      <3>2. Stream(gone, held) = Stream(g, held)
        <4>1. CASE held = 0
          BY <4>1 DEF Stream, Queue!Stream
        <4>2. CASE w_total - w_floats = 0
          BY <4>2, <1>a
        <4> QED BY <2>4, <4>1, <4>2
      <3>3. Stream(g, held) \o Stream(g + held, w_floats) = Stream(g, held + w_floats)
        BY <3>1, StreamConcat
      <3> QED BY <1>a, <2>3, <3>2, <3>3
    <2>6. produced' - gone' = held + w_floats
      BY <1>a, <2>1, <2>2 DEF TypeOK
    <2>7. Held' = Held \o Stream(produced + w_total - w_floats, w_floats)
      BY <1>a, <2>1, <2>5, <2>6
    <2>8. Queue!Deposit
      <3>1. Queue!Keep = w_floats
        BY <1>b, <2>1
      <3>2. Len(Held) + Queue!Keep <= Capacity /\ w_total > 0
        BY <1>a, <2>2, <3>1
      <3>3. Held' = Held \o Queue!Stream(produced + w_total - Queue!Keep, Queue!Keep)
        BY <2>7, <3>1 DEF Stream
      <3> HIDE DEF held
      <3> QED BY <2>1, <3>2, <3>3 DEF Queue!Deposit
    <2> QED BY <2>8 DEF Queue!Next
  <1>8. ASSUME NEW n \in ReadFrames, ReadBegin(n) PROVE UNCHANGED Queue!vars
    BY <1>8, Stutters DEF ReadBegin
  <1>9. CASE ReadLoadReadPos
    BY <1>9, Stutters DEF ReadLoadReadPos
  <1>10. CASE ReadCopy
    BY <1>10, Stutters DEF ReadCopy
  <1>11. CASE ReadStoreReadPos
    BY <1>11, Stutters DEF ReadStoreReadPos
  <1>12. CASE ReadFetchSub
    <2>1. /\ wpc' = wpc /\ w_total' = w_total /\ out' = dst
          /\ gone' = dst[r_floats] /\ produced' = produced /\ rpc = "sub"
      BY <1>12 DEF ReadFetchSub
    <2>2. /\ r_floats \in 1..held /\ dst \in [1..r_floats -> Nat]
          /\ \A i \in 1..r_floats : dst[i] = gone + i
      <3>1. r_floats \in 0..Capacity /\ r_floats > 0 /\ dst \in [1..r_floats -> Nat]
        BY <2>1 DEF TypeOK
      <3>2. r_floats <= buffered /\ \A i \in 1..r_floats : dst[i] = gone + i
        BY <2>1 DEF OrderlyInv, Shape, CopiedOut
      <3>3. Count = buffered
        BY <2>1 DEF Count
      <3> QED BY <1>a, <3>1, <3>2, <3>3
    <2>3. dst = Stream(gone, r_floats) /\ gone' = gone + r_floats
      BY <1>a, <2>1, <2>2 DEF Stream, Queue!Stream
    <2>4. /\ SubSeq(Held, 1, r_floats) = Stream(gone, r_floats)
          /\ SubSeq(Held, r_floats + 1, Len(Held)) = Stream(gone + r_floats, held - r_floats)
      <3>1. held \in Nat /\ r_floats \in 0..held
        BY <1>a, <2>2
      <3>2. /\ SubSeq(Stream(gone, held), 1, r_floats) = Stream(gone, r_floats)
            /\ SubSeq(Stream(gone, held), r_floats + 1, Len(Stream(gone, held)))
                 = Stream(gone + r_floats, held - r_floats)
        BY <1>a, <3>1, StreamHead, StreamTail, Zenon
      <3> QED BY <1>a, <3>2
    <2>5. produced' - gone' = held - r_floats
      BY <1>a, <2>1, <2>2, <2>3 DEF TypeOK
    <2>6. Held' = SubSeq(Held, r_floats + 1, Len(Held)) /\ out' = SubSeq(Held, 1, r_floats)
      BY <1>a, <2>1, <2>3, <2>4, <2>5
    <2>7. Queue!Take(r_floats)
      BY <2>1, <2>6 DEF Queue!Take
    <2> QED BY <1>a, <2>2, <2>7 DEF Queue!Next
  <1>13. CASE FlushBegin
    BY <1>13, Stutters DEF FlushBegin
  <1>14. CASE FlushStoreReadPos
    <2>1. /\ wpc' = wpc /\ w_total' = w_total /\ out' = out /\ gone' = produced
          /\ produced' = produced
      BY <1>14 DEF FlushStoreReadPos
    <2>2. produced' - gone' = 0
      BY <2>1 DEF TypeOK
    <2>3. Held' = <<>>
      BY <1>a, <2>2 DEF Stream, Queue!Stream
    <2>4. Queue!Clear
      BY <2>1, <2>3 DEF Queue!Clear
    <2> QED BY <2>4 DEF Queue!Next
  <1>15. CASE FlushStoreBuffered
    BY <1>15, Stutters DEF FlushStoreBuffered
  <1>16. CASE UNCHANGED vars
    BY <1>16, Stutters DEF vars
  <1> QED
    BY <1>1, <1>2, <1>3, <1>4, <1>5, <1>6, <1>7, <1>8, <1>9, <1>10, <1>11, <1>12, <1>13, <1>14,
       <1>15, <1>16
    DEF OrderlyNext, Next, Writer, Reader, Flush, Queue!Next

\* Refinement: every behaviour of a ring whose overflows and flushes meet no operation
\* of the other thread is a behaviour of the bounded audio queue, whatever the
\* capacity, the channel count and the block sizes: a write drops exactly the oldest
\* samples that are in the way, and a read takes the oldest ones in order.
THEOREM OrderlyRingIsQueue == OrderlySpec => ImplementsQueue
  <1>1. Init => Queue!Init /\ Pending
    BY QueueInit DEF Init, Pending
  <1>2. [OrderlyNext]_vars => [Next]_vars
    BY DEF OrderlyNext
  <1>3. OrderlySpec => []Pending
    BY <1>1, <1>2, PendingStep, PTL DEF OrderlySpec
  <1>4. /\ TypeOK /\ OrderlyInv /\ Pending /\ QueueIs /\ TypeOK' /\ OrderlyInv' /\ QueueIs'
        /\ [OrderlyNext]_vars
        => [Queue!Next]_(Queue!vars)
    BY QueueStep
  <1> QED
    BY <1>1, <1>3, <1>4, HeldIs, OrderlyType, OrderlyInvariant, PTL
    DEF OrderlySpec, ImplementsQueue, Queue!Spec

=============================================================================
