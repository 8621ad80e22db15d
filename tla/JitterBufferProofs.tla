------------------------- MODULE JitterBufferProofs -------------------------
(* Theorems about JitterBuffer, for every configuration of its zones, every block *)
(* size and every interleaving of write() and read().                             *)
EXTENDS JitterBuffer, TLAPS

----------------------------------------------------------------------------
(* Remainders, and whole frames *)

\* A remainder lies below its divisor: what a position becomes is a slot.
LEMMA ModRange == ASSUME NEW a \in Int, NEW c \in Nat \ {0} PROVE a % c \in 0..(c - 1)
  BY SMT

\* A position that has not reached the end of data_ is left as it is.
LEMMA ModSmall == ASSUME NEW c \in Nat \ {0}, NEW a \in 0..(c - 1) PROVE a % c = a
  BY SMT

\* A position at most one lap past the end of data_ comes back by one capacity.
LEMMA ModWrap == ASSUME NEW c \in Nat \ {0}, NEW a \in c..(2 * c - 1) PROVE a % c = a - c
  BY SMT

\* The division the code writes as / and %.
LEMMA Division ==
    ASSUME NEW a \in Int, NEW c \in Nat \ {0}
    PROVE  a \div c \in Int /\ a = c * (a \div c) + (a % c)
  <1>1. a \div c \in Int
    BY SMT
  <1>2. a = c * (a \div c) + (a % c)
    BY SMT
  <1> QED BY <1>1, <1>2

\* Scaling from frames to floats keeps the order.
LEMMA FloatsMonotone ==
    ASSUME NEW a \in Int, NEW b \in Int, NEW c \in Nat, a <= b
    PROVE  a * c <= b * c
  BY SMT

\* Comparing a fill level in whole frames bounds the level in floats.
LEMMA FillBounds ==
    ASSUME NEW a \in Int, NEW c \in Nat \ {0}, NEW m \in Int
    PROVE  /\ a \div c > m => a > m * c
           /\ a \div c >= m => a >= m * c
           /\ a \div c < m => a < m * c
  <1>1. a \div c > m => a > m * c
    BY SMT
  <1>2. a \div c >= m => a >= m * c
    BY SMT
  <1>3. a \div c < m => a < m * c
    BY SMT
  <1> QED BY <1>1, <1>2, <1>3

\* So many frames are a whole number of frames ...
LEMMA FramesWhole == ASSUME NEW q \in Int, NEW c \in Nat \ {0} PROVE (q * c) % c = 0
  BY SMT

\* ... and a whole number of frames is so many frames.
LEMMA WholeFrames ==
    ASSUME NEW a \in Int, NEW c \in Nat \ {0}, a % c = 0
    PROVE  \E q \in Int : a = q * c
  <1>1. a \div c \in Int
    BY Division
  <1>2. a = (a \div c) * c
    BY SMT
  <1> QED BY <1>1, <1>2, Zenon

\* Sums and differences of whole frames are whole frames.
LEMMA SumWhole ==
    ASSUME NEW a \in Int, NEW b \in Int, NEW c \in Nat \ {0}, a % c = 0, b % c = 0
    PROVE  (a + b) % c = 0 /\ (a - b) % c = 0
  <1>1. PICK p \in Int : a = p * c
    BY WholeFrames
  <1>2. PICK q \in Int : b = q * c
    BY WholeFrames
  <1>3. a + b = (p + q) * c /\ a - b = (p - q) * c
    BY <1>1, <1>2, SMT
  <1>4. p + q \in Int /\ p - q \in Int
    OBVIOUS
  <1> QED BY <1>3, <1>4, FramesWhole, Zenon

\* A remainder by a whole number of frames is a whole number of frames: wrapping at
\* the end of data_ splits no frame.
LEMMA WrapWhole ==
    ASSUME NEW a \in Int, NEW m \in Nat \ {0}, NEW c \in Nat \ {0}, a % c = 0, m % c = 0
    PROVE  (a % m) % c = 0
  <1>1. PICK p \in Int : a = p * c
    BY WholeFrames
  <1>2. PICK k \in Int : m = k * c
    BY WholeFrames
  <1>3. a \div m \in Int /\ a = m * (a \div m) + (a % m) /\ a % m \in Int
    BY Division, ModRange
  <1>4. a % m = (p - k * (a \div m)) * c
    BY <1>1, <1>2, <1>3, SMT
  <1>5. p - k * (a \div m) \in Int
    BY <1>3, SMT
  <1> QED BY <1>4, <1>5, FramesWhole, Zenon

----------------------------------------------------------------------------
(* The inductive invariant behind PositionsSound.                           *)

Whole(x) == x % num_channels = 0

\* The bounds of the locals while they wait for their use.
Locals ==
    /\ w_n <= produced
    /\ r_floats <= capacity
    /\ r_out \in 0 .. capacity /\ r_take \in Nat

\* Every count and position, and every local that becomes one, is whole frames.
Frames ==
    /\ Whole(write_pos) /\ Whole(read_pos) /\ Whole(buffered)
    /\ Whole(w_n) /\ Whole(r_floats) /\ Whole(r_buf) /\ Whole(r_out) /\ Whole(r_take)

\* buffered_ stays in range because what the writer is about to add still fits, even
\* beside a snap that comes in between, and what the reader is about to subtract is
\* still there: the writer only ever raises buffered_.
InRange ==
    /\ buffered \in 0 .. capacity
    /\ w_n + snap_floats <= capacity
    /\ wpc = "add" => buffered + w_n <= capacity
    /\ rpc \in {"skip", "plan"} => r_buf <= buffered
    /\ rpc = "skip" => snap_floats <= r_buf
    /\ rpc \in {"copy", "advance"} => r_take <= buffered

PositionsInv == TypeOK /\ Locals /\ Frames /\ (BlocksFit => InRange)

----------------------------------------------------------------------------
(* The constructor's sizes.                                                 *)

\* The zones fit in the ring, which is a positive number of whole frames.
LEMMA Sizes ==
    /\ num_channels \in Nat \ {0} /\ correction_interval \in Nat \ {0} /\ Word \in Nat \ {0}
    /\ capacity \in Nat \ {0} /\ Whole(capacity)
    /\ snap_floats \in Nat \ {0} /\ Whole(snap_floats) /\ snap_floats <= capacity
    /\ min_samples \in Nat \ {0} /\ max_samples \in Nat /\ target_low \in Nat /\ target_high \in Nat
    /\ min_samples * num_channels \in Nat \ {0}
    /\ snap_floats <= max_samples * num_channels
    /\ Whole(0) /\ Whole(num_channels)
  <1> USE DEF Whole
  <1>1. /\ num_channels \in Nat \ {0} /\ correction_interval \in Nat \ {0} /\ Word \in Nat \ {0}
    BY TypeAssumption
  <1>2. /\ min_samples \in Nat \ {0} /\ max_samples \in Nat /\ target_low \in Nat
        /\ target_high \in Nat /\ target_centre \in Nat \ {0} /\ capacity \in Nat
        /\ target_centre <= max_samples /\ max_samples * num_channels <= capacity
    BY ZoneAssumption
  <1>3. /\ target_centre * num_channels \in Nat \ {0}
        /\ target_centre * num_channels <= max_samples * num_channels
        /\ max_samples * num_channels \in Int
        /\ min_samples * num_channels \in Nat \ {0}
    <2>1. target_centre * num_channels <= max_samples * num_channels
      BY <1>1, <1>2, FloatsMonotone
    <2>2. 1 * num_channels <= target_centre * num_channels
      BY <1>1, <1>2, FloatsMonotone
    <2>3. 1 * num_channels <= min_samples * num_channels
      BY <1>1, <1>2, FloatsMonotone
    <2> QED BY <1>1, <1>2, <2>1, <2>2, <2>3
  <1>4. /\ snap_floats \in Nat \ {0} /\ snap_floats <= max_samples * num_channels
        /\ snap_floats <= capacity /\ capacity \in Nat \ {0}
    BY <1>2, <1>3 DEF snap_floats
  <1>5. Whole(snap_floats)
    BY <1>1, <1>2, FramesWhole DEF snap_floats
  <1>6. Whole(capacity)
    <2>1. ms_to_samples(capacity_ms) \in Int
      <3>0. capacity_ms \in Nat /\ sample_rate \in Nat
        BY TypeAssumption, Zenon
      <3>1. capacity_ms * sample_rate \in Int
        BY <3>0
      <3>2. (capacity_ms * sample_rate) % Word \in Int
        BY <1>1, <3>1, ModRange
      <3> QED BY <3>2, Division DEF ms_to_samples
    <2> QED BY <1>1, <2>1, FramesWhole DEF capacity
  <1>7. Whole(0) /\ Whole(num_channels)
    <2>1. Whole(0 * num_channels) /\ Whole(1 * num_channels)
      BY <1>1, FramesWhole
    <2>2. 0 * num_channels = 0 /\ 1 * num_channels = num_channels
      BY <1>1
    <2> QED BY <2>1, <2>2
  <1> QED BY <1>1, <1>2, <1>3, <1>4, <1>5, <1>6, <1>7

\* Blocks are whole frames, and so is the part of one that write() keeps.
LEMMA BlocksWhole ==
    /\ \A n \in WriteFloats :
         n \in Nat \ {0} /\ Least(n, capacity) \in 0 .. capacity /\ Least(n, capacity) <= n
           /\ Whole(Least(n, capacity))
    /\ \A n \in ReadFloats : n \in 1 .. capacity /\ Whole(n)
  BY TypeAssumption, FrameAssumption, Sizes DEF Least, Whole

\* Sums and differences of whole frames are whole frames.
LEMMA WholeSums ==
    ASSUME NEW a \in Int, NEW b \in Int, Whole(a), Whole(b)
    PROVE  a + b \in Int /\ a - b \in Int /\ Whole(a + b) /\ Whole(a - b)
  <1>1. num_channels \in Nat \ {0} /\ a % num_channels = 0 /\ b % num_channels = 0
    BY Sizes DEF Whole
  <1>2. (a + b) % num_channels = 0 /\ (a - b) % num_channels = 0
    BY <1>1, SumWhole, Zenon
  <1> QED BY <1>2 DEF Whole

\* A position that moves on stays a slot, and whole if it moves by whole frames.
LEMMA AdvanceFacts ==
    ASSUME NEW pos \in Slots, NEW n \in Int, Whole(pos), Whole(n)
    PROVE  Advance(pos, n) \in Slots /\ Whole(Advance(pos, n))
  <1>1. pos \in Int /\ pos + n \in Int
    BY Sizes DEF Slots
  <1>2. Whole(pos + n)
    BY <1>1, WholeSums
  <1> QED BY <1>1, <1>2, Sizes, ModRange, WrapWhole DEF Advance, Slots, Whole

\* copy_from_ring returns a block of samples of data_.
LEMMA CopyFromType ==
    ASSUME data \in [Slots -> Nat], NEW pos \in Slots, NEW n \in 0 .. capacity
    PROVE  copy_from_ring(pos, n) \in Seq(Nat)
  <1>1. copy_from_ring(pos, n) \in [1 .. n -> Nat]
    BY Sizes, SMT DEF copy_from_ring, Slots
  <1> QED BY <1>1, Sizes

\* copy_to_ring leaves data_ an array of the same slots.
LEMMA CopyToType ==
    ASSUME data \in [Slots -> Nat], NEW pos \in Slots, NEW first \in Nat, NEW n \in 0 .. capacity
    PROVE  copy_to_ring(pos, first, n) \in [Slots -> Nat]
  BY Sizes, SMT DEF copy_to_ring, Slots

----------------------------------------------------------------------------
(* Every interleaving.                                                      *)

\* The constructed buffer is sound.
LEMMA PositionsInit == Init => PositionsInv
  <1> SUFFICES ASSUME Init PROVE PositionsInv
    OBVIOUS
  <1>1. TypeOK
    BY Sizes DEF Init, TypeOK, Slots
  <1>2. Locals /\ Frames /\ InRange
    BY Sizes DEF Init, Locals, Frames, InRange
  <1> QED BY <1>1, <1>2 DEF PositionsInv

\* What read() plans to copy and to consume: at least nothing, at most what it saw in
\* the ring and what it was asked for, in whole frames.
LEMMA PlanFacts ==
    ASSUME TypeOK, Locals, Frames, Fill(r_buf) >= min_samples, NEW c \in {-1, 0, 1}
    PROVE  /\ Outputs(c) \in 0 .. capacity /\ Whole(Outputs(c))
           /\ Consumes(c) \in Nat /\ Consumes(c) <= r_buf /\ Whole(Consumes(c))
  <1>1. r_buf \in Int /\ r_buf > 0 /\ r_floats \in Nat /\ r_floats <= capacity
    <2>1. r_buf \in Int /\ r_floats \in Nat /\ r_floats <= capacity
      BY DEF TypeOK, Locals
    <2>2. r_buf >= min_samples * num_channels
      BY <2>1, Sizes, FillBounds DEF Fill
    <2> QED BY <2>1, <2>2, Sizes
  <1>2. num_channels <= capacity
    <2>1. 1 * num_channels <= max_samples * num_channels
      BY Sizes, ZoneAssumption, FloatsMonotone
    <2> QED BY <2>1, Sizes, ZoneAssumption
  <1>3. Outputs(c) \in 0 .. capacity /\ Outputs(c) <= r_buf
    BY <1>1, <1>2, Sizes DEF Outputs, Least
  <1>4. Consumes(c) \in Nat /\ Consumes(c) <= r_buf
    BY <1>1, <1>3, Sizes DEF Consumes, Least
  <1>5. Whole(r_floats - num_channels) /\ Whole(r_floats + num_channels)
    <2>1. r_floats \in Int /\ num_channels \in Int /\ Whole(r_floats) /\ Whole(num_channels)
      BY <1>1, Sizes DEF Frames
    <2> QED BY <2>1, WholeSums
  <1>6. Whole(Outputs(c))
    BY <1>5, Sizes DEF Outputs, Least, Frames
  <1>7. Whole(Consumes(c))
    BY <1>5, <1>6 DEF Consumes, Least, Frames
  <1> QED BY <1>3, <1>4, <1>6, <1>7

\* No atomic access of write() or read() breaks the invariant.
LEMMA PositionsStep == PositionsInv /\ [Next]_vars => PositionsInv'
  <1> SUFFICES ASSUME PositionsInv, [Next]_vars PROVE PositionsInv'
    OBVIOUS
  <1> USE DEF ring, writer, private, reader, history
  <1>a. TypeOK /\ Locals /\ Frames /\ (BlocksFit => InRange)
    BY DEF PositionsInv
  <1>b. BlocksFit => BlocksFit'
    BY DEF BlocksFit
  <1>s. Slots \subseteq Int /\ capacity \in Int /\ snap_floats \in Int
    BY Sizes DEF Slots
  <1>1. ASSUME NEW n \in WriteFloats, WriteBegin(n) PROVE PositionsInv'
    <2> DEFINE k == Least(n, capacity)
    <2>1. n \in Nat \ {0} /\ k \in 0 .. capacity /\ k <= n /\ Whole(k)
      BY BlocksWhole
    <2>2. TypeOK' /\ Locals'
      BY <1>1, <1>a, <2>1 DEF WriteBegin, TypeOK, Locals
    <2>3. Frames'
      BY <1>1, <1>a, <2>1 DEF WriteBegin, Frames, Whole
    <2>4. ASSUME BlocksFit PROVE InRange'
      <3>1. k + snap_floats <= capacity /\ buffered \in 0 .. capacity
        BY <1>a, <1>s, <2>1, <2>4 DEF BlocksFit, InRange
      <3>2. (buffered + k) % Word = buffered + k
        <4>1. buffered + k \in 0 .. (Word - 1)
          BY <2>1, <3>1, Sizes, ZoneAssumption
        <4> QED BY <4>1, Sizes, ModSmall
      <3>3. wpc' = "add" => buffered + k <= capacity
        BY <1>1, <2>1, <3>1, <3>2, <1>s DEF WriteBegin
      <3> QED BY <1>1, <1>a, <2>4, <3>1, <3>3 DEF WriteBegin, InRange
    <2> QED BY <2>2, <2>3, <2>4 DEF PositionsInv, BlocksFit
  <1>2. CASE WriteRaiseFlag
    <2>1. TypeOK'
      BY <1>2, <1>a, Zenon DEF WriteRaiseFlag, TypeOK
    <2> QED BY <1>2, <1>a, <2>1 DEF WriteRaiseFlag, Locals, Frames, InRange, PositionsInv, BlocksFit, Whole
  <1>3. CASE WriteStoreFull
    <2>1. TypeOK' /\ Locals'
      BY <1>3, <1>a, <1>s DEF WriteStoreFull, TypeOK, Locals
    <2>2. Frames'
      BY <1>3, <1>a, Sizes DEF WriteStoreFull, Frames, Whole
    <2>3. ASSUME BlocksFit PROVE InRange'
      BY <1>3, <1>a, <2>3, Sizes DEF WriteStoreFull, InRange, TypeOK
    <2> QED BY <2>1, <2>2, <2>3 DEF PositionsInv, BlocksFit
  <1>4. CASE WriteFetchAdd
    <2>1. TypeOK' /\ Locals'
      BY <1>4, <1>a, <1>s DEF WriteFetchAdd, TypeOK, Locals
    <2>2. Frames'
      <3>1. Whole(buffered + w_n)
        BY <1>a, WholeSums DEF Frames, TypeOK
      <3> QED BY <1>4, <1>a, <3>1 DEF WriteFetchAdd, Frames, Whole
    <2>3. ASSUME BlocksFit PROVE InRange'
      BY <1>4, <1>a, <2>3, Sizes DEF WriteFetchAdd, InRange, TypeOK
    <2> QED BY <2>1, <2>2, <2>3 DEF PositionsInv, BlocksFit
  <1>5. CASE WriteCopy
    <2>1. copy_to_ring(write_pos, produced - w_n + 1, w_n) \in [Slots -> Nat]
      BY <1>a, <1>s, CopyToType DEF TypeOK, Locals
    <2>2. TypeOK'
      BY <1>5, <1>a, <2>1 DEF WriteCopy, TypeOK
    <2> QED BY <1>5, <1>a, <2>2 DEF WriteCopy, Locals, Frames, InRange, PositionsInv, BlocksFit, Whole
  <1>6. CASE WriteStoreWritePos
    <2>1. Advance(write_pos, w_n) \in Slots /\ Whole(Advance(write_pos, w_n))
      BY <1>a, <1>s, AdvanceFacts DEF TypeOK, Frames
    <2>2. TypeOK'
      BY <1>6, <1>a, <2>1 DEF WriteStoreWritePos, TypeOK
    <2> QED BY <1>6, <1>a, <2>1, <2>2
        DEF WriteStoreWritePos, Locals, Frames, InRange, PositionsInv, BlocksFit, Whole
  <1>7. ASSUME NEW n \in ReadFloats, ReadBegin(n) PROVE PositionsInv'
    <2>1. n \in 1 .. capacity /\ Whole(n)
      BY BlocksWhole
    <2>2. TypeOK' /\ Locals'
      BY <1>7, <1>a, <1>s, <2>1 DEF ReadBegin, TypeOK, Locals
    <2> QED BY <1>7, <1>a, <2>1, <2>2
        DEF ReadBegin, Frames, InRange, PositionsInv, BlocksFit, Whole
  <1>8. CASE ReadClearFlag
    <2>1. TypeOK'
      BY <1>8, <1>a, Zenon DEF ReadClearFlag, TypeOK
    <2> QED BY <1>8, <1>a, <2>1
        DEF ReadClearFlag, Locals, Frames, InRange, PositionsInv, BlocksFit, Whole
  <1>9. CASE ReadSnap
    <2>1. write_pos \in Slots /\ Whole(write_pos)
      BY <1>a DEF TypeOK, Frames
    <2>2. read_pos' \in Slots
      BY <1>9, <2>1, Sizes DEF ReadSnap, Slots
    <2>3. Whole(read_pos')
      <3>1. Whole(write_pos - snap_floats) /\ Whole(snap_floats - write_pos)
        BY <2>1, <1>s, Sizes, WholeSums
      <3>2. Whole(capacity - (snap_floats - write_pos))
        <4>1. snap_floats - write_pos \in Int /\ Whole(capacity)
          BY <2>1, <1>s, Sizes
        <4> QED BY <3>1, <4>1, <1>s, WholeSums
      <3> QED BY <1>9, <3>1, <3>2 DEF ReadSnap
    <2>4. TypeOK'
      BY <1>9, <1>a, <2>2 DEF ReadSnap, TypeOK
    <2> QED BY <1>9, <1>a, <2>3, <2>4
        DEF ReadSnap, Locals, Frames, InRange, PositionsInv, BlocksFit, Whole
  <1>10. CASE ReadSnapBuffered
    <2>1. TypeOK' /\ Locals'
      BY <1>10, <1>a, <1>s DEF ReadSnapBuffered, TypeOK, Locals
    <2>2. Frames'
      BY <1>10, <1>a, Sizes DEF ReadSnapBuffered, Frames, Whole
    <2>3. ASSUME BlocksFit PROVE InRange'
      BY <1>10, <1>a, <2>3, Sizes DEF ReadSnapBuffered, InRange, TypeOK
    <2> QED BY <2>1, <2>2, <2>3 DEF PositionsInv, BlocksFit
  <1>11. CASE ReadFilling
    <2>1. TypeOK'
      BY <1>11, <1>a DEF ReadFilling, TypeOK
    <2> QED BY <1>11, <1>a, <2>1
        DEF ReadFilling, Locals, Frames, InRange, PositionsInv, BlocksFit, Whole
  <1>12. CASE ReadLoad
    <2>1. TypeOK'
      <3>1. Counted \in Nat
        BY <1>a DEF TypeOK, Locals, Counted
      <3>2. correction_counter' \in 0 .. correction_interval - 1
        BY <1>12, <1>a, Sizes DEF ReadLoad, TypeOK
      <3> QED BY <1>12, <1>a, <3>1, <3>2 DEF ReadLoad, TypeOK
    <2>2. Locals' /\ Frames'
      BY <1>12, <1>a DEF ReadLoad, Locals, Frames, Whole
    <2>3. ASSUME BlocksFit PROVE InRange'
      <3>1. buffered \div num_channels > max_samples => snap_floats <= buffered
        BY <1>a, Sizes, FillBounds DEF TypeOK
      <3>2. rpc' = "skip" => snap_floats <= r_buf'
        BY <1>12, <3>1 DEF ReadLoad, Fill
      <3> QED BY <1>12, <1>a, <2>3, <3>2 DEF ReadLoad, InRange, TypeOK
    <2> QED BY <2>1, <2>2, <2>3 DEF PositionsInv, BlocksFit
  <1>13. CASE ReadSkip
    <2> DEFINE d == r_buf - snap_floats
    <2>1. d \in Int /\ Whole(d)
      BY <1>a, <1>s, Sizes, WholeSums DEF TypeOK, Frames
    <2>2. Advance(read_pos, d) \in Slots /\ Whole(Advance(read_pos, d))
      BY <1>a, <2>1, AdvanceFacts DEF TypeOK, Frames
    <2>3. buffered - d \in Int /\ Whole(buffered - d)
      BY <1>a, <2>1, WholeSums DEF TypeOK, Frames
    <2>4. TypeOK' /\ Locals'
      BY <1>13, <1>a, <1>s, <2>2, <2>3 DEF ReadSkip, TypeOK, Locals
    <2>5. Frames'
      BY <1>13, <1>a, <2>2, <2>3, Sizes DEF ReadSkip, Frames, Whole
    <2>6. ASSUME BlocksFit PROVE InRange'
      BY <1>13, <1>a, <2>6, Sizes DEF ReadSkip, InRange, TypeOK
    <2> QED BY <2>4, <2>5, <2>6 DEF PositionsInv, BlocksFit
  <1>14. CASE ReadUnderrun
    <2>1. TypeOK'
      BY <1>14, <1>a DEF ReadUnderrun, TypeOK
    <2> QED BY <1>14, <1>a, <2>1
        DEF ReadUnderrun, Locals, Frames, InRange, PositionsInv, BlocksFit, Whole
  <1>15. CASE ReadPlan
    <2>1. correction \in {-1, 0, 1}
      BY DEF correction
    <2>2. /\ r_out' \in 0 .. capacity /\ Whole(r_out')
          /\ r_take' \in Nat /\ r_take' <= r_buf /\ Whole(r_take')
      BY <1>15, <1>a, <2>1, PlanFacts DEF ReadPlan
    <2>3. correction_counter' \in 0 .. correction_interval - 1
      BY <1>15, <1>a, Sizes DEF ReadPlan, Correcting, TypeOK
    <2>4. TypeOK' /\ Locals'
      BY <1>15, <1>a, <1>s, <2>2, <2>3 DEF ReadPlan, TypeOK, Locals
    <2>5. Frames'
      BY <1>15, <1>a, <2>2 DEF ReadPlan, Frames, Whole
    <2>6. ASSUME BlocksFit PROVE InRange'
      BY <1>15, <1>a, <2>2, <2>6 DEF ReadPlan, InRange, TypeOK
    <2> QED BY <2>4, <2>5, <2>6 DEF PositionsInv, BlocksFit
  <1>16. CASE ReadCopy
    <2>1. copy_from_ring(read_pos, r_out) \in Seq(Nat)
      BY <1>a, CopyFromType DEF TypeOK, Locals
    <2>2. heard' \in Nat
      BY <1>16, <1>a DEF ReadCopy, TypeOK
    <2>3. TypeOK'
      BY <1>16, <1>a, <2>1, <2>2 DEF ReadCopy, TypeOK
    <2> QED BY <1>16, <1>a, <2>3
        DEF ReadCopy, Locals, Frames, InRange, PositionsInv, BlocksFit, Whole
  <1>17. CASE ReadAdvance
    <2>1. Advance(read_pos, r_take) \in Slots /\ Whole(Advance(read_pos, r_take))
      BY <1>a, AdvanceFacts DEF TypeOK, Frames
    <2>2. buffered - r_take \in Int /\ Whole(buffered - r_take)
      BY <1>a, WholeSums DEF TypeOK, Frames
    <2>3. TypeOK' /\ Locals'
      BY <1>17, <1>a, <2>1, <2>2 DEF ReadAdvance, TypeOK, Locals
    <2>4. Frames'
      BY <1>17, <1>a, <2>1, <2>2 DEF ReadAdvance, Frames, Whole
    <2>5. ASSUME BlocksFit PROVE InRange'
      BY <1>17, <1>a, <2>5, Sizes DEF ReadAdvance, InRange, TypeOK, Locals
    <2> QED BY <2>3, <2>4, <2>5 DEF PositionsInv, BlocksFit
  <1>18. CASE UNCHANGED vars
    BY <1>18, <1>a DEF vars, TypeOK, Locals, Frames, InRange, PositionsInv, BlocksFit, Whole
  <1> QED
    BY <1>1, <1>2, <1>3, <1>4, <1>5, <1>6, <1>7, <1>8, <1>9, <1>10, <1>11, <1>12, <1>13, <1>14,
       <1>15, <1>16, <1>17, <1>18 DEF Next, Writer, Reader

\* In every interleaving of write() and read(), overflow and snap races included, the
\* positions stay in data_, no frame is split, and, if every block fits in beside the
\* target latency, buffered_ stays between 0 and capacity_.
THEOREM PositionsAlwaysSound == Spec => []PositionsSound
  <1>1. PositionsInv => PositionsSound
    BY DEF PositionsInv, PositionsSound, Frames, InRange, Whole
  <1> QED BY <1>1, PositionsInit, PositionsStep, PTL DEF Spec

----------------------------------------------------------------------------
(* The orderly buffer: an overflow and the snap that answers it meet no     *)
(* operation of the other thread.                                           *)

\* A read, a block and a sample fit in the minimum latency together.  Without this a
\* read at low fill reaches a block that is counted but not copied in.
Roomy ==
    \A n \in WriteFloats, m \in ReadFloats : m + n + num_channels <= min_samples * num_channels

\* The slot j floats before pos.
Back(pos, j) == IF pos >= j THEN pos - j ELSE pos + (capacity - j)

\* An overflow that the reader has not answered yet.
Snapping == overflow_flag \/ wpc \in {"flag", "full"} \/ rpc \in {"clear", "snap", "snap_buf"}

\* Floats that buffered_ counts beyond write_pos_.
Uncopied == IF wpc \in {"copy", "store_wp"} THEN w_n ELSE 0

\* The newest sample in data_, the position after it, and how many samples before that
\* position are in their place: of an overflow, all that the block leaves room for.
Newest == IF wpc \in {"flag", "full", "add", "copy"} THEN produced - w_n ELSE produced
Front  == IF wpc = "store_wp" THEN Advance(write_pos, w_n) ELSE write_pos
Depth  == IF wpc \in {"flag", "full"} THEN capacity - w_n
          ELSE IF wpc = "copy" THEN buffered - w_n ELSE buffered

\* The newest sample that is read, skipped or lost.
Gone == IF wpc \in {"flag", "full"} THEN produced - capacity ELSE Counted - buffered

\* Counts and flags: the ring is full while an overflow is unanswered, and what is
\* about to be added fits.
Counts ==
    /\ Contained
    /\ buffered \in 0 .. capacity
    /\ wpc = "full" \/ rpc = "clear" => overflow_flag
    /\ overflow_flag => rpc \in {"idle", "clear"}
    /\ wpc = "flag" => buffered + w_n > capacity
    /\ overflow_flag /\ wpc \notin {"flag", "full"} => buffered = capacity
    /\ rpc \in {"snap", "snap_buf"} => buffered = capacity
    /\ wpc = "add" => ~overflow_flag /\ buffered + w_n <= capacity
    /\ Uncopied <= buffered

\* What a read is going to do is still possible when it does it: the writer only adds,
\* and the block it is copying in lies beyond what the read takes.
Plans ==
    /\ w_n = 0 \/ \E n \in WriteFloats : w_n <= n
    /\ rpc # "idle" => r_floats \in ReadFloats
    /\ rpc \in {"skip", "plan"} => r_buf <= buffered
    /\ rpc = "skip" => snap_floats <= r_buf
    /\ rpc \in {"copy", "advance"} => r_take + Uncopied <= buffered /\ r_out \in 1 .. r_take

\* The read position lies as many floats behind the write position as buffered_ says.
Places ==
    /\ ~Snapping => read_pos = Back(write_pos, buffered - Uncopied)
    /\ rpc = "snap_buf" => read_pos = Back(write_pos, snap_floats)

\* The slots before Front hold the newest samples.
Contents == \A j \in 1 .. capacity : j <= Depth => data[Back(Front, j)] = Newest + 1 - j

\* How far the stream is played once the read in progress is over.
Reached == Gone + (IF rpc = "advance" THEN r_take ELSE 0)

\* Nothing that was played is still to come.
Played ==
    /\ Gone >= 0
    /\ dst = <<>> => heard = 0
    /\ dst # <<>> => dst[Len(dst)] <= Reached
    /\ InOrder

\* The oldest sample left is not older than the fill that the read has seen.
Age ==
    /\ rpc \in {"skip", "plan"} => Gone >= seen - r_buf
    /\ rpc = "plan" => r_buf <= max_samples * num_channels
    /\ rpc = "copy" => Gone >= seen - max_samples * num_channels
    /\ rpc = "advance" => dst # <<>>
    /\ AgeBounded

OrderlyInv == Counts /\ Plans /\ Places /\ Contents /\ Played /\ Age

\* The position arithmetic of write() and read() is one conditional wrap.
LEMMA AdvanceIs ==
    ASSUME NEW p \in Slots, NEW n \in 0 .. capacity
    PROVE  Advance(p, n) = IF p + n >= capacity THEN p + n - capacity ELSE p + n
  <1>1. p + n \in 0 .. (2 * capacity - 1) /\ capacity \in Nat \ {0}
    BY Sizes DEF Slots
  <1>2. CASE p + n >= capacity
    <2>1. p + n \in capacity .. (2 * capacity - 1)
      BY <1>1, <1>2
    <2>2. (p + n) % capacity = (p + n) - capacity
      BY <1>1, <2>1, ModWrap, Zenon
    <2>3. Advance(p, n) = (p + n) - capacity
      BY <2>2, Zenon DEF Advance
    <2> QED BY <1>1, <1>2, <2>3, SMT DEF Slots
  <1>3. CASE ~(p + n >= capacity)
    BY <1>1, <1>3, ModSmall DEF Advance
  <1> QED BY <1>2, <1>3

\* Going back by at most a lap stays in data_; by nothing or a whole lap, in place.
LEMMA BackFacts ==
    ASSUME NEW p \in Slots, NEW j \in 0 .. capacity
    PROVE  Back(p, j) \in Slots /\ Back(p, 0) = p
  BY Sizes DEF Back, Slots

\* Moving on from a position behind p shortens the way back to it ...
LEMMA AdvanceBack ==
    ASSUME NEW p \in Slots, NEW b \in 0 .. capacity, NEW k \in 0 .. b
    PROVE  Advance(Back(p, b), k) = Back(p, b - k)
  <1>1. Back(p, b) \in Slots /\ k \in 0 .. capacity
    BY BackFacts, Sizes
  <1>2. Advance(Back(p, b), k) =
          IF Back(p, b) + k >= capacity THEN Back(p, b) + k - capacity ELSE Back(p, b) + k
    BY <1>1, AdvanceIs
  <1> QED BY <1>2, Sizes DEF Back, Slots

\* ... and moving p on makes it longer.
LEMMA BackAdvance ==
    ASSUME NEW p \in Slots, NEW n \in 0 .. capacity, NEW j \in n .. capacity
    PROVE  Back(Advance(p, n), j) = Back(p, j - n)
  <1>1. Advance(p, n) = IF p + n >= capacity THEN p + n - capacity ELSE p + n
    BY AdvanceIs
  <1> QED BY <1>1, Sizes DEF Back, Slots

\* What copy_to_ring leaves behind the position after the block.
LEMMA CopiedIn ==
    ASSUME data \in [Slots -> Nat], NEW p \in Slots, NEW first \in Nat, NEW n \in 0 .. capacity,
           NEW j \in 1 .. capacity
    PROVE  copy_to_ring(p, first, n)[Back(Advance(p, n), j)] =
             IF j <= n THEN first + (n - j) ELSE data[Back(p, j - n)]
  <1> DEFINE s == Back(Advance(p, n), j)
             offset == IF s >= p THEN s - p ELSE s + (capacity - p)
  <1>1. Advance(p, n) = IF p + n >= capacity THEN p + n - capacity ELSE p + n
    BY AdvanceIs
  <1>2. Advance(p, n) \in Slots
    BY <1>1, Sizes DEF Slots
  <1>3. s \in Slots
    BY <1>2, BackFacts, Sizes
  <1>4. copy_to_ring(p, first, n)[s] = IF offset < n THEN first + offset ELSE data[s]
    BY <1>3 DEF copy_to_ring
  <1>5. CASE j <= n
    <2>1. offset = n - j
      BY <1>1, <1>5, Sizes DEF Back, Slots
    <2> QED BY <1>4, <1>5, <2>1, Sizes
  <1>6. CASE ~(j <= n)
    <2>1. ~(offset < n)
      BY <1>1, <1>6, Sizes DEF Back, Slots
    <2>2. s = Back(p, j - n)
      BY <1>6, BackAdvance, Sizes
    <2> QED BY <1>4, <1>6, <2>1, <2>2
  <1> QED BY <1>5, <1>6

\* copy_from_ring returns the floats from its position on.
LEMMA CopiedOut ==
    ASSUME data \in [Slots -> Nat], NEW p \in Slots, NEW n \in 0 .. capacity
    PROVE  /\ copy_from_ring(p, n) \in Seq(Nat) /\ Len(copy_from_ring(p, n)) = n
           /\ \A i \in 1 .. n : copy_from_ring(p, n)[i] = data[Advance(p, i - 1)]
  <1>1. copy_from_ring(p, n) \in [1 .. n -> Nat]
    BY Sizes, SMT DEF copy_from_ring, Slots
  <1>2. ASSUME NEW i \in 1 .. n PROVE copy_from_ring(p, n)[i] = data[Advance(p, i - 1)]
    <2>1. i - 1 \in 0 .. capacity
      BY Sizes
    <2>2. Advance(p, i - 1) = IF p + (i - 1) >= capacity THEN p + (i - 1) - capacity ELSE p + (i - 1)
      BY <2>1, AdvanceIs
    <2> QED BY <2>2, Sizes DEF copy_from_ring, Slots
  <1> QED BY <1>1, <1>2, Sizes

\* Consequences of the invariant that many steps need.
LEMMA OrderlyFacts ==
    ASSUME PositionsInv, OrderlyInv
    PROVE  /\ data \in [Slots -> Nat] /\ write_pos \in Slots /\ read_pos \in Slots
           /\ capacity \in Nat \ {0} /\ buffered \in 0 .. capacity
           /\ w_n \in 0 .. capacity /\ produced \in Nat /\ w_n <= produced
           /\ Uncopied \in 0 .. buffered
           /\ r_floats \in Nat /\ r_buf \in Int /\ r_out \in 0 .. capacity /\ r_take \in Nat
           /\ seen \in Nat /\ heard \in Nat /\ dst \in Seq(Nat)
           /\ Counted \in Int /\ Gone \in Int /\ Newest \in Int /\ Depth \in Int
           /\ rpc \in {"load", "skip", "plan", "copy", "advance"} => ~Snapping
           /\ rpc \in {"clear", "snap", "snap_buf"} => wpc = "idle"
           /\ overflow_flag /\ wpc # "idle" => rpc = "idle"
           /\ wpc = "flag" => rpc = "idle"
  <1>1. TypeOK /\ Locals /\ Counts
    BY DEF PositionsInv, OrderlyInv
  <1>2. /\ data \in [Slots -> Nat] /\ write_pos \in Slots /\ read_pos \in Slots
        /\ capacity \in Nat \ {0} /\ buffered \in 0 .. capacity
        /\ w_n \in 0 .. capacity /\ produced \in Nat /\ w_n <= produced
        /\ r_floats \in Nat /\ r_buf \in Int /\ r_out \in 0 .. capacity /\ r_take \in Nat
        /\ seen \in Nat /\ heard \in Nat /\ dst \in Seq(Nat)
    BY <1>1, Sizes DEF TypeOK, Locals, Counts
  <1>3. Uncopied \in 0 .. buffered
    BY <1>1, <1>2 DEF Counts, Uncopied
  <1>4. Counted \in Int /\ Gone \in Int /\ Newest \in Int /\ Depth \in Int
    BY <1>2 DEF Counted, Gone, Newest, Depth
  <1>5. /\ rpc \in {"load", "skip", "plan", "copy", "advance"} => ~Snapping
        /\ rpc \in {"clear", "snap", "snap_buf"} => wpc = "idle"
        /\ overflow_flag /\ wpc # "idle" => rpc = "idle"
        /\ wpc = "flag" => rpc = "idle"
    BY <1>1, Zenon DEF Counts, Contained, Snapping
  <1> QED BY <1>2, <1>3, <1>4, <1>5

\* The floats from the read position on are the ones that follow what is gone.
LEMMA NextSamples ==
    ASSUME PositionsInv, OrderlyInv, ~Snapping, NEW i \in 1 .. (buffered - Uncopied)
    PROVE  data[Advance(read_pos, i - 1)] = Gone + i
  <1>f. /\ write_pos \in Slots /\ capacity \in Nat \ {0} /\ buffered \in 0 .. capacity
        /\ w_n \in 0 .. capacity /\ produced \in Nat /\ Uncopied \in 0 .. buffered
    BY OrderlyFacts
  <1>n. wpc \in {"idle", "add", "copy", "store_wp"}
    BY DEF Snapping, PositionsInv, TypeOK
  <1>1. read_pos = Back(write_pos, buffered - Uncopied)
    BY DEF OrderlyInv, Places
  <1> DEFINE b == buffered - Uncopied  j == b - (i - 1)
  <1>2. b \in 0 .. capacity /\ i - 1 \in 0 .. b /\ j \in 1 .. b /\ j \in 1 .. capacity
    BY <1>f
  <1>3. Advance(read_pos, i - 1) = Back(write_pos, j)
    BY <1>1, <1>2, <1>f, AdvanceBack
  <1>4. \A k \in 1 .. capacity : k <= Depth => data[Back(Front, k)] = Newest + 1 - k
    BY DEF OrderlyInv, Contents
  <1>5. CASE wpc = "store_wp"
    <2>1. /\ j + w_n \in w_n .. capacity /\ j + w_n \in 1 .. capacity /\ j + w_n <= Depth
          /\ Front = Advance(write_pos, w_n) /\ Newest = produced /\ Uncopied = w_n
          /\ Gone = produced - buffered
      BY <1>5, <1>f, <1>2 DEF Uncopied, Depth, Front, Newest, Gone, Counted
    <2>2. Back(Front, j + w_n) = Back(write_pos, j)
      <3>1. Back(Advance(write_pos, w_n), j + w_n) = Back(write_pos, (j + w_n) - w_n)
        BY <2>1, <1>f, BackAdvance
      <3>2. (j + w_n) - w_n = j
        BY <1>f, <1>2
      <3> QED BY <2>1, <3>1, <3>2
    <2>3. data[Back(Front, j + w_n)] = Newest + 1 - (j + w_n)
      BY <1>4, <2>1
    <2> QED BY <1>3, <2>1, <2>2, <2>3, <1>f
  <1>6. CASE wpc # "store_wp"
    <2>1. /\ j <= Depth /\ Front = write_pos /\ Gone = Newest - b
      BY <1>6, <1>n, <1>f, <1>2 DEF Uncopied, Depth, Front, Newest, Gone, Counted
    <2>2. data[Back(Front, j)] = Newest + 1 - j
      BY <1>4, <1>2, <2>1
    <2>3. Newest \in Int
      BY OrderlyFacts
    <2> QED BY <1>3, <2>1, <2>2, <2>3, <1>f
  <1> QED BY <1>5, <1>6

\* Sums grow with their parts.
LEMMA SumGrows ==
    ASSUME NEW a \in Int, NEW b \in Int, NEW c \in Int, a >= b
    PROVE  a + c \in Int /\ a + c >= b + c
  OBVIOUS

\* Samples that stay where they are stay the newest ones.
LEMMA ContentsKept ==
    ASSUME Contents, data' = data, Front' = Front, Depth \in Int, Depth' \in Int, Depth' <= Depth,
           Depth' > 0 => Newest' = Newest
    PROVE  Contents'
  <1> SUFFICES ASSUME NEW j \in 1 .. capacity, j <= Depth'
               PROVE  data'[Back(Front', j)] = Newest' + 1 - j
    BY DEF Contents, Back
  <1>1. capacity \in Nat
    BY Sizes
  <1>2. j <= Depth /\ Depth' > 0
    BY <1>1
  <1> QED BY <1>2 DEF Contents

\* What was played stays behind when the stream only moves on.
LEMMA PlayedKept ==
    ASSUME Played, dst \in Seq(Nat), dst' = dst, heard' = heard, Gone' \in Int, Gone' >= 0,
           Reached \in Int, Reached' \in Int, Reached' >= Reached
    PROVE  Played'
  <1>1. dst # <<>> => dst[Len(dst)] \in Int
    OBVIOUS
  <1>2. dst' # <<>> => dst'[Len(dst')] <= Reached'
    BY <1>1 DEF Played
  <1> QED BY <1>2 DEF Played, InOrder

\* What the writer does makes nothing older that the reader has seen.
LEMMA AgeKept ==
    ASSUME Age, rpc' = rpc, r_buf' = r_buf, seen' = seen, dst' = dst, Gone \in Int, Gone' \in Int,
           Gone' >= Gone, r_buf \in Int, seen \in Int
    PROVE  Age'
  <1>1. max_samples * num_channels \in Int
    BY Sizes
  <1> QED BY <1>1 DEF Age, AgeBounded

\* Under Roomy, a block that is being copied in leaves a read its room.
LEMMA BlockLeavesRoom ==
    ASSUME PositionsInv, OrderlyInv, Roomy, rpc # "idle"
    PROVE  /\ min_samples * num_channels \in Nat /\ min_samples * num_channels <= snap_floats
           /\ r_floats \in 1 .. capacity
           /\ Uncopied = 0 \/ r_floats + Uncopied + num_channels <= min_samples * num_channels
  <1>1. min_samples * num_channels \in Nat /\ min_samples * num_channels <= snap_floats
    <2>1. min_samples \in Int /\ target_centre \in Int /\ min_samples <= target_centre
      BY ZoneAssumption
    <2> QED BY <2>1, Sizes, FloatsMonotone DEF snap_floats
  <1>2. r_floats \in ReadFloats /\ (w_n = 0 \/ \E n \in WriteFloats : w_n <= n)
    BY DEF OrderlyInv, Plans
  <1>3. r_floats \in 1 .. capacity /\ w_n \in Nat /\ Uncopied \in {0, w_n}
    BY <1>2, BlocksWhole, OrderlyFacts, Sizes DEF Uncopied
  <1>4. CASE w_n = 0
    BY <1>1, <1>3, <1>4
  <1>5. CASE \E n \in WriteFloats : w_n <= n
    <2>1. PICK n \in WriteFloats : w_n <= n
      BY <1>5
    <2>2. n \in Nat /\ r_floats + n + num_channels <= min_samples * num_channels
      BY <1>2, BlocksWhole DEF Roomy
    <2>3. r_floats + w_n + num_channels <= min_samples * num_channels
      BY <1>1, <1>3, <2>1, <2>2, Sizes
    <2> QED BY <1>1, <1>3, <2>3
  <1> QED BY <1>1, <1>2, <1>3, <1>4, <1>5

\* What read() plans: something to copy, and no more to consume than a correction adds.
LEMMA PlanBounds ==
    ASSUME r_buf \in Int, r_floats \in 1 .. capacity, Fill(r_buf) >= min_samples,
           NEW c \in {-1, 0, 1}
    PROVE  /\ Consumes(c) \in Nat /\ Consumes(c) <= r_buf
           /\ Consumes(c) <= r_floats + num_channels
           /\ Outputs(c) \in 1 .. Consumes(c)
           /\ r_buf >= min_samples * num_channels
  <1>1. r_buf >= min_samples * num_channels
    BY Sizes, FillBounds DEF Fill
  <1>2. r_buf > 0 /\ r_floats \in Nat \ {0} /\ num_channels \in Nat \ {0}
    BY <1>1, Sizes
  <1>3. Outputs(c) \in Nat \ {0} /\ Outputs(c) <= r_buf /\ Outputs(c) <= r_floats + num_channels
    BY <1>2 DEF Outputs, Least
  <1>4. c <= 0 => Consumes(c) = Outputs(c)
    BY DEF Consumes
  <1>5. c > 0 => Consumes(c) = Least(r_floats + num_channels, r_buf) /\ Outputs(c) = Least(r_floats, r_buf)
    BY DEF Consumes, Outputs
  <1> QED BY <1>1, <1>2, <1>3, <1>4, <1>5 DEF Least

\* The constructed buffer is orderly.
LEMMA OrderlyInit == Init => OrderlyInv
  <1> SUFFICES ASSUME Init PROVE OrderlyInv
    OBVIOUS
  <1>1. /\ write_pos = 0 /\ read_pos = 0 /\ buffered = 0 /\ overflow_flag = FALSE /\ wpc = "idle"
        /\ w_n = 0 /\ rpc = "idle" /\ produced = 0 /\ dst = <<>> /\ heard = 0
    BY DEF Init
  <1>2. Uncopied = 0 /\ Depth = 0 /\ Gone = 0
    BY <1>1 DEF Uncopied, Depth, Gone, Counted
  <1>3. Counts /\ Plans /\ Contents
    BY <1>1, <1>2, Sizes DEF Counts, Plans, Contained, Contents
  <1>4. Places
    BY <1>1, <1>2, Sizes DEF Places, Back
  <1>5. Played /\ Age
    BY <1>1, <1>2 DEF Played, Age, InOrder, AgeBounded
  <1> QED BY <1>3, <1>4, <1>5 DEF OrderlyInv

\* No atomic access of an orderly buffer breaks the invariant.
LEMMA OrderlyStep ==
    ASSUME Roomy, PositionsInv, PositionsInv', OrderlyInv, [OrderlyNext]_vars
    PROVE  OrderlyInv'
  <1> USE DEF ring, writer, private, reader, history
  <1>f. /\ data \in [Slots -> Nat] /\ write_pos \in Slots /\ read_pos \in Slots
        /\ capacity \in Nat \ {0} /\ buffered \in 0 .. capacity
        /\ w_n \in 0 .. capacity /\ produced \in Nat /\ w_n <= produced
        /\ Uncopied \in 0 .. buffered
        /\ r_floats \in Nat /\ r_buf \in Int /\ r_out \in 0 .. capacity /\ r_take \in Nat
        /\ seen \in Nat /\ heard \in Nat /\ dst \in Seq(Nat)
        /\ Counted \in Int /\ Gone \in Int /\ Newest \in Int /\ Depth \in Int
    BY OrderlyFacts
  <1>g. /\ rpc \in {"load", "skip", "plan", "copy", "advance"} => ~Snapping
        /\ rpc \in {"clear", "snap", "snap_buf"} => wpc = "idle"
        /\ overflow_flag /\ wpc # "idle" => rpc = "idle"
        /\ wpc = "flag" => rpc = "idle"
    BY OrderlyFacts
  <1>i. Counts /\ Plans /\ Places /\ Contents /\ Played /\ Age
    BY DEF OrderlyInv
  <1>r. Reached \in Int /\ Gone >= 0
    BY <1>f, <1>i DEF Reached, Played
  <1>1. ASSUME NEW n \in WriteFloats, WriteBegin(n), Contained' PROVE OrderlyInv'
    <2> DEFINE k == Least(n, capacity)
    <2>1. /\ n \in Nat \ {0} /\ k \in 1 .. capacity /\ k <= n /\ (k < n => k = capacity)
      BY BlocksWhole, Sizes DEF Least
    <2>2. /\ wpc = "idle" /\ wpc' \in {"flag", "add"} /\ w_n' = k /\ produced' = produced + n
          /\ buffered' = buffered /\ write_pos' = write_pos /\ read_pos' = read_pos /\ data' = data
          /\ overflow_flag' = overflow_flag /\ rpc' = rpc /\ r_floats' = r_floats
          /\ r_buf' = r_buf /\ r_out' = r_out /\ r_take' = r_take /\ dst' = dst
          /\ heard' = heard /\ seen' = seen
      BY <1>1 DEF WriteBegin
    <2>3. /\ wpc' = "flag" => buffered + k > capacity
          /\ wpc' = "add" => buffered + k <= capacity
      <3>1. (buffered + k) % Word = buffered + k
        <4>1. buffered + k \in 0 .. (Word - 1) /\ Word \in Nat \ {0}
          BY <1>f, <2>1, Sizes, ZoneAssumption
        <4> QED BY <4>1, ModSmall
      <3>2. wpc' = IF buffered + k > capacity THEN "flag" ELSE "add"
        BY <1>1, <3>1, Zenon DEF WriteBegin
      <3> QED BY <1>f, <2>1, <3>2
    <2>4. wpc' = "add" => ~overflow_flag
      BY <1>f, <1>i, <2>1, <2>2, <2>3 DEF Counts
    <2>5. Uncopied = 0 /\ Uncopied' = 0 /\ Depth = buffered /\ Newest = produced /\ Front' = Front
      BY <2>2 DEF Uncopied, Depth, Newest, Front
    <2>6. Depth' \in Int /\ Depth' <= Depth /\ (Depth' > 0 => Newest' = Newest)
      <3>1. Newest' = produced + n - k
        <4>1. wpc' \in {"flag", "full", "add", "copy"}
          BY <2>2
        <4>2. Newest' = produced' - w_n'
          BY <4>1, Zenon DEF Newest
        <4> QED BY <1>f, <2>1, <2>2, <4>2
      <3>2. CASE wpc' = "flag"
        <4>1. Depth' = capacity - k
          BY <2>2, <3>2 DEF Depth
        <4> QED BY <3>1, <3>2, <4>1, <1>f, <2>1, <2>3, <2>5
      <3>3. CASE wpc' = "add"
        <4>1. Depth' = buffered
          BY <2>2, <3>3 DEF Depth
        <4> QED BY <3>1, <3>3, <4>1, <1>f, <2>1, <2>3, <2>5
      <3> QED BY <2>2, <3>2, <3>3
    <2>7. Gone' \in Int /\ Gone' >= Gone
      <3>1. Gone = produced - buffered
        BY <2>2 DEF Gone, Counted
      <3>2. CASE wpc' = "flag"
        BY <3>1, <3>2, <1>f, <2>1, <2>2, <2>3 DEF Gone
      <3>3. CASE wpc' = "add"
        BY <3>1, <3>3, <1>f, <2>1, <2>2, <2>3 DEF Gone, Counted
      <3> QED BY <2>2, <3>2, <3>3
    <2>8. Reached' \in Int /\ Reached' >= Reached
      <3>0. Gone \in Int /\ r_take \in Int /\ 0 \in Int
        BY <1>f
      <3>1. CASE rpc = "advance"
        <4>1. Reached = Gone + r_take /\ Reached' = Gone' + r_take
          BY <2>2, <3>1, Zenon DEF Reached
        <4>2. Gone' + r_take \in Int /\ Gone' + r_take >= Gone + r_take
          BY <3>0, <2>7, SumGrows, Zenon
        <4> QED BY <4>1, <4>2, Zenon
      <3>2. CASE rpc # "advance"
        <4>1. Reached = Gone + 0 /\ Reached' = Gone' + 0
          BY <2>2, <3>2, Zenon DEF Reached
        <4>2. Gone' + 0 \in Int /\ Gone' + 0 >= Gone + 0
          BY <3>0, <2>7, SumGrows, Zenon
        <4> QED BY <4>1, <4>2, Zenon
      <3> QED BY <3>1, <3>2
    <2>9. Counts'
      BY <1>1, <1>i, <2>2, <2>3, <2>4, <2>5, <1>f, Sizes DEF Counts
    <2>10. Plans'
      BY <1>i, <2>1, <2>2, <2>5 DEF Plans
    <2>11. Places'
      BY <1>i, <2>2, <2>5 DEF Places, Snapping, Back
    <2> QED
      BY <1>f, <1>i, <1>r, <2>2, <2>5, <2>6, <2>7, <2>8, <2>9, <2>10, <2>11, ContentsKept,
         PlayedKept, AgeKept DEF OrderlyInv
  <1>2. CASE WriteRaiseFlag /\ Contained'
    <2>1. /\ wpc = "flag" /\ wpc' = "full" /\ overflow_flag' = TRUE /\ rpc' = rpc /\ rpc = "idle"
          /\ UNCHANGED <<data, write_pos, buffered, w_n, private, r_floats, r_buf, r_out, r_take,
                         dst, produced, heard, seen>>
      BY <1>2, <1>g DEF WriteRaiseFlag
    <2>2. /\ Uncopied' = 0 /\ Depth' = Depth /\ Newest' = Newest /\ Front' = Front
          /\ Gone' = Gone /\ Reached' = Reached
      BY <2>1 DEF Uncopied, Depth, Newest, Front, Gone, Reached, Counted
    <2>3. Counts' /\ Plans' /\ Places'
      BY <1>2, <1>f, <1>i, <2>1, <2>2 DEF Counts, Plans, Places, Snapping, Back
    <2> QED
      BY <1>f, <1>i, <1>r, <2>1, <2>2, <2>3, ContentsKept, PlayedKept, AgeKept DEF OrderlyInv
  <1>3. CASE WriteStoreFull /\ Contained'
    <2>1. /\ wpc = "full" /\ wpc' = "copy" /\ overflow_flag /\ buffered' = capacity
          /\ UNCHANGED <<data, write_pos, overflow_flag, w_n, private, rpc, r_floats, r_buf, r_out,
                         r_take, dst, produced, heard, seen>>
      BY <1>3, <1>i DEF WriteStoreFull, Counts
    <2>0. rpc = "idle"
      BY <1>g, <2>1
    <2>2. /\ Uncopied' = w_n /\ Depth' = Depth /\ Newest' = Newest /\ Front' = Front
          /\ Gone' = Gone /\ Reached' = Reached
      BY <1>f, <2>1 DEF Uncopied, Depth, Newest, Front, Gone, Reached, Counted
    <2>3. Counts' /\ Plans' /\ Places'
      BY <1>3, <1>f, <1>i, <2>0, <2>1, <2>2 DEF Counts, Plans, Places, Snapping, Back
    <2> QED
      BY <1>f, <1>i, <1>r, <2>1, <2>2, <2>3, ContentsKept, PlayedKept, AgeKept DEF OrderlyInv
  <1>4. CASE WriteFetchAdd /\ Contained'
    <2>1. /\ wpc = "add" /\ wpc' = "copy" /\ ~overflow_flag /\ buffered' = buffered + w_n
          /\ buffered + w_n <= capacity
          /\ UNCHANGED <<data, write_pos, overflow_flag, w_n, private, rpc, r_floats, r_buf, r_out,
                         r_take, dst, produced, heard, seen>>
      BY <1>4, <1>i DEF WriteFetchAdd, Counts
    <2>0. rpc \notin {"clear", "snap", "snap_buf"}
      BY <1>g, <2>1
    <2>2. /\ Uncopied = 0 /\ Uncopied' = w_n /\ Depth' = Depth /\ Newest' = Newest /\ Front' = Front
          /\ Gone' = Gone /\ Reached' = Reached
      BY <1>f, <2>1 DEF Uncopied, Depth, Newest, Front, Gone, Reached, Counted
    <2>3. Counts' /\ Plans'
      BY <1>4, <1>f, <1>i, <2>0, <2>1, <2>2 DEF Counts, Plans
    <2>4. Places'
      <3>1. buffered' - Uncopied' = buffered - Uncopied
        BY <1>f, <2>1, <2>2
      <3> QED BY <1>i, <2>0, <2>1, <3>1 DEF Places, Snapping, Back
    <2> QED
      BY <1>f, <1>i, <1>r, <2>1, <2>2, <2>3, <2>4, ContentsKept, PlayedKept, AgeKept DEF OrderlyInv
  <1>5. CASE WriteCopy /\ Contained'
    <2>1. /\ wpc = "copy" /\ wpc' = "store_wp"
          /\ data' = copy_to_ring(write_pos, produced - w_n + 1, w_n)
          /\ UNCHANGED <<write_pos, buffered, overflow_flag, w_n, private, rpc, r_floats, r_buf,
                         r_out, r_take, dst, produced, heard, seen>>
      BY <1>5 DEF WriteCopy
    <2>2. /\ Uncopied' = Uncopied /\ Uncopied = w_n /\ Gone' = Gone /\ Reached' = Reached
          /\ Newest = produced - w_n /\ Newest' = produced /\ Depth = buffered - w_n
          /\ Depth' = buffered /\ Front = write_pos /\ Front' = Advance(write_pos, w_n)
      BY <1>f, <2>1 DEF Uncopied, Depth, Newest, Front, Gone, Reached, Counted, Advance
    <2>3. Contents'
      <3> SUFFICES ASSUME NEW j \in 1 .. capacity, j <= buffered
                   PROVE  data'[Back(Advance(write_pos, w_n), j)] = produced + 1 - j
        BY <2>2 DEF Contents, Back
      <3>1. produced - w_n + 1 \in Nat
        BY <1>f
      <3>2. data'[Back(Advance(write_pos, w_n), j)] =
              IF j <= w_n THEN produced - w_n + 1 + (w_n - j) ELSE data[Back(write_pos, j - w_n)]
        <4>1. PICK first \in Nat : first = produced - w_n + 1
          BY <3>1
        <4>2. data \in [Slots -> Nat] /\ write_pos \in Slots /\ w_n \in 0 .. capacity
          BY <1>f
        <4>3. copy_to_ring(write_pos, first, w_n)[Back(Advance(write_pos, w_n), j)] =
                IF j <= w_n THEN first + (w_n - j) ELSE data[Back(write_pos, j - w_n)]
          BY <4>2, CopiedIn, Zenon
        <4> QED BY <2>1, <4>1, <4>3, Zenon
      <3>3. CASE j <= w_n
        BY <1>f, <3>2, <3>3
      <3>4. CASE ~(j <= w_n)
        <4>1. j - w_n \in 1 .. capacity /\ j - w_n <= Depth
          BY <1>f, <2>2, <3>4
        <4>2. data[Back(write_pos, j - w_n)] = Newest + 1 - (j - w_n)
          BY <1>i, <2>2, <4>1 DEF Contents
        <4> QED BY <1>f, <2>2, <3>2, <3>4, <4>2
      <3> QED BY <3>3, <3>4
    <2>4. Counts' /\ Plans' /\ Places'
      BY <1>5, <1>f, <1>i, <2>1, <2>2 DEF Counts, Plans, Places, Snapping, Back
    <2> QED
      BY <1>f, <1>i, <1>r, <2>1, <2>2, <2>3, <2>4, PlayedKept, AgeKept DEF OrderlyInv
  <1>6. CASE WriteStoreWritePos /\ Contained'
    <2>1. /\ wpc = "store_wp" /\ wpc' = "idle" /\ write_pos' = Advance(write_pos, w_n)
          /\ UNCHANGED <<data, buffered, overflow_flag, w_n, private, rpc, r_floats, r_buf, r_out,
                         r_take, dst, produced, heard, seen>>
      BY <1>6 DEF WriteStoreWritePos
    <2>0. rpc \notin {"clear", "snap", "snap_buf"}
      BY <1>g, <2>1
    <2>2. /\ Uncopied' = 0 /\ Uncopied = w_n /\ Depth' = Depth /\ Newest' = Newest /\ Front' = Front
          /\ Gone' = Gone /\ Reached' = Reached
      BY <1>f, <2>1 DEF Uncopied, Depth, Newest, Front, Gone, Reached, Counted
    <2>3. Counts' /\ Plans'
      BY <1>6, <1>f, <1>i, <2>0, <2>1, <2>2 DEF Counts, Plans
    <2>4. Places'
      <3>1. Back(Advance(write_pos, w_n), buffered) = Back(write_pos, buffered - w_n)
        BY <1>f, <2>2, BackAdvance
      <3>2. ~Snapping' => ~Snapping
        BY <2>1 DEF Snapping
      <3>3. ~Snapping' => read_pos' = Back(write_pos', buffered' - Uncopied')
        <4>1. buffered' - Uncopied' = buffered
          BY <1>f, <2>1, <2>2
        <4> QED BY <1>i, <2>1, <2>2, <3>1, <3>2, <4>1 DEF Places
      <3> QED BY <2>0, <2>1, <3>3 DEF Places, Back
    <2> QED
      BY <1>f, <1>i, <1>r, <2>1, <2>2, <2>3, <2>4, ContentsKept, PlayedKept, AgeKept DEF OrderlyInv
  <1>7. ASSUME NEW n \in ReadFloats, ReadBegin(n), Contained' PROVE OrderlyInv'
    <2>1. /\ rpc = "idle" /\ r_floats' = n /\ rpc' = IF overflow_flag THEN "clear" ELSE "load"
          /\ UNCHANGED <<data, write_pos, buffered, overflow_flag, wpc, w_n, private, r_buf, r_out,
                         r_take, dst, produced, heard, seen>>
      BY <1>7 DEF ReadBegin
    <2>2. /\ Uncopied' = Uncopied /\ Depth' = Depth /\ Newest' = Newest /\ Front' = Front
          /\ Gone' = Gone /\ Reached' = Reached
      BY <1>f, <2>1 DEF Uncopied, Depth, Newest, Front, Gone, Reached, Counted, Advance
    <2>3. Counts'
      BY <1>7, <1>i, <2>1, <2>2 DEF Counts
    <2>4. Plans'
      BY <1>i, <2>1 DEF Plans
    <2>5. Places'
      BY <1>i, <2>1, <2>2 DEF Places, Snapping, Back
    <2>6. Age'
      BY <2>1 DEF Age, AgeBounded
    <2> QED
      BY <1>f, <1>i, <1>r, <2>1, <2>2, <2>3, <2>4, <2>5, <2>6, ContentsKept, PlayedKept
      DEF OrderlyInv
  <1>8. CASE ReadClearFlag /\ Contained'
    <2>1. /\ rpc = "clear" /\ rpc' = "snap" /\ overflow_flag' = FALSE /\ wpc = "idle"
          /\ UNCHANGED <<data, write_pos, buffered, wpc, w_n, private, r_floats, r_buf, r_out,
                         r_take, dst, produced, heard, seen>>
      BY <1>8, <1>g DEF ReadClearFlag
    <2>2. /\ Uncopied' = Uncopied /\ Depth' = Depth /\ Newest' = Newest /\ Front' = Front
          /\ Gone' = Gone /\ Reached' = Reached
      BY <1>f, <2>1 DEF Uncopied, Depth, Newest, Front, Gone, Reached, Counted, Advance
    <2>3. Counts'
      BY <1>8, <1>i, <2>1, <2>2 DEF Counts
    <2>4. Plans' /\ Places' /\ Age'
      BY <1>i, <2>1 DEF Plans, Places, Snapping, Age, AgeBounded
    <2> QED
      BY <1>f, <1>i, <1>r, <2>1, <2>2, <2>3, <2>4, ContentsKept, PlayedKept DEF OrderlyInv
  <1>9. CASE ReadSnap /\ Contained'
    <2>1. /\ rpc = "snap" /\ rpc' = "snap_buf"
          /\ UNCHANGED <<data, write_pos, buffered, overflow_flag, wpc, w_n, r_floats, r_buf, r_out,
                         r_take, dst, produced, heard, seen>>
      BY <1>9 DEF ReadSnap
    <2>2. /\ Uncopied' = Uncopied /\ Depth' = Depth /\ Newest' = Newest /\ Front' = Front
          /\ Gone' = Gone /\ Reached' = Reached
      BY <1>f, <2>1 DEF Uncopied, Depth, Newest, Front, Gone, Reached, Counted, Advance
    <2>3. Counts'
      BY <1>9, <1>i, <2>1, <2>2 DEF Counts
    <2>4. Plans' /\ Age'
      BY <1>i, <2>1 DEF Plans, Age, AgeBounded
    <2>5. Places'
      <3>1. read_pos' = Back(write_pos, snap_floats)
        BY <1>9, <1>f, Sizes DEF ReadSnap, Back, Slots
      <3> QED BY <2>1, <3>1 DEF Places, Snapping, Back
    <2> QED
      BY <1>f, <1>i, <1>r, <2>1, <2>2, <2>3, <2>4, <2>5, ContentsKept, PlayedKept DEF OrderlyInv
  <1>10. CASE ReadSnapBuffered /\ Contained'
    <2>1. /\ rpc = "snap_buf" /\ rpc' = "load" /\ buffered' = snap_floats /\ wpc = "idle"
          /\ UNCHANGED <<data, write_pos, overflow_flag, wpc, w_n, private, r_floats, r_buf, r_out,
                         r_take, dst, produced, heard, seen>>
      BY <1>10, <1>g DEF ReadSnapBuffered
    <2>2. /\ Uncopied' = 0 /\ Uncopied = 0 /\ Newest' = Newest /\ Front' = Front
          /\ Depth' = snap_floats /\ Depth = capacity /\ Gone = produced - capacity
          /\ Gone' = produced - snap_floats /\ Reached = Gone + 0 /\ Reached' = Gone' + 0
          /\ ~overflow_flag /\ buffered = capacity
      BY <1>i, <2>1 DEF Uncopied, Depth, Newest, Front, Gone, Reached, Counted, Counts
    <2>3. Depth' \in Int /\ Depth' <= Depth /\ Gone' \in Int /\ Gone' >= Gone
      BY <1>f, <2>2, Sizes
    <2>4. Reached' \in Int /\ Reached' >= Reached /\ Gone' >= 0
      <3>1. Gone' + 0 \in Int /\ Gone' + 0 >= Gone + 0
        <4>1. Gone \in Int /\ 0 \in Int
          BY <1>f
        <4> QED BY <2>3, <4>1, SumGrows, Zenon
      <3>2. Gone' >= 0
        BY <1>r, <1>f, <2>3
      <3> QED BY <2>2, <3>1, <3>2, Zenon
    <2>5. Counts'
      BY <1>10, <1>i, <2>1, <2>2, Sizes DEF Counts
    <2>6. Plans' /\ Age'
      BY <1>i, <2>1 DEF Plans, Age, AgeBounded
    <2>7. Places'
      <3>1. buffered' - Uncopied' = snap_floats
        BY <2>1, <2>2, Sizes
      <3> QED BY <1>i, <2>1, <3>1 DEF Places, Back
    <2> QED
      BY <1>f, <1>i, <1>r, <2>1, <2>2, <2>3, <2>4, <2>5, <2>6, <2>7, ContentsKept, PlayedKept
      DEF OrderlyInv
  <1>11. CASE ReadFilling /\ Contained'
    <2>1. /\ rpc = "load" /\ rpc' = "idle"
          /\ UNCHANGED <<data, write_pos, buffered, overflow_flag, wpc, w_n, private, r_floats,
                         r_buf, r_out, r_take, dst, produced, heard, seen>>
      BY <1>11 DEF ReadFilling
    <2>2. /\ Uncopied' = Uncopied /\ Depth' = Depth /\ Newest' = Newest /\ Front' = Front
          /\ Gone' = Gone /\ Reached' = Reached
      BY <1>f, <2>1 DEF Uncopied, Depth, Newest, Front, Gone, Reached, Counted, Advance
    <2>3. Counts'
      BY <1>11, <1>i, <2>1, <2>2 DEF Counts
    <2>4. Plans' /\ Places' /\ Age'
      BY <1>i, <2>1, <2>2 DEF Plans, Places, Snapping, Back, Age, AgeBounded
    <2> QED
      BY <1>f, <1>i, <1>r, <2>1, <2>2, <2>3, <2>4, ContentsKept, PlayedKept DEF OrderlyInv
  <1>12. CASE ReadLoad /\ Contained'
    <2>1. /\ rpc = "load" /\ r_buf' = buffered /\ seen' = Counted
          /\ rpc' = IF Fill(buffered) > max_samples THEN "skip" ELSE "plan"
          /\ UNCHANGED <<data, write_pos, buffered, overflow_flag, wpc, w_n, read_pos, r_floats,
                         r_out, r_take, dst, produced, heard>>
      BY <1>12 DEF ReadLoad
    <2>2. /\ Uncopied' = Uncopied /\ Depth' = Depth /\ Newest' = Newest /\ Front' = Front
          /\ Gone' = Gone /\ Reached' = Reached
      BY <1>f, <2>1 DEF Uncopied, Depth, Newest, Front, Gone, Reached, Counted, Advance
    <2>3. Counts'
      BY <1>12, <1>i, <2>1, <2>2 DEF Counts
    <2>4. Plans' /\ Places'
      <3>1. rpc' = "skip" => snap_floats <= buffered
        <4>1. buffered \in Int /\ max_samples \in Int /\ num_channels \in Nat \ {0}
          BY <1>f, Sizes
        <4>2. buffered \div num_channels > max_samples => buffered > max_samples * num_channels
          BY <4>1, FillBounds, Zenon
        <4> QED BY <2>1, <4>1, <4>2, Sizes DEF Fill
      <3> QED BY <1>f, <1>i, <2>1, <2>2, <3>1 DEF Plans, Places, Snapping, Back
    <2>5. Age'
      <3>1. Gone' >= seen' - r_buf'
        <4>1. Gone = Counted - buffered
          BY <1>g, <2>1 DEF Gone, Snapping
        <4> QED BY <1>f, <2>1, <2>2, <4>1
      <3>2. rpc' = "plan" => r_buf' <= max_samples * num_channels
        <4>1. /\ buffered \in Int /\ max_samples + 1 \in Int /\ num_channels \in Nat \ {0}
              /\ buffered % num_channels = 0 /\ max_samples \in Int
          BY <1>f, Sizes DEF PositionsInv, Frames, Whole
        <4>2. buffered \div num_channels \in Int
          BY <4>1, Division, Zenon
        <4>3. buffered = num_channels * (buffered \div num_channels) + 0
          BY <4>1, Division, Zenon
        <4>4. ~(Fill(buffered) > max_samples) => buffered \div num_channels <= max_samples
          BY <4>1, <4>2 DEF Fill
        <4>5. buffered \div num_channels <= max_samples
                => (buffered \div num_channels) * num_channels <= max_samples * num_channels
          BY <4>1, <4>2, FloatsMonotone
        <4>6. ~(Fill(buffered) > max_samples) => buffered <= max_samples * num_channels
          BY <4>1, <4>2, <4>3, <4>4, <4>5
        <4> QED BY <2>1, <4>6
      <3>3. rpc' \in {"skip", "plan"}
        BY <2>1
      <3> QED BY <3>1, <3>2, <3>3 DEF Age, AgeBounded
    <2> QED
      BY <1>f, <1>i, <1>r, <2>1, <2>2, <2>3, <2>4, <2>5, ContentsKept, PlayedKept DEF OrderlyInv
  <1>13. CASE ReadSkip /\ Contained'
    <2> DEFINE d == r_buf - snap_floats
    <2>1. /\ rpc = "skip" /\ rpc' = "plan" /\ read_pos' = Advance(read_pos, d)
          /\ buffered' = buffered - d /\ r_buf' = snap_floats
          /\ UNCHANGED <<data, write_pos, overflow_flag, wpc, w_n, r_floats, r_out, r_take, dst,
                         produced, heard, seen>>
      BY <1>13 DEF ReadSkip
    <2>2. /\ r_buf <= buffered /\ snap_floats <= r_buf /\ snap_floats \in Nat /\ snap_floats <= capacity
          /\ Uncopied <= snap_floats
      <3>1. r_buf <= buffered /\ snap_floats <= r_buf /\ snap_floats \in Nat /\ snap_floats <= capacity
        BY <1>i, <2>1, Sizes DEF Plans
      <3>2. Uncopied <= snap_floats
        BY <1>f, <2>1, <3>1, BlockLeavesRoom, Sizes
      <3> QED BY <3>1, <3>2
    <2>3. ~Snapping /\ wpc \notin {"flag", "full"} /\ ~overflow_flag
      BY <1>g, <2>1 DEF Snapping
    <2>4. /\ d \in Nat /\ d <= buffered - Uncopied /\ buffered - d \in 0 .. capacity
          /\ buffered - d <= buffered /\ snap_floats <= buffered - d
      BY <1>f, <2>2
    <2>5. /\ Uncopied' = Uncopied /\ Newest' = Newest /\ Front' = Front
          /\ Gone = Counted - buffered /\ Gone' = Counted - (buffered - d)
          /\ Reached = Gone + 0 /\ Reached' = Gone' + 0
      BY <2>1, <2>3 DEF Uncopied, Newest, Front, Gone, Reached, Counted, Advance
    <2>6. Depth' \in Int /\ Depth' <= Depth
      <3>1. CASE wpc = "copy"
        <4>1. Depth' = (buffered - d) - w_n /\ Depth = buffered - w_n
          BY <2>1, <3>1, Zenon DEF Depth
        <4> QED BY <1>f, <2>4, <4>1
      <3>2. CASE wpc # "copy"
        <4>1. Depth' = buffered - d /\ Depth = buffered
          BY <2>1, <2>3, <3>2 DEF Depth
        <4> QED BY <1>f, <2>4, <4>1
      <3> QED BY <3>1, <3>2
    <2>7. Gone' \in Int /\ Gone' >= Gone /\ Gone' = Gone + d
      BY <1>f, <2>4, <2>5
    <2>8. Reached' \in Int /\ Reached' >= Reached /\ Gone' >= 0
      <3>1. Gone' + 0 \in Int /\ Gone' + 0 >= Gone + 0
        <4>1. Gone \in Int /\ 0 \in Int
          BY <1>f
        <4> QED BY <2>7, <4>1, SumGrows, Zenon
      <3>2. Gone' >= 0
        BY <1>r, <1>f, <2>7
      <3> QED BY <2>5, <3>1, <3>2, Zenon
    <2>9. Counts'
      BY <1>13, <1>f, <1>i, <2>1, <2>2, <2>3, <2>4, <2>5 DEF Counts
    <2>10. Plans'
      BY <1>i, <2>1, <2>4 DEF Plans
    <2>11. Places'
      <3>1. read_pos = Back(write_pos, buffered - Uncopied)
        BY <1>i, <2>3 DEF Places
      <3>2. buffered - Uncopied \in 0 .. capacity /\ d \in 0 .. (buffered - Uncopied)
        BY <1>f, <2>4
      <3>3. Advance(read_pos, d) = Back(write_pos, (buffered - Uncopied) - d)
        BY <1>f, <3>1, <3>2, AdvanceBack
      <3>4. buffered' - Uncopied' = (buffered - Uncopied) - d
        BY <1>f, <2>1, <2>4, <2>5
      <3> QED BY <2>1, <3>3, <3>4 DEF Places, Back
    <2>12. Age'
      <3>1. Gone >= seen - r_buf
        BY <1>i, <2>1 DEF Age
      <3>2. Gone + d >= seen - snap_floats
        BY <1>f, <2>2, <3>1
      <3> QED BY <2>1, <2>7, <3>2, Sizes DEF Age, AgeBounded
    <2> QED
      BY <1>f, <1>i, <1>r, <2>1, <2>5, <2>6, <2>7, <2>8, <2>9, <2>10, <2>11, <2>12, ContentsKept,
         PlayedKept DEF OrderlyInv
  <1>14. CASE ReadUnderrun /\ Contained'
    <2>1. /\ rpc = "plan" /\ rpc' = "idle"
          /\ UNCHANGED <<data, write_pos, buffered, overflow_flag, wpc, w_n, read_pos, r_floats,
                         r_buf, r_out, r_take, dst, produced, heard, seen>>
      BY <1>14 DEF ReadUnderrun
    <2>2. /\ Uncopied' = Uncopied /\ Depth' = Depth /\ Newest' = Newest /\ Front' = Front
          /\ Gone' = Gone /\ Reached' = Reached
      BY <1>f, <2>1 DEF Uncopied, Depth, Newest, Front, Gone, Reached, Counted, Advance
    <2>3. Counts'
      BY <1>14, <1>i, <2>1, <2>2 DEF Counts
    <2>4. Plans' /\ Places' /\ Age'
      BY <1>i, <2>1, <2>2 DEF Plans, Places, Snapping, Back, Age, AgeBounded
    <2> QED
      BY <1>f, <1>i, <1>r, <2>1, <2>2, <2>3, <2>4, ContentsKept, PlayedKept DEF OrderlyInv
  <1>15. CASE ReadPlan /\ Contained'
    <2>1. /\ rpc = "plan" /\ rpc' = "copy" /\ Fill(r_buf) >= min_samples
          /\ r_out' = Outputs(correction) /\ r_take' = Consumes(correction)
          /\ UNCHANGED <<data, write_pos, buffered, overflow_flag, wpc, w_n, read_pos, r_floats,
                         r_buf, dst, produced, heard, seen>>
      BY <1>15 DEF ReadPlan
    <2>2. /\ Uncopied' = Uncopied /\ Depth' = Depth /\ Newest' = Newest /\ Front' = Front
          /\ Gone' = Gone /\ Reached' = Reached
      BY <1>f, <2>1 DEF Uncopied, Depth, Newest, Front, Gone, Reached, Counted, Advance
    <2>3. Counts'
      BY <1>15, <1>i, <2>1, <2>2 DEF Counts
    <2>4. /\ r_floats \in 1 .. capacity /\ min_samples * num_channels \in Nat
          /\ Uncopied = 0 \/ r_floats + Uncopied + num_channels <= min_samples * num_channels
      BY <2>1, BlockLeavesRoom
    <2>5. /\ r_take' \in Nat /\ r_take' <= r_buf /\ r_take' <= r_floats + num_channels
          /\ r_out' \in 1 .. r_take' /\ r_buf >= min_samples * num_channels
      <3>1. correction \in {-1, 0, 1}
        BY DEF correction
      <3> QED BY <1>f, <2>1, <2>4, <3>1, PlanBounds
    <2>6. r_buf <= buffered
      BY <1>i, <2>1 DEF Plans
    <2>7. r_take' + Uncopied <= buffered
      <3>0. PICK t \in Nat : t = r_take'
        BY <2>5, Zenon
      <3>1. t <= r_buf /\ t <= r_floats + num_channels /\ r_buf >= min_samples * num_channels
        BY <2>5, <3>0, Zenon
      <3>2. CASE Uncopied = 0
        <4>1. t + Uncopied <= buffered
          BY <1>f, <2>6, <3>1, <3>2
        <4> QED BY <3>0, <4>1, Zenon
      <3>3. CASE r_floats + Uncopied + num_channels <= min_samples * num_channels
        <4>1. t + Uncopied <= buffered
          BY <1>f, <2>4, <2>6, <3>1, <3>3, Sizes
        <4> QED BY <3>0, <4>1, Zenon
      <3> QED BY <2>4, <3>2, <3>3
    <2>8. Plans' /\ Places'
      BY <1>i, <2>1, <2>2, <2>5, <2>7 DEF Plans, Places, Snapping, Back
    <2>9. Age'
      <3>1. Gone >= seen - r_buf /\ r_buf <= max_samples * num_channels
        BY <1>i, <2>1 DEF Age
      <3>2. Gone >= seen - max_samples * num_channels
        BY <1>f, <3>1, Sizes
      <3> QED BY <2>1, <2>2, <3>2 DEF Age, AgeBounded
    <2> QED
      BY <1>f, <1>i, <1>r, <2>1, <2>2, <2>3, <2>8, <2>9, ContentsKept, PlayedKept DEF OrderlyInv
  <1>16. CASE ReadCopy /\ Contained'
    <2>1. /\ rpc = "copy" /\ rpc' = "advance" /\ dst' = copy_from_ring(read_pos, r_out)
          /\ heard' = IF dst = <<>> THEN heard ELSE dst[Len(dst)]
          /\ UNCHANGED <<data, write_pos, buffered, overflow_flag, wpc, w_n, private, r_floats,
                         r_buf, r_out, r_take, produced, seen>>
      BY <1>16 DEF ReadCopy
    <2>2. /\ Uncopied' = Uncopied /\ Depth' = Depth /\ Newest' = Newest /\ Front' = Front
          /\ Gone' = Gone
      BY <1>f, <2>1 DEF Uncopied, Depth, Newest, Front, Gone, Counted, Advance
    <2>3. Counts'
      BY <1>16, <1>i, <2>1, <2>2 DEF Counts
    <2>4. Plans' /\ Places'
      BY <1>i, <2>1, <2>2 DEF Plans, Places, Snapping, Back
    <2>5. /\ r_take + Uncopied <= buffered /\ r_out \in 1 .. r_take /\ ~Snapping
      BY <1>g, <1>i, <2>1 DEF Plans
    <2>6. /\ dst' \in Seq(Nat) /\ Len(dst') = r_out
          /\ \A i \in 1 .. r_out : dst'[i] = data[Advance(read_pos, i - 1)]
      BY <1>f, <2>1, CopiedOut
    <2>7. \A i \in 1 .. r_out : dst'[i] = Gone + i
      <3> SUFFICES ASSUME NEW i \in 1 .. r_out PROVE dst'[i] = Gone + i
        OBVIOUS
      <3>1. i \in 1 .. (buffered - Uncopied)
        BY <1>f, <2>5
      <3>2. data[Advance(read_pos, i - 1)] = Gone + i
        BY <2>5, <3>1, NextSamples
      <3> QED BY <2>6, <3>2
    <2>8. /\ dst' # <<>> /\ 1 \in 1 .. r_out /\ r_out \in 1 .. r_out
      BY <1>f, <2>5, <2>6
    <2>9. dst'[1] = Gone + 1 /\ dst'[Len(dst')] = Gone + r_out
      BY <2>6, <2>7, <2>8, Zenon
    <2>10. heard' \in Int /\ heard' <= Gone
      <3>1. CASE dst = <<>>
        <4>1. heard' = heard /\ heard = 0
          BY <1>i, <2>1, <3>1 DEF Played
        <4> QED BY <1>r, <1>f, <4>1
      <3>2. CASE dst # <<>>
        <4>1. heard' = dst[Len(dst)] /\ dst[Len(dst)] <= Reached
          BY <1>i, <2>1, <3>2 DEF Played
        <4>2. Reached = Gone + 0 /\ dst[Len(dst)] \in Int
          BY <1>f, <2>1, <3>2 DEF Reached
        <4>3. Reached = Gone
          BY <1>f, <4>2
        <4> QED BY <1>f, <4>1, <4>2, <4>3
      <3> QED BY <3>1, <3>2
    <2>11. Played'
      <3>1. Gone' >= 0
        BY <1>r, <2>2
      <3>2. dst'[Len(dst')] <= Reached'
        <4>1. Reached' = Gone + r_take
          BY <2>1, <2>2, Zenon DEF Reached
        <4>2. Gone + r_out <= Gone + r_take
          BY <1>f, <2>5
        <4> QED BY <2>9, <4>1, <4>2, Zenon
      <3>3. InOrder'
        <4>1. dst'[1] > heard'
          BY <1>f, <2>9, <2>10
        <4>2. \A i \in 1 .. Len(dst') : dst'[i] = dst'[1] + i - 1
          BY <1>f, <2>6, <2>7, <2>9
        <4> QED BY <4>1, <4>2 DEF InOrder
      <3> QED BY <2>8, <3>1, <3>2, <3>3 DEF Played
    <2>12. Age'
      <3>1. Gone >= seen - max_samples * num_channels /\ max_samples * num_channels \in Int
        BY <1>i, <2>1, Sizes DEF Age
      <3>2. seen - (Gone + 1) < max_samples * num_channels
        BY <1>f, <3>1
      <3> QED BY <2>1, <2>8, <2>9, <3>2 DEF Age, AgeBounded
    <2> QED
      BY <1>f, <1>i, <2>1, <2>2, <2>3, <2>4, <2>11, <2>12, ContentsKept DEF OrderlyInv
  <1>17. CASE ReadAdvance /\ Contained'
    <2>1. /\ rpc = "advance" /\ rpc' = "idle" /\ read_pos' = Advance(read_pos, r_take)
          /\ buffered' = buffered - r_take
          /\ UNCHANGED <<data, write_pos, overflow_flag, wpc, w_n, r_floats, r_buf, r_out, r_take,
                         dst, produced, heard, seen>>
      BY <1>17 DEF ReadAdvance
    <2>2. r_take + Uncopied <= buffered
      BY <1>i, <2>1 DEF Plans
    <2>3. ~Snapping /\ wpc \notin {"flag", "full"} /\ ~overflow_flag
      BY <1>g, <2>1 DEF Snapping
    <2>4. /\ r_take <= buffered - Uncopied /\ buffered - r_take \in 0 .. capacity
          /\ Uncopied <= buffered - r_take
      BY <1>f, <2>2
    <2>5. /\ Uncopied' = Uncopied /\ Newest' = Newest /\ Front' = Front
          /\ Gone = Counted - buffered /\ Gone' = Counted - (buffered - r_take)
          /\ Reached = Gone + r_take /\ Reached' = Gone' + 0
      BY <2>1, <2>3 DEF Uncopied, Newest, Front, Gone, Reached, Counted, Advance
    <2>6. Depth' \in Int /\ Depth' <= Depth
      <3>1. CASE wpc = "copy"
        <4>1. Depth' = (buffered - r_take) - w_n /\ Depth = buffered - w_n
          BY <2>1, <3>1, Zenon DEF Depth
        <4> QED BY <1>f, <2>4, <4>1
      <3>2. CASE wpc # "copy"
        <4>1. Depth' = buffered - r_take /\ Depth = buffered
          BY <2>1, <2>3, <3>2 DEF Depth
        <4> QED BY <1>f, <2>4, <4>1
      <3> QED BY <3>1, <3>2
    <2>7. Gone' \in Int /\ Gone' >= 0 /\ Reached' = Reached
      <3>1. Gone' = Gone + r_take
        BY <1>f, <2>4, <2>5
      <3> QED BY <1>f, <1>r, <2>5, <3>1
    <2>8. Counts'
      BY <1>17, <1>f, <1>i, <2>1, <2>3, <2>4, <2>5 DEF Counts
    <2>9. Plans' /\ Age'
      BY <1>i, <2>1 DEF Plans, Age, AgeBounded
    <2>10. Places'
      <3>1. read_pos = Back(write_pos, buffered - Uncopied)
        BY <1>i, <2>3 DEF Places
      <3>2. buffered - Uncopied \in 0 .. capacity /\ r_take \in 0 .. (buffered - Uncopied)
        BY <1>f, <2>4
      <3>3. Advance(read_pos, r_take) = Back(write_pos, (buffered - Uncopied) - r_take)
        BY <1>f, <3>1, <3>2, AdvanceBack
      <3>4. buffered' - Uncopied' = (buffered - Uncopied) - r_take
        BY <1>f, <2>1, <2>4, <2>5
      <3> QED BY <2>1, <3>3, <3>4 DEF Places, Back
    <2> QED
      BY <1>f, <1>i, <1>r, <2>1, <2>5, <2>6, <2>7, <2>8, <2>9, <2>10, ContentsKept, PlayedKept
      DEF OrderlyInv
  <1>18. CASE UNCHANGED vars
    <2>1. /\ Uncopied' = Uncopied /\ Depth' = Depth /\ Newest' = Newest /\ Front' = Front
          /\ Gone' = Gone /\ Reached' = Reached
      BY <1>18 DEF vars, Uncopied, Depth, Newest, Front, Gone, Reached, Counted, Advance
    <2>2. Counts' /\ Plans' /\ Places'
      BY <1>18, <1>i, <2>1 DEF vars, Counts, Contained, Plans, Places, Snapping, Back
    <2>3. Age'
      BY <1>18, <1>i, <2>1 DEF vars, Age, AgeBounded
    <2> QED
      BY <1>18, <1>f, <1>i, <1>r, <2>1, <2>2, <2>3, ContentsKept, PlayedKept DEF vars, OrderlyInv
  <1> QED
    BY <1>1, <1>2, <1>3, <1>4, <1>5, <1>6, <1>7, <1>8, <1>9, <1>10, <1>11, <1>12, <1>13, <1>14,
       <1>15, <1>16, <1>17, <1>18 DEF OrderlyNext, Next, Writer, Reader

\* An orderly step is a step of the buffer.
LEMMA OrderlyPositions == OrderlySpec => []PositionsInv
  <1>1. [OrderlyNext]_vars => [Next]_vars
    BY DEF OrderlyNext
  <1> QED BY <1>1, PositionsInit, PositionsStep, PTL DEF OrderlySpec

\* The invariant of the orderly buffer: at every atomic access the counts, the positions
\* and the samples in data_ agree, and what is played lies behind what is left.
THEOREM OrderlyInvariant ==
    ASSUME Roomy
    PROVE  OrderlySpec => []OrderlyInv
  <1>1. PositionsInv /\ PositionsInv' /\ OrderlyInv /\ [OrderlyNext]_vars => OrderlyInv'
    BY OrderlyStep
  <1> QED BY <1>1, OrderlyPositions, OrderlyInit, PTL DEF OrderlySpec

\* If a read, a block and a sample fit in the minimum latency, and overflows and snaps
\* meet no operation of the other thread, write() and read() never touch the same slot
\* of data_ at the same time, although write() counts a block before it copies it in.
THEOREM OrderlyNoDataRace ==
    ASSUME Roomy
    PROVE  OrderlySpec => []NoDataRace
  <1>1. PositionsInv /\ OrderlyInv => NoDataRace
    <2> SUFFICES ASSUME PositionsInv, OrderlyInv, wpc = "copy", rpc = "copy",
                        NEW i \in 0 .. w_n - 1, NEW j \in 0 .. r_out - 1
                 PROVE  Advance(write_pos, i) # Advance(read_pos, j)
      BY DEF NoDataRace, Span
    <2>1. /\ write_pos \in Slots /\ capacity \in Nat \ {0} /\ buffered \in 0 .. capacity
          /\ w_n \in 0 .. capacity /\ r_take \in Nat /\ ~Snapping /\ Uncopied = w_n
          /\ w_n <= buffered
      BY OrderlyFacts DEF Uncopied
    <2>2. /\ r_take + w_n <= buffered /\ r_out \in 1 .. r_take
          /\ read_pos = Back(write_pos, buffered - w_n)
      BY <2>1 DEF OrderlyInv, Plans, Places
    <2>3. Advance(write_pos, i) =
            IF write_pos + i >= capacity THEN write_pos + i - capacity ELSE write_pos + i
      BY <2>1, AdvanceIs
    <2>4. Advance(read_pos, j) = Back(write_pos, (buffered - w_n) - j)
      <3>1. buffered - w_n \in 0 .. capacity /\ j \in 0 .. (buffered - w_n)
        BY <2>1, <2>2
      <3> QED BY <2>1, <2>2, <3>1, AdvanceBack
    <2> QED BY <2>1, <2>2, <2>3, <2>4 DEF Back, Slots
  <1> QED BY <1>1, OrderlyPositions, OrderlyInvariant, PTL

\* Between operations the buffer holds the newest samples received, in order.
THEOREM OrderlyHoldsNewest ==
    ASSUME Roomy
    PROVE  OrderlySpec => []HoldsNewest
  <1>1. PositionsInv /\ OrderlyInv => HoldsNewest
    <2> SUFFICES ASSUME PositionsInv, OrderlyInv, wpc = "idle", rpc = "idle", ~overflow_flag
                 PROVE  /\ Advance(read_pos, buffered) = write_pos
                        /\ copy_from_ring(read_pos, buffered)
                             = [i \in 1 .. buffered |-> produced - buffered + i]
      BY DEF HoldsNewest, Quiescent
    <2>1. /\ write_pos \in Slots /\ read_pos \in Slots /\ data \in [Slots -> Nat]
          /\ capacity \in Nat \ {0} /\ buffered \in 0 .. capacity /\ produced \in Nat
      BY OrderlyFacts
    <2>2. ~Snapping /\ Uncopied = 0 /\ Gone = produced - buffered /\ buffered - Uncopied = buffered
      BY <2>1 DEF Snapping, Uncopied, Gone, Counted
    <2>3. Advance(read_pos, buffered) = write_pos
      <3>1. read_pos = Back(write_pos, buffered)
        BY <2>2 DEF OrderlyInv, Places
      <3>2. Advance(Back(write_pos, buffered), buffered) = Back(write_pos, buffered - buffered)
        BY <2>1, AdvanceBack
      <3> QED BY <2>1, <3>1, <3>2, BackFacts
    <2>4. ASSUME NEW i \in 1 .. buffered
          PROVE  copy_from_ring(read_pos, buffered)[i] = produced - buffered + i
      <3>1. data[Advance(read_pos, i - 1)] = Gone + i
        BY <2>2, NextSamples
      <3> QED BY <2>1, <2>2, <3>1, CopiedOut
    <2>5. copy_from_ring(read_pos, buffered) \in [1 .. buffered -> Nat]
      BY <2>1, Sizes DEF copy_from_ring, Slots
    <2> QED BY <2>3, <2>4, <2>5
  <1> QED BY <1>1, OrderlyPositions, OrderlyInvariant, PTL

\* read() returns consecutive samples, all of them newer than what it returned before:
\* a snap, a skip or a drift correction never goes back.
THEOREM OrderlyInOrder ==
    ASSUME Roomy
    PROVE  OrderlySpec => []InOrder
  <1>1. OrderlyInv => InOrder
    BY DEF OrderlyInv, Played
  <1> QED BY <1>1, OrderlyInvariant, PTL

\* The audio read() returns is never older than max_latency_ms.
THEOREM OrderlyAgeBounded ==
    ASSUME Roomy
    PROVE  OrderlySpec => []AgeBounded
  <1>1. OrderlyInv => AgeBounded
    BY DEF OrderlyInv, Age
  <1> QED BY <1>1, OrderlyInvariant, PTL
=============================================================================
