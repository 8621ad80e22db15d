----------------------------- MODULE RingBuffer -----------------------------
(***************************************************************************)
(* The outbound audio ring (ring_buffer.cpp) at the granularity of its     *)
(* atomic accesses.  The real-time thread runs write(); the session thread *)
(* runs read() and, from attempt_reconnect() and disconnect(), flush().    *)
(* Counts are in floats, positions index data_, and the unsigned 32-bit    *)
(* arithmetic is modulo Word.  A sample is named by its position in the    *)
(* producer's stream (0 is the silence data_ starts with).                 *)
(***************************************************************************)
EXTENDS Integers, Sequences

CONSTANTS
    CapacityFrames,  \* capacity_frames_
    Channels,        \* channels_
    Word,            \* 2^32 in the code
    WriteFrames,     \* frame counts the real-time thread may pass to write()
    ReadFrames,      \* frame counts the session thread may pass to read()
    MaxSamples       \* bound: how many samples the producer ever supplies

Capacity == CapacityFrames * Channels  \* capacity_floats_

ASSUME SizeAssumption ==
    /\ CapacityFrames \in Nat \ {0}
    /\ Channels \in Nat \ {0}
    /\ Word \in Nat
    /\ Word > 2 * Capacity
    /\ MaxSamples \in Nat

ASSUME FramesAssumption ==
    /\ WriteFrames \subseteq Nat
    /\ ReadFrames \subseteq Nat
    /\ \A n \in WriteFrames : n * Channels \in 1..(Word - 1)
    /\ \A n \in ReadFrames : n * Channels \in 1..Capacity

VARIABLES
    data,       \* data_
    write_pos,  \* write_pos_
    read_pos,   \* read_pos_
    buffered,   \* buffered_
    wpc,        \* where the writer is in write(), and its locals:
    w_total,    \*   the floats of the block it was given
    w_floats,   \*   floats, the ones of them it keeps
    w_buf,      \*   buf
    w_rp,       \*   rp
    rpc,        \* where the reader is in read() or flush(), and its locals:
    r_floats,   \*   floats_to_read
    r_rp,       \*   rp; in flush() the write position it loaded
    dst,        \*   its destination buffer
    produced,   \* history: samples handed to completed writes
    gone,       \* history: the newest sample read, flushed or dropped so far
    out         \* history: the block the last completed read() returned

ring    == <<data, write_pos, read_pos, buffered>>
writer  == <<wpc, w_total, w_floats, w_buf, w_rp>>
reader  == <<rpc, r_floats, r_rp, dst>>
history == <<produced, gone, out>>
vars    == <<ring, writer, reader, history>>

Slots == 0..(Capacity - 1)

Add(a, b) == (a + b) % Word
Sub(a, b) == (a - b) % Word
Advance(pos, n) == Add(pos, n) % Capacity

\* The slots a copy of n floats at pos touches.
Span(pos, n) == {Advance(pos, i) : i \in 0..(n - 1)}

\* Mutation: the second memcpy of a wrapping copy is left out.
copy_to_ring_OneChunk(pos, first, n) ==
    [s \in Slots |-> IF s >= pos /\ s - pos < n THEN first + (s - pos) ELSE data[s]]

\* data_ after n consecutive samples from `first` on are copied in at pos: one
\* chunk up to the end of data_, the rest from its start.
copy_to_ring(pos, first, n) ==
    [s \in Slots |->
        LET offset == IF s >= pos THEN s - pos ELSE s + (Capacity - pos)
        IN  IF offset < n THEN first + offset ELSE data[s]]

copy_from_ring(pos, n) ==
    LET remain == Capacity - pos
    IN  [i \in 1..n |-> IF i <= remain THEN data[pos + i - 1] ELSE data[i - remain - 1]]

Init ==
    /\ data = [s \in Slots |-> 0]
    /\ write_pos = 0 /\ read_pos = 0 /\ buffered = 0
    /\ wpc = "idle" /\ w_total = 0 /\ w_floats = 0 /\ w_buf = 0 /\ w_rp = 0
    /\ rpc = "idle" /\ r_floats = 0 /\ r_rp = 0 /\ dst = <<>>
    /\ produced = 0 /\ gone = 0 /\ out = <<>>

----------------------------------------------------------------------------
(* write(): the real-time thread *)

\* Mutation: a block larger than the ring is not cut to its tail.
Kept_Everything(n) == n * Channels

\* Only the tail of a block larger than the ring is kept.
Kept(n) == IF n * Channels > Capacity THEN Capacity ELSE n * Channels

\* Mutation: off by one frame in the test that decides to evict.
Overflows_OffByOne(buf, floats) == Add(buf, floats) > Capacity + Channels

Overflows(buf, floats) == Add(buf, floats) > Capacity

WriteBegin(n) ==
    /\ wpc = "idle"
    /\ produced + n * Channels <= MaxSamples
    /\ w_total' = n * Channels
    /\ w_floats' = Kept(n)
    /\ w_buf' = buffered
    /\ wpc' = IF Overflows(buffered, Kept(n)) THEN "load_rp" ELSE "copy"
    /\ UNCHANGED <<ring, w_rp, reader, history>>

Excess == Sub(Add(w_buf, w_floats), Capacity)

WriteLoadReadPos ==
    /\ wpc = "load_rp"
    /\ w_rp' = read_pos
    /\ wpc' = "store_rp"
    /\ UNCHANGED <<ring, w_total, w_floats, w_buf, reader, history>>

\* Mutation: the advanced position is stored without the wrap.
WriteStoreReadPos_NoWrap ==
    /\ wpc = "store_rp"
    /\ read_pos' = Add(w_rp, Excess)
    /\ wpc' = "sub"
    /\ UNCHANGED <<data, write_pos, buffered, w_total, w_floats, w_buf, w_rp, reader, history>>

WriteStoreReadPos ==
    /\ wpc = "store_rp"
    /\ read_pos' = Advance(w_rp, Excess)
    /\ wpc' = "sub"
    /\ UNCHANGED <<data, write_pos, buffered, w_total, w_floats, w_buf, w_rp, reader, history>>

\* Mutation: room is made for the whole block instead of for what does not fit.
WriteFetchSub_WholeBlock ==
    /\ wpc = "sub"
    /\ buffered' = Sub(buffered, w_floats)
    /\ gone' = gone + Excess
    /\ wpc' = "copy"
    /\ UNCHANGED <<data, write_pos, read_pos, w_total, w_floats, w_buf, w_rp, reader,
                   produced, out>>

\* Mutation: one float too many is subtracted, which splits a frame.
WriteFetchSub_OffByOne ==
    /\ wpc = "sub"
    /\ buffered' = Sub(buffered, Excess + 1)
    /\ gone' = gone + Excess
    /\ wpc' = "copy"
    /\ UNCHANGED <<data, write_pos, read_pos, w_total, w_floats, w_buf, w_rp, reader,
                   produced, out>>

WriteFetchSub ==
    /\ wpc = "sub"
    /\ buffered' = Sub(buffered, Excess)
    /\ gone' = gone + Excess
    /\ wpc' = "copy"
    /\ UNCHANGED <<data, write_pos, read_pos, w_total, w_floats, w_buf, w_rp, reader,
                   produced, out>>

\* The memcpy lasts from the step that enters "copy" to this one; the slots it
\* writes belong to the writer for that time.
WriteCopy ==
    /\ wpc = "copy"
    /\ data' = copy_to_ring(write_pos, produced + w_total - w_floats + 1, w_floats)
    /\ wpc' = "store_wp"
    /\ UNCHANGED <<write_pos, read_pos, buffered, w_total, w_floats, w_buf, w_rp, reader, history>>

WriteStoreWritePos ==
    /\ wpc = "store_wp"
    /\ write_pos' = Advance(write_pos, w_floats)
    /\ wpc' = "add"
    /\ UNCHANGED <<data, read_pos, buffered, w_total, w_floats, w_buf, w_rp, reader, history>>

WriteFetchAdd ==
    /\ wpc = "add"
    /\ buffered' = Add(buffered, w_floats)
    /\ produced' = produced + w_total
    /\ gone' = gone + (w_total - w_floats)
    /\ wpc' = "idle"
    /\ UNCHANGED <<data, write_pos, read_pos, w_total, w_floats, w_buf, w_rp, reader, out>>

----------------------------------------------------------------------------
(* read(): the session thread *)

\* Mutation: the request is not limited to what is buffered.
ReadBegin_NoMin(n) ==
    /\ rpc = "idle"
    /\ buffered > 0
    /\ r_floats' = n * Channels
    /\ rpc' = "load_rp"
    /\ UNCHANGED <<ring, writer, r_rp, dst, history>>

\* A read of an empty ring returns 0 and changes nothing.
ReadBegin(n) ==
    /\ rpc = "idle"
    /\ buffered > 0
    /\ r_floats' = IF n * Channels < buffered THEN n * Channels ELSE buffered
    /\ rpc' = "load_rp"
    /\ UNCHANGED <<ring, writer, r_rp, dst, history>>

\* Mutation: the space is released before the copy, so a write may reuse it.
ReadLoadReadPos_EarlyRelease ==
    /\ rpc = "load_rp"
    /\ r_rp' = read_pos
    /\ buffered' = Sub(buffered, r_floats)
    /\ rpc' = "copy"
    /\ UNCHANGED <<data, write_pos, read_pos, writer, r_floats, dst, history>>

ReadLoadReadPos ==
    /\ rpc = "load_rp"
    /\ r_rp' = read_pos
    /\ rpc' = "copy"
    /\ UNCHANGED <<ring, writer, r_floats, dst, history>>

ReadCopy ==
    /\ rpc = "copy"
    /\ dst' = copy_from_ring(r_rp, r_floats)
    /\ rpc' = "store_rp"
    /\ UNCHANGED <<ring, writer, r_floats, r_rp, history>>

ReadStoreReadPos ==
    /\ rpc = "store_rp"
    /\ read_pos' = Advance(r_rp, r_floats)
    /\ rpc' = "sub"
    /\ UNCHANGED <<data, write_pos, buffered, writer, r_floats, r_rp, dst, history>>

ReadFetchSub ==
    /\ rpc = "sub"
    /\ buffered' = Sub(buffered, r_floats)
    /\ out' = dst
    /\ gone' = dst[r_floats]
    /\ rpc' = "idle"
    /\ UNCHANGED <<data, write_pos, read_pos, writer, r_floats, r_rp, dst, produced>>

----------------------------------------------------------------------------
(* flush(): on the session thread *)

FlushBegin ==
    /\ rpc = "idle"
    /\ r_rp' = write_pos
    /\ rpc' = "flush_rp"
    /\ UNCHANGED <<ring, writer, r_floats, dst, history>>

FlushStoreReadPos ==
    /\ rpc = "flush_rp"
    /\ read_pos' = r_rp
    /\ gone' = produced
    /\ rpc' = "flush_buf"
    /\ UNCHANGED <<data, write_pos, buffered, writer, r_floats, r_rp, dst, produced, out>>

FlushStoreBuffered ==
    /\ rpc = "flush_buf"
    /\ buffered' = 0
    /\ rpc' = "idle"
    /\ UNCHANGED <<data, write_pos, read_pos, writer, r_floats, r_rp, dst, history>>

----------------------------------------------------------------------------
Writer ==
    \/ \E n \in WriteFrames : WriteBegin(n)
    \/ WriteLoadReadPos \/ WriteStoreReadPos \/ WriteFetchSub
    \/ WriteCopy \/ WriteStoreWritePos \/ WriteFetchAdd

Reader ==
    \/ \E n \in ReadFrames : ReadBegin(n)
    \/ ReadLoadReadPos \/ ReadCopy \/ ReadStoreReadPos \/ ReadFetchSub

Flush == FlushBegin \/ FlushStoreReadPos \/ FlushStoreBuffered

\* Everything SessionManager lets happen: the three run concurrently, and the
\* writer does not ask how much room there is.
Next == Writer \/ Reader \/ Flush
Spec == Init /\ [][Next]_vars

\* A write that makes room moves the reader's position; flush() takes what the
\* writer is adding to.
Evicting == wpc \in {"load_rp", "store_rp", "sub"}
Flushing == rpc \in {"flush_rp", "flush_buf"}

\* What the ring withstands: concurrent write() and read(), as long as a write
\* that overflows meets no operation of the session thread and a flush no write.
Contained ==
    /\ Evicting => rpc = "idle"
    /\ Flushing => wpc = "idle"

OrderlyNext == Next /\ Contained'
OrderlySpec == Init /\ [][OrderlyNext]_vars

\* write() and read() alone, the use the header promises.
SpscSpec == Init /\ [][Writer \/ Reader]_vars

\* An orderly ring that is flushed while the real-time thread writes, as in
\* attempt_reconnect().
FlushRaceSpec == Init /\ [][Next /\ (Evicting => rpc = "idle")']_vars

----------------------------------------------------------------------------
\* Positions stay inside data_ and counts inside their word at every atomic access,
\* and each thread's locals are those of the operation it is in.
TypeOK ==
    /\ data \in [Slots -> Nat]
    /\ write_pos \in Slots
    /\ read_pos \in Slots
    /\ buffered \in 0..(Word - 1)
    /\ wpc \in {"idle", "load_rp", "store_rp", "sub", "copy", "store_wp", "add"}
    /\ w_total \in Nat /\ w_floats \in 0..Capacity /\ w_buf \in 0..(Word - 1) /\ w_rp \in Slots
    /\ rpc \in {"idle", "load_rp", "copy", "store_rp", "sub", "flush_rp", "flush_buf"}
    /\ r_floats \in 0..Capacity /\ r_rp \in Slots
    /\ dst \in Seq(Nat) /\ out \in Seq(Nat)
    /\ produced \in Nat /\ gone \in Nat
    /\ w_floats <= w_total
    /\ rpc \in {"load_rp", "copy", "store_rp", "sub"} => r_floats > 0
    /\ rpc \in {"store_rp", "sub"} => dst \in [1..r_floats -> Nat]

\* Memory safety of copy_to_ring and copy_from_ring: whatever the interleaving,
\* both chunks of both copies stay inside data_, even after an overflow that
\* races a read has made buffered_ wrap around.
Chunks(pos, n) ==
    LET remain == Capacity - pos
    IN  /\ pos + (IF n <= remain THEN n ELSE remain) <= Capacity
        /\ n > remain => n - remain <= Capacity

CopiesInBounds ==
    /\ wpc = "copy" => write_pos \in Slots /\ Chunks(write_pos, w_floats)
    /\ rpc = "copy" => r_rp \in Slots /\ Chunks(r_rp, r_floats)

\* The interleaved channels never slip: every position and count is a whole
\* number of frames, in every interleaving.
FrameAligned ==
    \A x \in {write_pos, read_pos, buffered, r_floats, w_floats} : x % Channels = 0

\* write() and read() are never inside the same slot of data_ at the same time.
NoDataRace ==
    wpc = "copy" /\ rpc = "copy" =>
        Span(write_pos, w_floats) \cap Span(r_rp, r_floats) = {}

Quiescent == wpc = "idle" /\ rpc = "idle"

\* Between operations the three indices of the ring agree: buffered_ floats lie
\* between read_pos_ and write_pos_.
QuiescentSync ==
    Quiescent => buffered <= Capacity /\ Advance(read_pos, buffered) = write_pos

\* A block that read() returns is exactly the samples that follow the ones that
\* were read, flushed or dropped before: none skipped, torn or repeated.
InOrder ==
    rpc \in {"store_rp", "sub"} => dst = [i \in 1..r_floats |-> gone + i]

\* "Discard all buffered data" (flush()): what was written before a flush is not
\* read after it.  It does not hold when the flush falls between the position and
\* the count of a write: buffered_ then counts floats at a read_pos_ that has
\* already passed them, and read() returns what lies there from before.
FlushDiscards ==
    rpc \in {"store_rp", "sub"} => \A i \in 1..r_floats : dst[i] = 0 \/ dst[i] > gone

----------------------------------------------------------------------------
(* Why an orderly ring is safe: the inductive invariant behind NoDataRace,  *)
(* QuiescentSync and InOrder.                                               *)

\* The oldest sample not yet released: read_pos_ is stored before the space is
\* released, by read() and by a write that makes room.
Front == IF rpc = "sub" THEN r_rp ELSE IF wpc = "sub" THEN w_rp ELSE read_pos

\* How many samples the ring holds from Front on: flush() gives them up before it
\* resets the count ...
Count == IF rpc = "flush_buf" THEN 0 ELSE buffered

\* ... and a write has copied more in than it has counted.
Filled == IF wpc \in {"store_wp", "add"} THEN Count + w_floats ELSE Count

Wrap(pos) == IF pos >= Capacity THEN pos - Capacity ELSE pos

\* The head of a block larger than the ring, which is never copied in.
Cut == IF wpc \in {"store_wp", "add"} THEN w_total - w_floats ELSE 0

Shape ==
    /\ Contained
    /\ buffered <= Capacity
    /\ w_floats < w_total => w_floats = Capacity
    /\ wpc \in {"copy", "store_wp", "add"} => buffered + w_floats <= Capacity
    /\ Evicting => w_buf = buffered /\ buffered + w_floats > Capacity
    /\ rpc \in {"load_rp", "copy", "store_rp", "sub"} => r_floats <= buffered

Positions ==
    /\ write_pos = Wrap(Front + (IF wpc = "add" THEN Count + w_floats ELSE Count))
    /\ rpc \in {"copy", "store_rp"} => r_rp = read_pos
    /\ rpc = "sub" => read_pos = Wrap(r_rp + r_floats)
    /\ rpc = "flush_rp" => r_rp = write_pos
    /\ wpc = "store_rp" => w_rp = read_pos
    /\ wpc = "sub" => read_pos = Wrap(w_rp + (buffered + w_floats - Capacity))
    /\ produced = gone + Count

Contents ==
    \A i \in 0..(Capacity - 1) : i < Filled => data[Wrap(Front + i)] = gone + Cut + 1 + i

CopiedOut ==
    rpc \in {"store_rp", "sub"} => \A i \in 1..r_floats : dst[i] = gone + i

OrderlyInv == Shape /\ Positions /\ Contents /\ CopiedOut

----------------------------------------------------------------------------
(* Refinement: the queue the ring implements.  A read takes effect at its   *)
(* fetch_sub, a write at its fetch_add, a flush when it stores read_pos_.   *)
Held == copy_from_ring(Front, Count)

Queue == INSTANCE AudioQueue WITH
    MaxBlock <- Word - 1,
    queue   <- Held,
    written <- produced,
    pending <- IF wpc = "idle" THEN 0 ELSE w_total,
    block   <- out

\* Every behaviour of an orderly ring is a behaviour of the bounded audio queue.
ImplementsQueue == Queue!Spec
=============================================================================
