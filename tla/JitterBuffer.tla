---------------------------- MODULE JitterBuffer ----------------------------
(***************************************************************************)
(* The inbound jitter buffer (jitter_buffer.cpp) at the granularity of its *)
(* atomic accesses.  An msquic worker decodes datagrams and runs write();  *)
(* the host's real-time thread runs read().  Counts and positions are in   *)
(* floats, the zone boundaries in samples per channel.  A sample is named  *)
(* by its position in the sender's stream (0 is the initial silence).      *)
(* The statistics, which nothing but get_stats() reads, are left out.      *)
(***************************************************************************)
EXTENDS Integers, Sequences

CONSTANTS
    \* JitterBufferConfig
    sample_rate, num_channels, target_latency_ms, target_window_ms, min_latency_ms,
    max_latency_ms, capacity_ms, correction_interval,
    Word,         \* 2^32 in the code
    WriteFloats,  \* float counts the decoder may pass to write()
    ReadFloats,   \* float counts the real-time thread may pass to read()
    MaxSamples    \* bound: how many samples the sender ever supplies

----------------------------------------------------------------------------
(* The constructor *)

ms_to_samples(ms) == ((ms * sample_rate) % Word) \div 1000

HalfWindow == target_window_ms \div 2

capacity      == ms_to_samples(capacity_ms) * num_channels
target_low    == ms_to_samples((target_latency_ms - HalfWindow) % Word)
target_high   == ms_to_samples((target_latency_ms + HalfWindow) % Word)
target_centre == ms_to_samples(target_latency_ms)
min_samples   == ms_to_samples(min_latency_ms)
max_samples   == ms_to_samples(max_latency_ms)

snap_floats == target_centre * num_channels

ASSUME TypeAssumption ==
    /\ \A c \in {sample_rate, target_latency_ms, target_window_ms, min_latency_ms,
                 max_latency_ms, capacity_ms, MaxSamples} : c \in Nat
    /\ num_channels \in Nat \ {0}
    /\ correction_interval \in Nat \ {0}
    /\ Word \in Nat \ {0}
    /\ WriteFloats \subseteq Nat \ {0}
    /\ ReadFloats \subseteq Nat \ {0}

\* The configurations SessionManager is meant for; the constructor checks none
\* of this.
ASSUME ZoneAssumption ==
    /\ {target_low, target_high, target_centre, min_samples, max_samples, capacity} \subseteq Nat
    /\ 0 < min_samples /\ min_samples <= target_low
    /\ target_low <= target_centre /\ target_centre <= target_high
    /\ target_high <= max_samples
    /\ max_samples * num_channels <= capacity
    /\ 2 * capacity < Word  \* buffered_ is an int32_t

\* read() and write() are called with whole frames.
ASSUME FrameAssumption ==
    /\ \A n \in WriteFloats : n % num_channels = 0
    /\ \A n \in ReadFloats : n % num_channels = 0 /\ n <= capacity

VARIABLES
    data,                \* data_
    write_pos,           \* write_pos_
    buffered,            \* buffered_
    overflow_flag,       \* overflow_flag_
    read_pos,            \* read_pos_
    state,               \* state_
    correction_counter,  \* correction_counter_
    wpc, w_n,            \* where the writer is in write(), and its n
    rpc,                 \* where the reader is in read(), and its locals:
    r_floats,            \*   float_count
    r_buf,               \*   buf
    r_out, r_take,       \*   floats copied to dst, floats consumed from the ring
    dst,                 \*   the audio of the last copy, without its padding
    produced,            \* history: samples handed to write() so far
    heard,               \* history: the newest sample of the copies before dst
    seen                 \* history: the newest sample that was counted when r_buf was loaded

ring    == <<data, write_pos, buffered, overflow_flag>>
writer  == <<wpc, w_n>>
private == <<read_pos, state, correction_counter>>
reader  == <<rpc, r_floats, r_buf, r_out, r_take>>
history == <<produced, heard, seen>>
vars    == <<ring, writer, private, reader, dst, history>>

Slots == 0 .. capacity - 1

Advance(pos, n) == (pos + n) % capacity

Span(pos, n) == {Advance(pos, i) : i \in 0 .. n - 1}

Least(a, b) == IF a < b THEN a ELSE b

\* data_ after n consecutive samples from `first` on are copied in at pos.
copy_to_ring(pos, first, n) ==
    [s \in Slots |->
        LET offset == IF s >= pos THEN s - pos ELSE s + (capacity - pos)
        IN  IF offset < n THEN first + offset ELSE data[s]]

copy_from_ring(pos, n) ==
    LET remain == capacity - pos
    IN  [i \in 1 .. n |-> IF i <= remain THEN data[pos + i - 1] ELSE data[i - remain - 1]]

Init ==
    /\ data = [s \in Slots |-> 0]
    /\ write_pos = 0 /\ buffered = 0 /\ overflow_flag = FALSE
    /\ read_pos = 0 /\ state = "Filling" /\ correction_counter = 0
    /\ wpc = "idle" /\ w_n = 0
    /\ rpc = "idle" /\ r_floats = 0 /\ r_buf = 0 /\ r_out = 0 /\ r_take = 0
    /\ dst = <<>> /\ produced = 0 /\ heard = 0 /\ seen = 0

----------------------------------------------------------------------------
(* write() *)

\* Of a block larger than the ring only the tail is kept; a block that does not
\* fit raises the overflow flag first.
WriteBegin(n) ==
    /\ wpc = "idle"
    /\ produced + n <= MaxSamples
    /\ produced' = produced + n
    /\ w_n' = Least(n, capacity)
    /\ wpc' = IF (buffered + Least(n, capacity)) % Word > capacity THEN "flag" ELSE "add"
    /\ UNCHANGED <<ring, private, reader, dst, heard, seen>>

\* Mutation: the flag that asks the reader to snap is not raised.
WriteRaiseFlag_Forgotten ==
    /\ wpc = "flag"
    /\ wpc' = "full"
    /\ UNCHANGED <<ring, w_n, private, reader, dst, history>>

WriteRaiseFlag ==
    /\ wpc = "flag"
    /\ overflow_flag' = TRUE
    /\ wpc' = "full"
    /\ UNCHANGED <<data, write_pos, buffered, w_n, private, reader, dst, history>>

WriteStoreFull ==
    /\ wpc = "full"
    /\ buffered' = capacity
    /\ wpc' = "copy"
    /\ UNCHANGED <<data, write_pos, overflow_flag, w_n, private, reader, dst, history>>

\* The block is counted before it is copied in.
WriteFetchAdd ==
    /\ wpc = "add"
    /\ buffered' = buffered + w_n
    /\ wpc' = "copy"
    /\ UNCHANGED <<data, write_pos, overflow_flag, w_n, private, reader, dst, history>>

WriteCopy ==
    /\ wpc = "copy"
    /\ data' = copy_to_ring(write_pos, produced - w_n + 1, w_n)
    /\ wpc' = "store_wp"
    /\ UNCHANGED <<write_pos, buffered, overflow_flag, w_n, private, reader, dst, history>>

WriteStoreWritePos ==
    /\ wpc = "store_wp"
    /\ write_pos' = Advance(write_pos, w_n)
    /\ wpc' = "idle"
    /\ UNCHANGED <<data, buffered, overflow_flag, w_n, private, reader, dst, history>>

----------------------------------------------------------------------------
(* read() *)

ReadBegin(n) ==
    /\ rpc = "idle"
    /\ r_floats' = n
    /\ rpc' = IF overflow_flag THEN "clear" ELSE "load"
    /\ UNCHANGED <<ring, writer, private, r_buf, r_out, r_take, dst, history>>

ReadClearFlag ==
    /\ rpc = "clear"
    /\ overflow_flag' = FALSE
    /\ rpc' = "snap"
    /\ UNCHANGED <<data, write_pos, buffered, writer, private, r_floats, r_buf, r_out, r_take,
                   dst, history>>

\* read_pos_ goes snap_floats behind the write position.
ReadSnap ==
    /\ rpc = "snap"
    /\ read_pos' = IF write_pos >= snap_floats THEN write_pos - snap_floats
                   ELSE capacity - (snap_floats - write_pos)
    /\ rpc' = "snap_buf"
    /\ UNCHANGED <<ring, writer, state, correction_counter, r_floats, r_buf, r_out, r_take,
                   dst, history>>

ReadSnapBuffered ==
    /\ rpc = "snap_buf"
    /\ buffered' = snap_floats
    /\ rpc' = "load"
    /\ UNCHANGED <<data, write_pos, overflow_flag, writer, private, r_floats, r_buf, r_out,
                   r_take, dst, history>>

Fill(buf) == buf \div num_channels

\* FILLING: silence until the target window is reached.
ReadFilling ==
    /\ rpc = "load"
    /\ state = "Filling" /\ Fill(buffered) < target_low
    /\ rpc' = "idle"
    /\ UNCHANGED <<ring, writer, private, r_floats, r_buf, r_out, r_take, dst, history>>

\* The newest sample that buffered_ counts.
Counted == IF wpc = "add" THEN produced - w_n ELSE produced

\* Mutation: the overrun test is left out.
ReadLoad_NoOverrun ==
    /\ rpc = "load"
    /\ state = "Playing" \/ Fill(buffered) >= target_low
    /\ r_buf' = buffered
    /\ state' = "Playing"
    /\ correction_counter' = IF state = "Filling" THEN 0 ELSE correction_counter
    /\ seen' = Counted
    /\ rpc' = "plan"
    /\ UNCHANGED <<ring, writer, read_pos, r_floats, r_out, r_take, dst, produced, heard>>

\* PLAYING, or FILLING that ends.
ReadLoad ==
    /\ rpc = "load"
    /\ state = "Playing" \/ Fill(buffered) >= target_low
    /\ r_buf' = buffered
    /\ state' = "Playing"
    /\ correction_counter' = IF state = "Filling" THEN 0 ELSE correction_counter
    /\ seen' = Counted
    /\ rpc' = IF Fill(buffered) > max_samples THEN "skip" ELSE "plan"
    /\ UNCHANGED <<ring, writer, read_pos, r_floats, r_out, r_take, dst, produced, heard>>

\* Mutation: the skipped samples stay counted.
ReadSkip_StillCounted ==
    /\ rpc = "skip"
    /\ read_pos' = Advance(read_pos, r_buf - snap_floats)
    /\ r_buf' = snap_floats
    /\ rpc' = "plan"
    /\ UNCHANGED <<ring, writer, state, correction_counter, r_floats, r_out, r_take, dst, history>>

\* Overrun: skip to the centre of the window.
ReadSkip ==
    /\ rpc = "skip"
    /\ read_pos' = Advance(read_pos, r_buf - snap_floats)
    /\ buffered' = buffered - (r_buf - snap_floats)
    /\ r_buf' = snap_floats
    /\ rpc' = "plan"
    /\ UNCHANGED <<data, write_pos, overflow_flag, writer, state, correction_counter, r_floats,
                   r_out, r_take, dst, history>>

ReadUnderrun ==
    /\ rpc = "plan"
    /\ Fill(r_buf) < min_samples
    /\ state' = "Filling"
    /\ rpc' = "idle"
    /\ UNCHANGED <<ring, writer, read_pos, correction_counter, r_floats, r_buf, r_out, r_take,
                   dst, history>>

Correcting == correction_counter + 1 >= correction_interval

\* Drift correction: outside the target window, every correction_interval reads,
\* one sample more or less is consumed.
correction ==
    CASE ~Correcting               -> 0
      [] Fill(r_buf) < target_low  -> -1
      [] Fill(r_buf) > target_high -> 1
      [] OTHER                     -> 0

\* Floats copied to dst: an insertion copies one sample less, but at least one.
Outputs(c) ==
    IF c < 0 /\ r_floats > num_channels THEN Least(r_floats - num_channels, r_buf)
    ELSE IF c < 0 THEN Least(num_channels, r_buf)
    ELSE Least(r_floats, r_buf)

\* Mutation: a dropped sample is one float, not one of every channel.
Consumes_OneFloat(c) == IF c > 0 THEN Least(r_floats + 1, r_buf) ELSE Outputs(c)

\* Mutation: an inserted sample is also taken off what is consumed.
Consumes_InsertRepeats(c) ==
    CASE c > 0 -> Least(r_floats + num_channels, r_buf)
      [] c < 0 -> Outputs(c) - num_channels
      [] OTHER -> Outputs(c)

Consumes(c) == IF c > 0 THEN Least(r_floats + num_channels, r_buf) ELSE Outputs(c)

\* Mutation: no minimum fill is asked for.
ReadPlan_NoMinimum ==
    /\ rpc = "plan"
    /\ correction_counter' = IF Correcting THEN 0 ELSE correction_counter + 1
    /\ r_out' = Outputs(correction)
    /\ r_take' = Consumes(correction)
    /\ rpc' = "copy"
    /\ UNCHANGED <<ring, writer, read_pos, state, r_floats, r_buf, dst, history>>

ReadPlan ==
    /\ rpc = "plan"
    /\ Fill(r_buf) >= min_samples
    /\ correction_counter' = IF Correcting THEN 0 ELSE correction_counter + 1
    /\ r_out' = Outputs(correction)
    /\ r_take' = Consumes(correction)
    /\ rpc' = "copy"
    /\ UNCHANGED <<ring, writer, read_pos, state, r_floats, r_buf, dst, history>>

ReadCopy ==
    /\ rpc = "copy"
    /\ dst' = copy_from_ring(read_pos, r_out)
    /\ heard' = IF dst = <<>> THEN heard ELSE dst[Len(dst)]
    /\ rpc' = "advance"
    /\ UNCHANGED <<ring, writer, private, r_floats, r_buf, r_out, r_take, produced, seen>>

ReadAdvance ==
    /\ rpc = "advance"
    /\ read_pos' = Advance(read_pos, r_take)
    /\ buffered' = buffered - r_take
    /\ rpc' = "idle"
    /\ UNCHANGED <<data, write_pos, overflow_flag, writer, state, correction_counter, r_floats,
                   r_buf, r_out, r_take, dst, history>>

----------------------------------------------------------------------------
Writer ==
    \/ \E n \in WriteFloats : WriteBegin(n)
    \/ WriteRaiseFlag \/ WriteStoreFull \/ WriteFetchAdd \/ WriteCopy \/ WriteStoreWritePos

Reader ==
    \/ \E n \in ReadFloats : ReadBegin(n)
    \/ ReadClearFlag \/ ReadSnap \/ ReadSnapBuffered \/ ReadFilling \/ ReadLoad \/ ReadSkip
    \/ ReadUnderrun \/ ReadPlan \/ ReadCopy \/ ReadAdvance

Next == Writer \/ Reader
Spec == Init /\ [][Next]_vars

\* What the buffer withstands: an overflowing write and the snap that answers it
\* meet no operation of the other thread.
Contained ==
    \/ wpc = "idle" \/ rpc = "idle"
    \/ ~overflow_flag /\ wpc # "flag" /\ rpc \notin {"snap", "snap_buf"}

OrderlyNext == Next /\ Contained'
OrderlySpec == Init /\ [][OrderlyNext]_vars

----------------------------------------------------------------------------
\* Positions stay inside data_ at every atomic access, and each thread's locals are
\* those of the operation it is in.
TypeOK ==
    /\ data \in [Slots -> Nat]
    /\ write_pos \in Slots /\ read_pos \in Slots
    /\ buffered \in Int
    /\ overflow_flag \in BOOLEAN
    /\ state \in {"Filling", "Playing"}
    /\ correction_counter \in 0 .. correction_interval - 1
    /\ wpc \in {"idle", "flag", "full", "add", "copy", "store_wp"} /\ w_n \in 0 .. capacity
    /\ rpc \in {"idle", "clear", "snap", "snap_buf", "load", "skip", "plan", "copy", "advance"}
    /\ r_floats \in Nat /\ r_buf \in Int /\ r_out \in Int /\ r_take \in Int
    /\ dst \in Seq(Nat)
    /\ produced \in Nat /\ heard \in Nat /\ seen \in Nat

\* Every block fits in beside the target latency.  SessionManager sees to it:
\* decode_buffer holds 960 samples of each channel, the ring a second.
BlocksFit == \A n \in WriteFloats : n + snap_floats <= capacity

\* The interleaved channels never slip, and buffered_ never leaves the range of the
\* ring if every block fits, although the reader subtracts from and overwrites a
\* count that the writer adds to and overwrites.  (A larger block that is added
\* between the reader's look at the flag and its snap takes buffered_ past capacity_,
\* and an overflow after that may leave it below 0; positions and copies withstand that.)
PositionsSound ==
    /\ TypeOK
    /\ \A x \in {write_pos, read_pos, buffered, w_n, r_take, r_out} : x % num_channels = 0
    /\ BlocksFit => buffered \in 0 .. capacity

\* write() and read() are never inside the same slot of data_ at the same time;
\* in particular read() never reaches a block that is counted but not copied in.
NoDataRace ==
    wpc = "copy" /\ rpc = "copy" =>
        Span(write_pos, w_n) \cap Span(read_pos, r_out) = {}

Quiescent == wpc = "idle" /\ rpc = "idle"

\* Between operations buffered_ floats lie between the positions, and they are the
\* newest samples received, unless the reader has been asked to snap.
HoldsNewest ==
    Quiescent /\ ~overflow_flag =>
        /\ Advance(read_pos, buffered) = write_pos
        /\ copy_from_ring(read_pos, buffered) = [i \in 1 .. buffered |-> produced - buffered + i]

\* What read() returns is consecutive samples of the stream, all of them newer
\* than the ones it returned before: a snap or a correction skips samples, but
\* never goes back.
InOrder ==
    dst # <<>> =>
        /\ dst[1] > heard
        /\ \A i \in 1 .. Len(dst) : dst[i] = dst[1] + i - 1

\* The audio read() returns is never older than max_latency_ms, measured from the
\* newest sample that was counted when read() looked.
AgeBounded == rpc = "advance" => seen - dst[1] < max_samples * num_channels

=============================================================================
