----------------------------- MODULE MediaPath -----------------------------
(***************************************************************************)
(* What the host of one client hands over, on its way to the host of       *)
(* another: audio through the ring buffer, the codec and a datagram into   *)
(* the jitter buffer, and cache operations through a data track            *)
(* (SessionManager::configure(), poll_outbound_tracks(), send_data() and   *)
(* dispatch_*_datagram(), opus_codec.cpp, cache_wire.cpp).                 *)
(*                                                                         *)
(* The subject is how much: the buffers that configure() allocates once,   *)
(* and the frames, floats and bytes that every step then moves.  Audio     *)
(* frames are numbered; a stretch of them is its first frame and a count.  *)
(* The ring is the queue of module AudioQueue, which RingBuffer            *)
(* implements, and both clients are configured for the same track.         *)
(* Orchestration has the aliases, the order and the loss of datagrams.     *)
(***************************************************************************)
EXTENDS CacheWire, FiniteSets

CONSTANTS
    Tracks,         \* TrackConfigs [codec, channels, sample_rate, frame_size_ms]
    OpusRates,      \* external: sample rates that libopus knows
    OpusLayouts,    \* external: the streams that its ambisonics encoder chooses, by channels
    PacketSizes,    \* external: bytes it may make of a frame
    MaxSendLength,  \* external: bytes of the longest datagram that QUIC takes
    BlockSizes,     \* frames the host may write at once
    CacheOps,       \* what the host may publish
    MaxWritten,     \* bound: frames written
    MaxInFlight     \* bound: datagrams on their way

FrameSamples(tc) == (tc.frame_size_ms * tc.sample_rate) \div 1000

\* Layouts of a multistream packet: its streams, and how many of them are stereo.
Layouts == [streams : Nat, coupled : Nat]

\* Every track has a channel, and no frame is empty; configure() checks neither.
ASSUME TrackAssumption ==
    /\ Tracks \subseteq [codec : {"Opus", "PCM"}, channels : Nat, sample_rate : Nat,
                         frame_size_ms : Nat]
    /\ \A tc \in Tracks : tc.channels > 0 /\ FrameSamples(tc) > 0
    /\ DOMAIN OpusLayouts \subseteq 3 .. 255
    /\ \A n \in DOMAIN OpusLayouts : OpusLayouts[n] \in Layouts
    /\ PacketSizes \subseteq Nat \ {0} /\ MaxSendLength \in Nat
    /\ BlockSizes \subseteq Nat

\* A CacheOp has an op id of 8 bytes, a node id of 4, and a value that 4 bytes can count.
ASSUME CacheOpsAssumption ==
    /\ CacheOps \subseteq [topic : Seq(Bytes), key : Seq(Bytes), value : Seq(Bytes),
                           op_id : Nat, node_id : Nat, tombstone : BOOLEAN]
    /\ \A op \in CacheOps :
          op.op_id \div Power[7] < Byte /\ op.node_id < Power[4] /\ Len(op.value) < Power[4]

VARIABLES
    track,           \* the TrackConfig
    ring,            \* the stretch that waits in ring_buffer
    written,         \* frames the host has written
    pc,              \* where the session thread is in poll_outbound_tracks()
    block,           \* the stretch in pcm_read_buffer
    payload_bytes,   \* its size in encode_output_buffer
    next_object_id,
    inflight,        \* datagrams on their way: their bytes, and what the sender meant by them
    copy,            \* the copy into a buffer in this step: its length and the buffer's
    arrival          \* the datagram that arrives in this step: what was meant, what is got

sender == <<ring, written, pc, block, payload_bytes, next_object_id>>
vars   == <<track, sender, inflight, copy, arrival>>

Stretch(first, count) == [first |-> first, count |-> count]
Copy(length, room)    == [length |-> length, room |-> room]
Nothing   == Stretch(0, 0)
Noise(count) == [noise |-> count]
NoCopy    == copy' = Copy(0, 0)
NoArrival == arrival' = [meant |-> Nothing, got |-> Nothing]

----------------------------------------------------------------------------
(* configure() and the codec wrappers *)

\* What the simple API of one or two channels makes: one stream.
OneStream(channels) == [streams |-> 1, coupled |-> channels - 1]

\* OpusEncoderWrapper::init(): a refused duration leaves the default frame size.
\* Above two channels libopus chooses the layout.
Encoder(tc) ==
    IF tc.frame_size_ms \notin {5, 10, 20, 40, 60} \/ tc.channels = 0
    THEN [is_initialized |-> FALSE, frame_size_samples |-> 240]
    ELSE [is_initialized |-> /\ tc.sample_rate \in OpusRates
                             /\ tc.channels <= 2 \/ tc.channels \in DOMAIN OpusLayouts,
          frame_size_samples |-> FrameSamples(tc)]

EncoderLayout(channels) ==
    IF channels <= 2 THEN OneStream(channels) ELSE OpusLayouts[channels]

\* OpusDecoderWrapper::init(): above two channels all streams are uncoupled, whatever
\* the encoder chose.
Decoder(tc) == [is_initialized |-> tc.channels \in 1 .. 255 /\ tc.sample_rate \in OpusRates]

DecoderLayout(channels) ==
    IF channels <= 2 THEN OneStream(channels) ELSE [streams |-> channels, coupled |-> 0]

\* It writes the number of every channel into mapping[255].
FillMapping(tc) ==
    IF tc.codec = "Opus" /\ tc.channels > 2 THEN Copy(tc.channels, 255) ELSE Copy(0, 0)

RING_BUFFER_MS == 200

\* Mutation: the datagram buffer is only as long as the payload.
configure_NoHeaderRoom(tc) ==
    LET samples == FrameSamples(tc) * tc.channels
        output  == IF tc.codec = "Opus" THEN 512 ELSE samples * 4
    IN  [ring_capacity_frames |-> (tc.sample_rate * RING_BUFFER_MS) \div 1000,
         encoder |-> Encoder(tc), decoder |-> Decoder(tc), pcm_read_buffer |-> samples,
         encode_output_buffer |-> output, datagram_buffer |-> output,
         decode_buffer |-> 960 * tc.channels]

\* What configure() allocates for an outbound and for an inbound audio track.
\* The results of the init() calls are not looked at.
configure(tc) ==
    LET samples == FrameSamples(tc) * tc.channels
        output  == IF tc.codec = "Opus" THEN 512 ELSE samples * 4
    IN  [ring_capacity_frames |-> (tc.sample_rate * RING_BUFFER_MS) \div 1000,
         encoder |-> Encoder(tc), decoder |-> Decoder(tc), pcm_read_buffer |-> samples,
         encode_output_buffer |-> output, datagram_buffer |-> 34 + output,
         decode_buffer |-> 960 * tc.channels]

handle == configure(track)

\* What pcm_frame() writes, in bytes.
pcm_frame(frame_count, channels) == frame_count * channels * 4

\* Mutation: the samples of all channels are counted.
pcm_unframe_Samples(data_len, channels) ==
    IF data_len % (channels * 4) # 0 THEN 0 ELSE data_len \div 4

\* How many frames pcm_unframe() finds.
pcm_unframe(data_len, channels) ==
    IF data_len % (channels * 4) # 0 THEN 0 ELSE (data_len \div 4) \div channels

SameLayout == EncoderLayout(track.channels) = DecoderLayout(track.channels)

\* What OpusDecoderWrapper::decode() may return.  libopus refuses a packet with more
\* frames than fit; one of another layout it refuses or takes for other sound, as
\* long as its first stream says.
decode(frame_count, max_frame_count) ==
    IF ~handle.decoder.is_initialized \/ frame_count > max_frame_count THEN {-1}
    ELSE {frame_count} \cup (IF SameLayout THEN {} ELSE {-1})

\* The sound in the decoded frames.
Decoded(first, frames) == IF SameLayout THEN Stretch(first, frames) ELSE Noise(frames)

----------------------------------------------------------------------------
Init ==
    /\ track \in Tracks
    /\ ring = Nothing /\ written = 0
    /\ pc = "idle" /\ block = Nothing /\ payload_bytes = 0 /\ next_object_id = 0
    /\ inflight = {} /\ copy = FillMapping(track)
    /\ arrival = [meant |-> Nothing, got |-> Nothing]

\* write_audio(), on the host's audio thread.
WriteAudio(n) ==
    LET total == ring.count + n
        kept  == IF total > handle.ring_capacity_frames THEN handle.ring_capacity_frames ELSE total
    IN  /\ written + n <= MaxWritten
        /\ written' = written + n
        /\ ring' = Stretch(written + n - kept, kept)
        /\ NoCopy /\ NoArrival
        /\ UNCHANGED <<track, pc, block, payload_bytes, next_object_id, inflight>>

----------------------------------------------------------------------------
(* send_audio_frame() and send_pcm_frame(), on the session thread *)

frame_size == IF track.codec = "Opus" THEN handle.encoder.frame_size_samples
              ELSE FrameSamples(track)

PollTrack ==
    /\ pc = "idle"
    /\ pc' = "loop"
    /\ NoCopy /\ NoArrival
    /\ UNCHANGED <<track, ring, written, block, payload_bytes, next_object_id, inflight>>

\* Mutation: the frame is looked at and left in the ring.
ReadFrame_Peek ==
    /\ pc = "loop"
    /\ ring.count >= frame_size
    /\ block' = Stretch(ring.first, frame_size)
    /\ copy' = Copy(frame_size * track.channels, handle.pcm_read_buffer)
    /\ pc' = "encode"
    /\ NoArrival
    /\ UNCHANGED <<track, ring, written, payload_bytes, next_object_id, inflight>>

ReadFrame ==
    /\ pc = "loop"
    /\ ring.count >= frame_size
    /\ block' = Stretch(ring.first, frame_size)
    /\ ring' = Stretch(ring.first + frame_size, ring.count - frame_size)
    /\ copy' = Copy(frame_size * track.channels, handle.pcm_read_buffer)
    /\ pc' = "encode"
    /\ NoArrival
    /\ UNCHANGED <<track, written, payload_bytes, next_object_id, inflight>>

LeaveLoop ==
    /\ pc = "loop"
    /\ ring.count < frame_size
    /\ pc' = "idle"
    /\ NoCopy /\ NoArrival
    /\ UNCHANGED <<track, ring, written, block, payload_bytes, next_object_id, inflight>>

\* OpusEncoderWrapper::encode() of the block in pcm_read_buffer.
EncodeOpus(bytes) ==
    /\ pc = "encode" /\ track.codec = "Opus"
    /\ handle.encoder.is_initialized
    /\ bytes <= handle.encode_output_buffer
    /\ payload_bytes' = bytes
    /\ copy' = Copy(bytes, handle.encode_output_buffer)
    /\ pc' = "send"
    /\ NoArrival
    /\ UNCHANGED <<track, ring, written, block, next_object_id, inflight>>

\* libopus fails, or there is no encoder: the block is skipped.
EncodeFails ==
    /\ pc = "encode" /\ track.codec = "Opus"
    /\ pc' = "loop"
    /\ NoCopy /\ NoArrival
    /\ UNCHANGED <<track, ring, written, block, payload_bytes, next_object_id, inflight>>

FramePcm ==
    /\ pc = "encode" /\ track.codec = "PCM"
    /\ payload_bytes' = pcm_frame(block.count, track.channels)
    /\ copy' = Copy(payload_bytes', handle.encode_output_buffer)
    /\ pc' = "send"
    /\ NoArrival
    /\ UNCHANGED <<track, ring, written, block, next_object_id, inflight>>

AudioAlias == 1
DataAlias  == 2

\* A datagram may be lost, and QUIC refuses one that is too long; the result of
\* send_datagram() is not looked at.
Send(length, d) ==
    \/ /\ length <= MaxSendLength /\ Cardinality(inflight) < MaxInFlight
       /\ inflight' = inflight \cup {d}
    \/ UNCHANGED inflight

\* The payload is one symbol that stands for all its bytes.
SendFrame ==
    LET header == build_object_datagram_header(AudioAlias, 0, next_object_id, Byte \div 2)
        length == Len(header) + payload_bytes
    IN  /\ pc = "send"
        /\ copy' = Copy(length, handle.datagram_buffer)
        /\ Send(length, [meant |-> block,
                         bytes |-> Append(header, [frames |-> block, size |-> payload_bytes])])
        /\ next_object_id' = next_object_id + 1
        /\ pc' = "loop"
        /\ NoArrival
        /\ UNCHANGED <<track, ring, written, block, payload_bytes>>

----------------------------------------------------------------------------
\* send_data() with what encode_cache_op() makes of an operation, by the host.
SendData(op) ==
    LET dg == build_object_datagram(DataAlias, 0, 0, Byte \div 2, encode_cache_op(op))
    IN  /\ Send(Len(dg), [meant |-> op, bytes |-> dg])
        /\ NoCopy /\ NoArrival
        /\ UNCHANGED <<track, sender>>

----------------------------------------------------------------------------
\* The server may forward an object with extensions.
ServerExtends(d) ==
    LET payload   == parse_object_datagram(d.bytes).val.payload
        header    == Len(d.bytes) - Len(payload)
        extension == encode_varint(2) \o append_string_bytes(<<1, 2, 3, 4>>)
    IN  /\ d \in inflight
        /\ Head(d.bytes) = kDatagramTypePlain
        /\ inflight' = (inflight \ {d}) \cup
               {[d EXCEPT !.bytes = <<kDatagramTypeExtensions>> \o SubSeq(@, 2, header) \o
                                    encode_varint(1) \o extension \o payload]}
        /\ NoCopy /\ NoArrival
        /\ UNCHANGED <<track, sender>>

----------------------------------------------------------------------------
(* The other client *)

\* dispatch_audio_datagram(): p is the payload's one symbol.
DispatchOpus(d, p) ==
    \E frames \in decode(p.frames.count, handle.decode_buffer \div track.channels) :
        /\ copy' = IF frames > 0 THEN Copy(frames * track.channels, handle.decode_buffer)
                   ELSE Copy(0, 0)
        /\ arrival' = [meant |-> d.meant,
                       got |-> IF frames > 0 THEN Decoded(p.frames.first, frames) ELSE Nothing]

DispatchPcm(d, p) ==
    LET frames == pcm_unframe(p.size, track.channels)
    IN  /\ copy' = IF frames > 0 THEN Copy(p.size, handle.decode_buffer * 4) ELSE Copy(0, 0)
        /\ arrival' = [meant |-> d.meant,
                       got |-> IF frames > 0 THEN Stretch(p.frames.first, frames) ELSE Nothing]

DispatchAudio(d, p) == IF track.codec = "Opus" THEN DispatchOpus(d, p) ELSE DispatchPcm(d, p)

\* dispatch_data_datagram(), and the host that takes the payload for an envelope.
DispatchData(d, payload) ==
    LET op == decode_cache_op(payload)
    IN  /\ arrival' = [meant |-> d.meant, got |-> IF op.ok THEN op.val ELSE Nothing]
        /\ NoCopy

\* on_datagram, on an msquic worker.
OnDatagram(d) ==
    LET dg == parse_object_datagram(d.bytes)
    IN  /\ d \in inflight
        /\ inflight' = inflight \ {d}
        /\ IF dg.val.track_alias = AudioAlias
           THEN DispatchAudio(d, dg.val.payload[1])
           ELSE DispatchData(d, dg.val.payload)
        /\ UNCHANGED <<track, sender>>

----------------------------------------------------------------------------
SessionThread ==
    \/ PollTrack \/ ReadFrame \/ LeaveLoop
    \/ EncodeFails \/ FramePcm \/ SendFrame
    \/ \E bytes \in PacketSizes : EncodeOpus(bytes)

MsquicWorker == \E d \in inflight : OnDatagram(d)

Next ==
    \/ SessionThread
    \/ MsquicWorker
    \/ \E d \in inflight : ServerExtends(d)
    \/ \E n \in BlockSizes : WriteAudio(n)
    \/ \E op \in CacheOps : SendData(op)

Spec == Init /\ [][Next]_vars

\* The session thread runs.
FairSpec == Spec /\ WF_vars(SessionThread)

----------------------------------------------------------------------------
(* Properties *)

\* The buffers that configure() makes are meant for this track: the encoder reads as
\* many frames at once as it was configured for, unless a refused duration left it at
\* 240 and that is more; a PCM frame fits decode_buffer, or no datagram can hold it;
\* and the channels fit mapping[].
BuffersSuit ==
    IF track.codec = "Opus"
    THEN frame_size <= FrameSamples(track) /\ track.channels <= 255
    ELSE frame_size <= 960 \/ MaxSendLength <= 960 * track.channels * 4

\* No copy is longer than the buffer that was made for it: of a block out of the ring,
\* of a packet, of a datagram with its header, and of what the other client decodes.
\* This is what the comments on the buffers in TrackHandle say, for every track that
\* configure() accepts; the code refutes it for an Opus track of less than 240 frames
\* whose duration init() refuses, because the result of init() is not looked at.
EveryCopyFits == copy.length <= copy.room

\* No copy is longer than its buffer on a track that the buffers are meant for: Opus of
\* any rate and of any duration, a refused one of at least 240 frames included, up
\* to 255 channels, and PCM of at most 960 frames or of more than a datagram takes.
CopiesFit == BuffersSuit => EveryCopyFits

\* A field of an operation as far as the envelope can carry it.
Prefix(s, n) == SubSeq(s, 1, IF Len(s) < n THEN Len(s) ELSE n)

\* What a datagram should bring: the same frames of audio, or the same cache
\* operation with an over-long topic or key cut.
Meant(x) ==
    IF "op_id" \in DOMAIN x
    THEN [x EXCEPT !.topic = Prefix(@, Byte - 1), !.key = Prefix(@, Power[2] - 1)]
    ELSE x

IsAudio(x) == "count" \in DOMAIN x

\* A datagram that arrives brings what its sender meant by it, on a track that the
\* buffers are meant for, in every layout that libopus encodes.  Opus frames of more
\* than the 960 samples that decode_buffer is made for are lost.  This is what the
\* decoder's "all streams are uncoupled mono with identity mapping" comes to; the
\* code refutes it for ambisonics with two more channels (3, 6, 11), which the
\* encoder makes a coupled stream of.
HeardInEveryLayout ==
    BuffersSuit => \/ arrival.got = Meant(arrival.meant)
             \/ /\ track.codec = "Opus" /\ IsAudio(arrival.meant)
                /\ frame_size > 960 /\ arrival.got = Nothing

\* A datagram that arrives brings what its sender meant by it, on a track that the
\* buffers are meant for: whole frames of audio, and cache operations in which no
\* field runs into another.  Opus frames of more than the 960 samples that
\* decode_buffer is made for are lost, and nothing is said of Opus audio in a layout
\* that encoder and decoder do not agree on.
HeardAsMeant ==
    \/ HeardInEveryLayout
    \/ track.codec = "Opus" /\ ~SameLayout /\ IsAudio(arrival.meant)

\* poll_outbound_tracks() comes to an end, so that the session thread gets round
\* to the control stream and to disconnect(), although the host writes all the while.
PollReturns == pc = "loop" ~> pc = "idle"

=============================================================================
