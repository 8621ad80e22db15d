# A TLA+ model of libpanaudia-core

libpanaudia-core is a C++ client for spatial audio over MOQ (Media over QUIC). A
host application configures tracks, connects, writes outbound audio and reads
inbound audio from its real-time thread, and keeps shared attributes (names,
poses) in a cache that the server feeds. This directory holds the TLA+ modules
that model it, their TLC configurations and their TLAPS proofs. Paths below are
relative to the repository.

## 1. The system

### Threads

| thread | what it runs |
|---|---|
| host control | `configure()`, `connect()`, `disconnect()`, `send_data()`, cache reads and `clear()` |
| host real-time | `write_audio()` (outbound ring), `read_audio()` (jitter buffer) |
| session | `session_thread_func()`: retry timer, `drain_and_parse()`, orchestration, polling of the outbound rings, a 5 ms sleep |
| msquic workers | connection and stream events (leave flags and queued bytes for the session thread); datagrams, which are decoded and written to the jitter buffer or handed to a data callback *on the worker* |

### Components

| component | state | operations | interacts with |
|---|---|---|---|
| RingBuffer (`src/ring_buffer.cpp`) | `data_`, `write_pos_`, `read_pos_`, `buffered_` | `write`, `read`, `flush`, two counters | written by the real-time thread, read and flushed by the session thread |
| JitterBuffer (`src/jitter_buffer.cpp`) | the same, plus `overflow_flag_`, FILLING/PLAYING, `correction_counter_`, zones computed by the constructor | `write`, `read`, `get_stats` | written by an msquic worker, read by the real-time thread |
| SessionManager, life cycle (`src/session_manager.cpp`) | `state_`, `reconnecting_`, `reconnect_attempt_`, `reconnect_deadline_`, `manual_disconnect_`, `session_running_`, `orchestration_started_`, the transport, the thread | `configure`, `connect`, `disconnect`, `handle_transport_state_change`, `attempt_reconnect`, `session_thread_func` | owns the transport, gets its transitions by a synchronous callback |
| MoqTransport (`src/moq_transport.cpp`) | `current_state`, pending flags, queued control data, reassembly buffer, msquic handles | `connect`, `disconnect`, `process_incoming`, `send_control`, `send_datagram`, event handlers | msquic below, SessionManager above |
| SessionManager, orchestration | `request_id_map_`, inbound and outbound alias maps, request ids, track aliases | `start_orchestration`, `handle_control_message` | the transport's control stream; datagram dispatch reads the alias map on a worker |
| SessionManager, audio and data paths | object ids, encode and decode buffers | `poll_outbound_tracks`, `send_*_frame`, `dispatch_*_datagram`, `send_data` | rings, jitter buffers, transport |
| CacheMap and TopicMerger (`src/cache_map.cpp`, `src/topic_merger.cpp`) | entries with op ids, `highest_op_id_`, handlers | `merge`, `clear`, reads; `apply_envelope` | fed by data datagrams; the host hears of changes through a handler and a batch result |
| moq_protocol (`src/moq_protocol.cpp`), cache_wire (`src/cache_wire.cpp`) | none | varints, parameters, control messages, object datagrams; cache envelopes | called by transport, orchestration and paths; the host calls cache_wire |
| Opus wrappers (`src/opus_codec.cpp`) | codec handles, frame size | `init`, `encode`, `decode`, `pcm_frame`, `pcm_unframe` | called by `configure()` and the audio paths |
| `panaudia_core.cpp` | none | forwarding | |

### What is hard here

- The two lock-free buffers are shared by threads that must not wait. `write()` of
  the ring moves the reader's position when it overflows; the jitter buffer
  counts a block before copying it in; both buffers keep a position and a count in
  separate atomics.
- `flush()` runs on the session thread during a reconnection although the
  real-time thread does not stop writing.
- The session's retry cycle is driven by transport transitions that come from
  three places (inside `connect()`, from the drain, from the transport's own
  destruction), by a deadline, and by a `disconnect()` on another thread.
- One pass of `drain_and_parse()` may find the connection's beginning, its end and
  its control data all waiting, and applies them in an order of its own.
- The control stream arrives in pieces cut anywhere, on one thread, and is put
  together on another; what one connection leaves half read must not reach the next.
- Buffers of the audio paths are sized once, by `configure()`, and filled by lengths
  that the codec, the datagram header and the network decide.
- Envelopes come in datagrams: lost, repeated, overtaken; deletions leave no trace.

`PROJECT.json` lists these hazards with the lines where they bite and the
properties about them.

## 2. The modules

| module | models | proved about in |
|---|---|---|
| `AudioQueue` | abstract: the bounded drop-oldest queue a ring promises | |
| `RingBuffer` | `ring_buffer.cpp`, one action per atomic access; refines `AudioQueue` | `RingBufferProofs` |
| `JitterBuffer` | `jitter_buffer.cpp`, one action per atomic access | `JitterBufferProofs` |
| `Session` | life cycle of SessionManager composed with MoqTransport and msquic | `SessionProofs` |
| `Orchestration` | what SessionManager does with its connections: requests, aliases, object ids, outbound audio, `send_data()`, inbound datagrams, against a server | `OrchestrationProofs` |
| `MessageChannel` | abstract: what a connection promises of the messages the server sends | |
| `MoqWire` | encoders and decoders of `moq_protocol.cpp`: varints, strings, namespaces, parameters, framing, object datagrams | `WireProofs`; object datagrams in `MediaPathProofs` |
| `MoqMessages` | builders and parsers of the control messages, on `MoqWire` | `WireProofs` |
| `ControlStream` | the bytes of the control stream: `on_stream_event`, `drain_and_parse`, `handle_control_message`, `cleanup_quic`; refines `MessageChannel` | `ControlStreamProofs` |
| `CacheWire` | `cache_wire.cpp`, on `MoqWire` | `MediaPathProofs` |
| `MediaPath` | audio and cache operations from one host to another: `configure`'s buffers, ring, `opus_codec.cpp`, datagrams, dispatch | `MediaPathProofs`, on `WireProofs` |
| `StateCache` | CacheMap fed by TopicMerger, the server and the network | `StateCacheProofs` |
| `MC*` | the instances TLC checks | |

**Buffers.** A sample is named by its position in the producer's stream, so "lost",
"repeated", "torn" and "out of order" can be said; 0 is the silence the array
starts with. `wpc` and `rpc` are the writer's and the reader's places inside the
function, and each atomic load, store or read-modify-write is a step; a `memcpy`
is one step, and `NoDataRace` says that the two sides' copies are never enabled on
the same slot together. Plain locals (`w_buf`, `r_rp`, ...) carry what was loaded.
Ring counts are unsigned modulo `Word` (2^32 in the code), so the wrap below zero
after an overflow race is in the model. Next-state relations that share the
actions separate what the code permits from what it withstands:

- `Spec` is everything the program permits, races included.
- `OrderlySpec` of the ring: writes and reads interleave freely, but a write that
  overflows meets no operation of the reader, and a flush meets no write. Of the
  jitter buffer: an overflow and the snap that answers it meet no operation of the
  other thread. The code does not enforce this; outside of it the buffers are known
  to break (findings), and the runs say what holds inside.

**Session.** `set_state()` calls the session's handler synchronously, so a
transition and its consequences are one step, except at "begin", the point
between the test of `manual_disconnect_` and the writes that start a retry cycle,
where `disconnect()` may come in. `disconnect()` takes four steps (flag, stop, join,
close), the drain one step per event it looks at. Time is one bit: `due` says that
`reconnect_deadline_` has passed. `backed_off`, `quiet` and `late_setup`
(a SERVER_SETUP drained after the end of its connection) are history. A
`connect()` over a running thread ends in `std::terminate`, after which the model
only stutters.

**Orchestration.** `Init` is the state `configure()` leaves. The life cycle is
reduced to `phase` (idle, connecting, connected, lost, down, retrying) and `open`,
whether QUIC is up; a connection may die at any moment, also before it is ready,
and a retry may replace one that is still connecting, as `Session` shows. Control
messages are handled one at a time, in the server's order. The server
grants subscriptions under aliases of its choice, refuses them, and subscribes to announced tracks, again
and again. Datagrams need no queue: one that the server could have sent may arrive
at any moment, any number of times or never, also before its SUBSCRIBE_OK has been handled.
A SUBSCRIBE of the server is answered in two steps, the alias stored in the track first
(`HandleSubscribe`) and the SUBSCRIBE_OK sent later (`SendSubscribeOk`); in between the pair
is in `replying`, and the session thread does nothing else (`Looping`), but the host may.
`send_data()` takes three steps (tests, building, sending), and
the session thread may tear the connection down between them: such a
datagram is marked `torn` and goes nowhere or out on the next connection. Audio
blocks in a ring carry the `era`, the number of connections closed before they were
captured. `write_audio()` takes three steps, those of `RingBuffer::write()` as far as the blocks
tell them apart: the look at `buffered_`, the overflow branch, and the copy with position and
count. Polls and flushes come between them. Where one does so at a moment that leaves positions
and count apart, the ring is `slipped`, and until the next undisturbed flush it may hold,
lose or repeat any of the blocks around (`Mixed`). The atomic accesses that make it so, and the
jitter buffer, are modules of their own.
`requests`, `granted`, `asked`, `replies` and `sent` are the server's
view of the current connection.

**StateCache.** A stored value is named by the op id that wrote it. The server
appends envelopes to `published`; `ApplyEnvelope` picks any of them, again and
again, in any order, which covers loss, duplication and overtaking. The inner
operations of an envelope are merged one step each. `mirror` is what a host knows
from the change handler, `view` from the results of `apply_envelope()`. msquic
delivers the datagrams of a connection one at a time, so one envelope is in
progress at a time. `overtaken` and `torn` are history: an older envelope was
applied after a newer one; `clear()` came in the middle of an envelope. The properties that depend on them say so.

**Wire formats.** `MoqWire`, `MoqMessages` and `CacheWire` are operators, one per
function of the code and under its name; a decoder takes a buffer and an offset and
gives a value and the next offset, or fails, as the code's `bool` with reference
parameters does. The number of values of a byte is the constant `Byte`, 256 in the
code. All layouts are stated in it (prefix bits, shifts, length fields), so a narrower byte
scales every limit of the format down and keeps its structure.

**ControlStream.** The server sends one of the `Scripts`, the network cuts the bytes
into pieces, an msquic worker queues them (`pending_control_data`), and the session
thread drains the queue piece by piece, under a lock it takes for each, and parses.
Pieces may arrive between any two of these steps. `handled` is what
`handle_control_message()` read in each message and `said` what the client sent; both
are history of the current connection. `disconnect()` closes the stream and then clears
buffer and queue. The refinement maps the server's messages, as the parsers' result
structures would say them (`AsRead`, written without builders and parsers), and `handled` to
`MessageChannel`. Reading `said` with the same parsers gives the server's side of it
(`ServerHears`).

**MediaPath.** Audio frames are numbered and only amounts are tracked: frames in the
ring, floats and bytes in each buffer. Sizes are the code's own. `copy` is the copy that
the step makes, with its length and the room for it; `arrival` what the datagram
arriving in this step was meant to bring and what it brought. Headers and envelopes are
real bytes; an audio payload is one symbol with a size, because the codec's bits do not
matter. The encoder and decoder of libopus are external: which rates and durations it
takes, which streams it chooses for a number of channels (`OpusLayouts`), that it may fail, that a
packet has at most the room it is given, and that it refuses to decode into too small a buffer.
The encoder's layout is libopus's choice (`EncoderLayout`), the decoder's is the code's, one
uncoupled stream per channel (`DecoderLayout`); where they differ (`~SameLayout`), decoding a
packet gives nothing or noise. An encoder whose `init()` failed keeps its 240 frames, and the
send path goes on with them, as the code does. Apart from frames of no sample (a
finding), no duration, channel count or datagram length is assumed away: `BuffersSuit` says of a track whether the buffers `configure()` makes are large
enough for it, and the properties name it.

External, modelled from their use: msquic's events, the server's messages and its
op log, libopus, and QUIC's limit on datagrams.

## 3. What TLC checks

Runs that pass:

| run | shows |
|---|---|
| `ring_orderly` | `write`, `read` and `flush` under `OrderlySpec`, overflow and oversized blocks included: no shared slot, samples in order, positions and count agree between operations, the proofs' invariant `OrderlyInv`, refinement of `AudioQueue` (only the oldest samples are dropped, and only those in the way) |
| `ring_any_interleaving` | every interleaving: types, memory safety of the copies, channel alignment |
| `jitter_orderly` | overflow, overrun, underrun and both corrections under `OrderlySpec`, with a minimum latency of at least a read, a block and a sample: positions and count in range and at whole frames (`PositionsSound`), no shared slot, holds the newest samples, plays them in order and never later than the maximum latency |
| `session` | `disconnect()` leaves nothing behind, the reported state tells the truth, every connection the host hears of is alive and orchestrated, attempts are bounded (in `TypeOK`); a retry cycle that has a thread ends and `disconnect()` returns |
| `orchestration` | datagrams reach the track they are meant for; each connection asks once for each track and shows the JWT with the first SUBSCRIBE; no audio outlives its connection, unless its ring has slipped, also where rings overflow; grants take effect and audio leaves its ring |
| `orchestration_outbound` | what goes out carries an alias that the server was told on this connection or that the session thread is about to tell it, and object ids that increase (both but for a torn `send_data()`) |
| `control_stream` | however the stream is cut and whenever it is drained, every message is handed over once, whole, as meant and in order, nothing crosses into the next connection, and no message waits for bytes that are there; the server reads exactly what the client meant, with the host's unsorted parameters |
| `media_path` | for ten track configurations no copy exceeds a buffer that suits the track, what arrives in a layout that both codecs share is the audio or the operation that was meant, and the polling loop returns |
| `cache` | keys that were never deleted converge to the newest value, the resume point is the newest op id seen, hosts that follow the change handler or the batch results agree with the cache, deletions stick unless overtaken |

Runs that refute what a comment, a test or a document says (each with an entry
under `findings`):

| run | statement | what happens |
|---|---|---|
| `jitter_early_count` | "SPSC thread safety" | a read at low fill copies slots of a block that is counted but not yet copied in |
| `session_backoff` | "exponential backoff" | an attempt that starts does not move the deadline; the next pass, 5 ms later, replaces it |
| `cache_resurrection` | "Highest op_id per key wins" | an older set after the tombstone brings the key back |

Further configurations, for TLC by hand (`tlc -config X.cfg MC...`). The first eight end in a
violation too and show the exceptions that the properties above make; each statement is
quoted in the finding of its line:

| configuration | module | violates | what happens |
|---|---|---|---|
| `RingOverflowRace.cfg` | `MCRingBuffer` | `QuiescentSync` | an overflowing write between a read's load and store of `read_pos_`: positions and count stay apart, with `write` and `read` alone |
| `RingFlushRace.cfg` | `MCRingBuffer` | `FlushDiscards` | a flush between a write's position and its count: samples from before it are read after it |
| `OrchestrationTold.cfg` | `MCOrchestration` | `ToldBeforeSent` | `send_data()` sends under an alias before SUBSCRIBE_OK tells it to the server |
| `SessionFailedConnect.cfg` | `MCSession` | `ReconnectingEnds` | a `connect()` that fails at once leaves the session Reconnecting for ever, without a thread |
| `SessionLateSetup.cfg` | `MCSession` | `EveryLossNoticed` | SERVER_SETUP drained after the shutdown: Connected, on a dead connection |
| `JitterStaleSnap.cfg` | `MCJitterBuffer` | `HoldsNewest` | the reader snaps behind the old `write_pos_` of a write under way |
| `MediaFrameSizes.cfg` | `MCMediaPath` | `EveryCopyFits` | 15 ms at 8 kHz: a refused `init()` leaves 240 frames, read into a buffer of 120 |
| `MediaLayouts.cfg` | `MCMediaPath` | `HeardInEveryLayout` | six channels: encoded as five streams, one coupled, decoded as six |
| `JitterAnyInterleaving.cfg` | `MCJitterBuffer` | none | `PositionsSound` in every interleaving, races included, which is also proved |

Found while modelling, without a configuration of their own; the passing runs step around
them where the text above says so:

- the reader of the jitter buffer snaps between the writer's flag and its store of the
  capacity, and nothing corrects the count afterwards;
- a block longer than the capacity less the target latency, beside a snap, takes `buffered_` of the
  jitter buffer past the capacity, and the next read takes it below 0 (`BlocksFit` excludes it);
- the destruction of the last transport reports Disconnected over the final Failed;
- `connect()` after Failed assigns over a joinable `std::thread`;
- `send_data()` uses `transport_` while a reconnection destroys it;
- `inbound_alias_map_` is read on a worker while the session thread inserts;
- outbound tracks that share a namespace share the first one's alias;
- `send_data()` on an inbound data track uses the server's alias;
- streams that the server opens feed the control stream's reassembly buffer;
- Opus frames of more than 960 samples (40 and 60 ms at 48 kHz) are never decoded;
- PCM frames longer than a QUIC datagram, such as 5 ms of 48 kHz stereo, are lost in silence;
- more than 255 channels run over the decoder's `mapping[]`, and a PCM datagram of more than 960
  frames over `decode_buffer` (`BuffersSuit` has both limits);
- a PCM frame of 0 ms makes the polling loop endless;
- a host parameter with an even key loses its value;
- a control message of 64 KiB or more has a length that does not match.

### Bounds

- Rings of 2 or 3 stereo frames, blocks smaller than and larger than the
  ring, reads up to the whole ring, streams of 12 and 24 floats, i.e. several laps:
  every combination of wrap, exact fill and overflow occurs. `Word = 16` exceeds
  twice the capacity, as 2^32 does, and is small enough to show the wrap.
  `MaxSamples` ends the stream, so the buffers' runs stop (`CHECK_DEADLOCK FALSE`).
- Jitter buffers with a sample rate of 1000, so a millisecond is a sample.
  `jitter_orderly` has two channels, minimum, target and maximum at 5, 6 to 8 and 9
  samples, capacity 11, blocks and reads of 1 or 2 frames: all zones are crossed, and the
  interval of 2 makes corrections frequent. `JitterAnyInterleaving.cfg` has
  blocks of 4 and of 6 floats, the longest that fit beside the target latency. `jitter_early_count` has the default
  configuration's proportions in units of 10 ms.
- `MaxAttempts = 2`: a first, a middle and a refused attempt. `Session` has no
  other bound: the host connects and disconnects for ever.
- `Orchestration` has two instances, since what the client asks for and is sent does not depend on what
  it sends. `orchestration`: two inbound and two outbound tracks, audio and data,
  and two server aliases, so that a new connection can swap them; three connections, two
  SUBSCRIBEs of the server on each; two audio blocks for a ring of one, so that it overflows and polls
  and flushes meet a write before and after it has made room. `orchestration_outbound`: an audio
  and a data track, two connections, two SUBSCRIBEs on each, for two tracks or twice for one;
  a ring of two blocks, so that one poll sends several frames; two `send_data()`, so that
  their order counts. In both one unread control message (`MaxUnread`): messages are handled one at a
  time, and an unread one already waits as long as it likes while everything else goes on. The host
  may stop, hence `CHECK_DEADLOCK FALSE`.
- `ControlStream`: bytes of 16 values, so that varints change length at 3, 63 and 16383
  and the largest is 2^30 - 1; the numbers, counts and lengths in the nine scripts lie on both
  sides of each boundary, and every message type occurs. Pieces of 1, 4 and 9 bytes
  cut types, lengths and fields at every place and also join messages; two pieces in
  the queue, two connections. The session may end, hence `CHECK_DEADLOCK FALSE`.
- `MediaPath`: the code's buffer sizes, and bytes of 8 values in headers and envelopes
  (fields cut at 7 and 63 bytes, object ids that need longer varints); tracks at, below
  and beyond `decode_buffer`, with rates, durations and layouts that Opus refuses, a layout
  that encoder and decoder do not share, and PCM that fits a datagram and that does not; 3000 frames in blocks of 1000, more than the
  smallest ring holds; packets of 1 and 512 bytes (the least and the most); envelopes
  with topic and key empty, full and over-long; one datagram on its way, since nothing a
  datagram brings depends on another.
- Two keys and three envelopes: an older and a newer operation around a third, and
  batches over both keys. Keys are interchangeable (`KeySymmetry`).

### Fairness

`Session` assumes that the session thread keeps running, that time passes, and
that a `disconnect()` that has begun goes on: a thread that the operating system
schedules. It assumes nothing of the network, of msquic's events or of when the host calls. A
fair session thread does not force one outcome where `connect()` may succeed or
fail. `Orchestration` assumes the same of what the session thread does in every pass
of its loop: handle control messages, orchestrate, poll each outbound track.
`ControlStream` assumes that QUIC delivers the bytes of a connection that lasts, which is
what a QUIC stream is, and that the session thread calls `process_incoming()` again and
again. `MediaPath` assumes that the session thread runs; the host may write at any
moment, but not for ever (`MaxWritten`), so a host that outpaces the encoder
without end is outside of `PollReturns`.

## 4. What is proved

Every safety invariant and both refinements that the passing runs check are theorems, for every value of
the constants that the named assumptions allow.
Each proof has the same outline: an inductive invariant, one lemma that the initial states
satisfy it, one that every action preserves it (a step per action, and under it one per
conjunct the action can disturb), and the properties as consequences.

**Ring** (`RingBufferProofs`). From `SizeAssumption` and
`FramesAssumption`: positive sizes, `Word` larger than twice the capacity, a read that fits the
ring as the session's frames do.

- With all races: `TypeCorrect`, and `MemorySafe`: no copy leaves `data_`, even when an
  overflow race has made `buffered_` wrap, because positions are always reduced modulo the
  capacity and both threads clip the amount they copy. `FramesNeverSlip`: no race ever exchanges
  the channels. This one has the hypothesis `Word % Channels = 0`: once `buffered_` has wrapped,
  2^32 is taken off as well, which is no multiple of 3 channels, for instance. `FrameInv`
  says that every local that becomes a position or a count is whole frames, too.
- Under `OrderlySpec`: `OrderlyInvariant`, and from it `OrderlyNoDataRace`, `OrderlyInOrder`,
  `OrderlySync`, and `OrderlyRingIsQueue`, the refinement of `AudioQueue`. A ring whose
  overflowing writes meet no read and whose flushes meet no write is a correct queue.

That the copies are disjoint depends on the write position lying `buffered_` floats behind the
oldest unreleased sample, also when the reader has stored `read_pos_` but not yet
released the space, when an overflowing write has moved `read_pos_` but not yet the count, and
when the writer has published `write_pos_` but not yet the count. `OrderlyInv` has
four parts. `Shape`: the amounts both threads have decided on still fit. `Positions`:
where the oldest unreleased sample is (`Front`) and how many lie behind it. `Contents`:
which sample is in each of their slots; `Cut` accounts for the head of an oversized block,
which is never stored. `CopiedOut`: what the reader holds is the stream after `gone`, the
newest sample read, flushed or dropped. The refinement adds only what `gone` means while an
operation is under way (`Pending`); each atomic access is then a step of `AudioQueue` or
leaves the queue alone.

**Jitter buffer** (`JitterBufferProofs`). From the constructor's zones (`ZoneAssumption`).

- `PositionsAlwaysSound`, with all races. `buffered_` stays in range because what the writer
  is about to add still fits even if a snap comes first, and what the reader is about to
  subtract is still there (`InRange`). That needs `BlocksFit`, inside the property.
- Under `OrderlySpec` and `Roomy`: `OrderlyNoDataRace`, `OrderlyHoldsNewest`, `OrderlyInOrder`,
  `OrderlyAgeBounded`. `Roomy` says that a read, a block and a sample fit in the
  minimum latency; without it `jitter_early_count` shows the race. The invariant says which
  sample lies how far behind `write_pos_`, counts the part that is not copied in yet (`Uncopied`),
  and bounds the age of the next sample to be played.

**Session** (`SessionProofs`): `TypeCorrect`, `DisconnectIsFinal`, `StateAlwaysAgrees`,
`ConnectedAlwaysOrchestrated`, `ConnectedAlwaysAlive`, for every number of attempts. `SessionInv`
relates four parties at every point of the loop and of `disconnect()`: who runs (`Threads`), what
the host was told and what the transport says (`Told`), the retry cycle (`Beginning`,
`Retrying`), and the connection with what msquic has left pending (`NoConnection`,
`OnceConnected`, `Orchestrated`, `EndNoticed`). The properties speak about the top of the loop
only; the invariant has to say what is true of a pass that is half done.

**Orchestration** (`OrchestrationProofs`): `DatagramsReachTheirTrack`, `SentUnderToldAliases`,
`ObjectIdsIncrease`, `NoStaleAudio`, `TracksRequestedOnce`, for every list of tracks, every set
of aliases and any number of connections, messages and datagrams. `OrchInv` adds what one party
knows of another: a SUBSCRIBE_OK on its way tells of a grant (`GrantsTold`), the alias map has
grants only (`AliasesGranted`), the server was told every alias a track has or that
`send_data()` has picked up, or the session thread is at that moment about to tell it
(`AliasesTold`, `SendingTold`, over `replies` and `replying`), and nothing of a connection is left
without one (`Life`). `SentUnderToldAliases` therefore does not say that the server knows the alias
when the datagram arrives: `OrchestrationTold.cfg` shows the datagram that is ahead of the
SUBSCRIBE_OK. `NoStaleAudio` has `write_audio()` in its three steps against flush and poll;
its exception is a ring whose positions such a meeting has made slip, until a
flush that meets no write sets them right.

**Cache** (`StateCacheProofs`): `TypeCorrect`, `NewestSetAlwaysWins`, `ResumePointRight`,
`MirrorAlwaysAgrees`, `ViewAlwaysAgrees`, `DeletedRemainsDeleted`, for every set of keys and any
number of envelopes, in any order, repeated or lost. `CacheInv` accounts for every set
that arrived: stored, superseded, or older than a deletion that arrived too (`Accounted`); while
an envelope is merged the host's view lacks exactly what the result under construction says
(`ViewLags`); and without overtaking the last operation merged is the newest (`Settled`).

Lemmas that need induction (that a set of request ids can be put in order, for one) use the
least-number principle, `LeastNatural`, which follows from the library's `WFMin`: the least
counterexample has a predecessor that is none.

**Audio and data paths** (`MediaPathProofs`): `MediaCopiesFit` and `MediaHeardAsMeant`, for every
block and packet size, length of a datagram, table of layouts, cache operation and width of a byte,
on every track that `BuffersSuit`: an Opus encoder whose frame is no longer than the configured one
(always, unless a refused duration leaves it at 240 frames and fewer are configured) with up to 255 channels, or
PCM of up to 960 frames or of more than a datagram takes. `MediaHeardAsMeant` excepts, besides, Opus
audio in a layout that encoder and decoder do not share, and has Opus frames of more than 960
samples lost. From `TrackAssumption` (no empty frames, layouts of 3 to 255 channels),
`CacheOpsAssumption` (an op id of 8 bytes, a node id of 4, a value that 4 bytes can count) and
`ByteAssumption`. `MediaInv` says of the sender that the block it holds is one
frame of the codec and that its bytes fit `encode_output_buffer` (`BlockSound`), and of every
datagram on its way that its bytes carry what the sender meant (`InFlightSound`): a plain
header with the right alias and the payload behind it, or the same with the extension block the
server puts in between. Both properties then need the wire format:

- `VarintRead` (of `WireProofs`): a varint that stands anywhere in a buffer is read to its end, and below 62 bits
  gives back the number. The digits of `BigEndian` are put together again one by one, for each
  of the four lengths;
- `CarriedRead`: `parse_object_datagram()` finds alias and payload of every such datagram. Object
  ids of 2^62 and more, which an endless session would reach, come out different but are still
  skipped correctly, so this needs no bound on them;
- `EnvelopeRead`: `decode_cache_op()` inverts `encode_cache_op()`, and an over-long topic or key
  is cut to what its length field can say without moving the field behind it.

**Wire format of the control messages** (`WireProofs`), for every width of a byte. Each kind of
value is read back wherever it stands in a buffer: numbers, strings, bytes, then several fields in a row,
namespaces, and parameters. The last are sorted by key and sent with the differences of their keys; the
proof says that `Sorted` has every parameter once, with increasing keys, so that the differences are
numbers again and adding them up restores the keys. Counted lists of any length are the reason for
induction: the reader is after the n-th element where the writer was after writing n of them, and
the least n for which this fails has a predecessor. `FrameRead` and `FrameCut` are the two halves of
framing: a message that is there as a whole is taken off the buffer exactly, and one of which a byte is
missing is left alone, wherever it was cut: in the type, in the length or in the content.

**Control stream** (`ControlStreamProofs`): `ControlStreamTypes`, `ServerHearsAll` and `StreamIsChannel`, the
refinement of `MessageChannel`, for every set of scripts, every size of pieces, any length of the queue and any
number of connections. From `ByteAssumption`, `BoundsAssumption` and `MessagesAssumption`: what is sent
can be written, i.e. numbers have 62 bits, no parameter key occurs twice, a content is shorter than its two
bytes of length can say (the finding about 64 KiB), there is a number for each answer, and a server begins with
SERVER_SETUP.

- `MessageRead` and `MessageCut`: the parsers read in a message of each of the nine kinds what its sender meant
  (`Meaning`, which uses neither builders nor parsers of messages), or nothing yet. `StreamReadBack`: the reader of a whole
  stream finds the messages that were written, however many; this is `ServerHears`.
- `StreamKept`: the inductive invariant `IInv`. `NothingLost` says that the unparsed bytes of
  `recv_buffer`, the pieces in the queue, the bytes in the network and those that a lost connection
  swallowed are, one after the other, the bytes of the messages that were sent and are not handled.
  `HandledInOrder` says what the handled ones were read as, `Spoken` what the client has said
  about them, `CleanBetween` that nothing is left where there is no connection, and `Types` the rest. Neither the queue
  nor the offset in `recv_buffer` would be enough by itself: a step of the worker or of the session thread
  only moves bytes from one of these places to the next.
- Each step is then a step of the channel or leaves it alone: `ServerSends` is its `Send`, `HandleMessage` its
  `Deliver`, since the front of the unparsed bytes is the next message that is not handled, `DisconnectClear` its
  `EndConnection`.

Only model-checked: the liveness properties (`ReconnectResolves`, `DisconnectReturns`, `GrantTakesEffect`,
`AudioLeaves`, `PollReturns`, `HandledEventually`), since fairness and `ENABLED` are out of the prover's reach. That no message waits for bytes that are there (`HandledEventually`) is one of them; its safety
half is in `MessageRead`.

## 5. What is not modelled

- Memory orders weaker than sequential consistency (the relaxed load of
  `buffered_` in `RingBuffer::write` is a listed hazard).
- Statistics and logging, which nothing reads back.
- `panaudia_core.cpp`, which forwards; `send_worker.cpp` and `recv_worker.cpp`, which are
  empty; `decode_plc()`, which nothing calls; moves and destructors of the Opus
  wrappers; the allocation of send buffers for msquic; `update_jwt()`, which stores a string.
- Streams that the server opens, messages with the same parameter key twice, numbers of 2^62
  and more, and lengths of 2^31 and more, which the code converts to `int32_t`.
- `configure()` during a session, and host callbacks that call back into the library
  (`disconnect()` from the status callback would join its own thread).
- A server that breaks the protocol: answers to requests nobody made, aliases given twice.
- `connect()` during a running session is followed only to its `std::terminate`.

## 6. Plan

Done: all modules of section 2 with their runs, and the proofs of section 4. What would come next:

1. The configurations `JitterBuffer`'s constructor accepts: the unsigned
   underflow of `target_low_` below 10 ms of initial latency.
2. Streams that the server opens, once the client keeps their bytes apart.
