---------------------------- MODULE MCMediaPath ----------------------------
(***************************************************************************)
(* Model checking of MediaPath with the code's own sizes, and bytes of 3   *)
(* bits in headers and envelopes.                                          *)
(***************************************************************************)
EXTENDS MediaPath

Track(codec, channels, sample_rate, frame_size_ms) ==
    [codec |-> codec, channels |-> channels, sample_rate |-> sample_rate,
     frame_size_ms |-> frame_size_ms]

\* What libopus chooses for mapping family 2: a stream for every channel of an
\* ambisonics order, and one more, coupled, for two channels more than that.
MCLayouts ==
    [n \in {3, 4, 6, 9} |->
        IF n \in {3, 6} THEN [streams |-> n - 1, coupled |-> 1]
        ELSE [streams |-> n, coupled |-> 0]]

\* The default, ambisonics at the limit of decode_buffer, frames beyond it, a rate,
\* a layout and a duration that Opus does not know, and a layout that the decoder
\* does not expect; PCM that fits a datagram and PCM that does not.  At 12 kHz the
\* ring holds less than the host may write.
MCTracks ==
    {Track("Opus", 1, 48000, 5), Track("Opus", 4, 48000, 20), Track("Opus", 2, 24000, 60),
     Track("Opus", 1, 44100, 10), Track("Opus", 5, 48000, 20), Track("Opus", 1, 48000, 15),
     Track("Opus", 6, 48000, 20),
     Track("PCM", 1, 12000, 24), Track("PCM", 2, 16000, 9), Track("PCM", 2, 48000, 5)}

\* A duration that Opus does not know, of fewer frames than the encoder's default.
ShortTracks == {Track("Opus", 1, 8000, 15)}

\* First-order ambisonics and two channels more.
MixedTracks == {Track("Opus", 6, 48000, 5)}

\* Topics of up to 7 bytes and keys of up to 63 fit.
MCCacheOps ==
    {[topic |-> [i \in 1 .. t |-> 1], key |-> [i \in 1 .. k |-> 2], value |-> <<3, 4>>,
      op_id |-> 2 ^ 23, node_id |-> 4095, tombstone |-> k = 0] : t \in {0, 7, 9}, k \in {0, 65}}
=============================================================================
