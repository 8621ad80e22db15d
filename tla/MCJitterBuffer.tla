--------------------------- MODULE MCJitterBuffer ---------------------------
(***************************************************************************)
(* Model checking of JitterBuffer.  At sample_rate = 1000 a millisecond is *)
(* one sample per channel.                                                 *)
(***************************************************************************)
EXTENDS JitterBuffer
=============================================================================
