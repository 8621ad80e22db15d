---------------------------- MODULE MCRingBuffer ----------------------------
(* Bounded instances of RingBuffer for TLC; each .cfg picks a specification. *)
EXTENDS RingBuffer
=============================================================================
