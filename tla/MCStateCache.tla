---------------------------- MODULE MCStateCache ----------------------------
(***************************************************************************)
(* Model checking of StateCache.  Nothing tells two keys apart.            *)
(***************************************************************************)
EXTENDS StateCache, TLC

KeySymmetry == Permutations(Keys)
=============================================================================
