----------------------------- MODULE MCSession -----------------------------
(***************************************************************************)
(* Model checking of Session; the .cfg files give its two constants.       *)
(***************************************************************************)
EXTENDS Session
=============================================================================
