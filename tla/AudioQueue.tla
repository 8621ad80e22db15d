----------------------------- MODULE AudioQueue -----------------------------
(***************************************************************************)
(* What an outbound audio ring promises its two users: a queue of at most  *)
(* Capacity samples.  A write that does not fit first evicts exactly the   *)
(* oldest samples that are in the way; a read takes the oldest samples, in *)
(* order.  Samples are named by their position in the producer's stream.   *)
(***************************************************************************)
EXTENDS Integers, Sequences

CONSTANTS
    Capacity,
    MaxBlock  \* the largest block a producer may hand over

VARIABLES
    queue,    \* the samples held, oldest first
    written,  \* how many samples the producer has handed over
    pending,  \* size of the write in progress, 0 when there is none
    block     \* what the last completed read returned

vars == <<queue, written, pending, block>>

Stream(from, n) == [i \in 1..n |-> from + i]

Init ==
    /\ queue = <<>>
    /\ written = 0
    /\ pending = 0
    /\ block = <<>>

Request(n) ==
    /\ pending = 0
    /\ pending' = n
    /\ UNCHANGED <<queue, written, block>>

\* Of a block larger than the whole queue only the tail is kept.
Keep == IF pending > Capacity THEN Capacity ELSE pending

\* Make room: only when the write does not fit, and only as much as it needs.
Evict ==
    LET excess == Len(queue) + Keep - Capacity IN
    /\ excess > 0
    /\ queue' = SubSeq(queue, excess + 1, Len(queue))
    /\ UNCHANGED <<written, pending, block>>

Deposit ==
    /\ pending > 0
    /\ Len(queue) + Keep <= Capacity
    /\ queue' = queue \o Stream(written + pending - Keep, Keep)
    /\ written' = written + pending
    /\ pending' = 0
    /\ UNCHANGED block

Take(n) ==
    /\ block' = SubSeq(queue, 1, n)
    /\ queue' = SubSeq(queue, n + 1, Len(queue))
    /\ UNCHANGED <<written, pending>>

Clear ==
    /\ queue' = <<>>
    /\ UNCHANGED <<written, pending, block>>

Next ==
    \/ \E n \in 1..MaxBlock : Request(n)
    \/ Evict
    \/ Deposit
    \/ \E n \in 1..Len(queue) : Take(n)
    \/ Clear

Spec == Init /\ [][Next]_vars
=============================================================================
