--------------------------- MODULE MessageChannel ---------------------------
(***************************************************************************)
(* What a connection promises of the control messages that a server sends: *)
(* each is handed over once, whole, and in the order of sending, until the *)
(* connection ends; the next connection knows nothing of them.             *)
(***************************************************************************)
EXTENDS Naturals, Sequences

CONSTANT Messages

VARIABLES sent, delivered

Init == sent = <<>> /\ delivered = <<>>

Send(m) ==
    /\ sent' = Append(sent, m)
    /\ UNCHANGED delivered

Deliver ==
    /\ Len(delivered) < Len(sent)
    /\ delivered' = Append(delivered, sent[Len(delivered) + 1])
    /\ UNCHANGED sent

EndConnection == sent' = <<>> /\ delivered' = <<>>

Next == Deliver \/ EndConnection \/ \E m \in Messages : Send(m)

Spec == Init /\ [][Next]_<<sent, delivered>>

=============================================================================
