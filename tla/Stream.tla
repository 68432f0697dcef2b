------------------------------- MODULE Stream -------------------------------
(***************************************************************************)
(* What a connection's data path promises: numbered chunks are sent and    *)
(* received in order, one or several at a time, until the sender closes.   *)
(* An interruption may discard the end of the stream, and then the whole   *)
(* of it never arrives; it never leaves a gap, repeats or reorders.        *)
(* Dispatcher implements it.                                               *)
(***************************************************************************)
EXTENDS Naturals, Sequences

CONSTANT MaxSent  \* chunks the sender may send (a bound)

VARIABLES
    sent,      \* chunks sent
    received,  \* chunks received
    closed,    \* the sender sends no more
    lost       \* some chunk is never received

vars == <<sent, received, closed, lost>>

Init == sent = 0 /\ received = <<>> /\ closed = FALSE /\ lost = FALSE

Send ==
    /\ ~closed /\ sent < MaxSent
    /\ sent' = sent + 1
    /\ UNCHANGED <<received, closed, lost>>

Receive ==
    /\ \E n \in (Len(received) + 1)..sent :
        /\ lost => n < sent
        /\ received' = [i \in 1..n |-> i]
    /\ UNCHANGED <<sent, closed, lost>>

Close ==
    /\ closed' = TRUE
    /\ UNCHANGED <<sent, received, lost>>

Interrupt ==
    /\ Len(received) < sent
    /\ lost' = TRUE
    /\ closed' \in {closed, TRUE}
    /\ UNCHANGED <<sent, received>>

Next == Send \/ Receive \/ Close \/ Interrupt

Spec == Init /\ [][Next]_vars
=============================================================================
