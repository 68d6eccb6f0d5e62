---------------------------- MODULE BoundedFifo -----------------------------
(***************************************************************************)
(* What a bounded queue promises: items come out in the order in which     *)
(* they went in, each exactly once, and at most Capacity wait inside.      *)
(***************************************************************************)
EXTENDS Naturals, Sequences

CONSTANTS Values, Capacity

VARIABLES
    fifo,  \* the items inside, oldest first
    out    \* the items taken out last, a sequence of length at most one

Init == fifo = <<>> /\ out = <<>>

Push(x) ==
    /\ Len(fifo) < Capacity
    /\ fifo' = Append(fifo, x)
    /\ UNCHANGED out

Pop ==
    /\ fifo # <<>>
    /\ fifo' = Tail(fifo)
    /\ out' = <<Head(fifo)>>

Next == Pop \/ \E x \in Values : Push(x)

Spec == Init /\ [][Next]_<<fifo, out>>
=============================================================================
