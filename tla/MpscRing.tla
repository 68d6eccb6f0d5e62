------------------------------ MODULE MpscRing ------------------------------
(***************************************************************************)
(* MpscQueue, a ring whose cells carry sequence numbers.  A producer       *)
(* claims the position at the tail by compare-and-swap, writes its cell    *)
(* and publishes it through the cell's sequence number; the consumer takes *)
(* a published cell, hands it to the next lap and moves the head.          *)
(* Positions count up for ever, as std::size_t does for as long as it      *)
(* matters; MaxPos bounds them for TLC.                                    *)
(***************************************************************************)
EXTENDS Integers, Sequences

CONSTANTS
    Values, Producers,
    Cells,      \* cap_, a power of two
    NoValue,    \* a cell that holds nothing
    MaxPos      \* bound: positions claimed

VARIABLES
    head, tail, \* head_ and tail_
    sequence,   \* Slot::sequence
    data,       \* Slot::data
    push,       \* by producer: where it is in try_push, its pos and its item
    pop,        \* where the consumer is in try_pop
    item,       \* what it has moved out
    out         \* the result of the last pop that returned an item

vars == <<head, tail, sequence, data, push, pop, item, out>>

Cell(pos) == pos % Cells
Resting == [pc |-> "idle", pos |-> 0, item |-> NoValue]

Init ==
    /\ head = 0 /\ tail = 0
    /\ sequence = [i \in 0 .. Cells - 1 |-> i]
    /\ data = [i \in 0 .. Cells - 1 |-> NoValue]
    /\ push = [p \in Producers |-> Resting]
    /\ pop = "idle" /\ item = NoValue /\ out = <<>>

-----------------------------------------------------------------------------

\* try_push loads the tail; other producers may move it before the swap.
PushLoad(p, x) ==
    /\ push[p].pc = "idle" /\ tail < MaxPos
    /\ push' = [push EXCEPT ![p] = [pc |-> "compare", pos |-> tail, item |-> x]]
    /\ UNCHANGED <<head, tail, sequence, data, pop, item, out>>

\* The cell at pos is free for this lap (dif == 0).
Free(pos) == sequence[Cell(pos)] = pos

\* ... otherwise try_push returns false (dif < 0), or loads the tail again.
PushCompare(p) ==
    LET pos == push[p].pos IN
    /\ push[p].pc = "compare"
    /\ push' = [push EXCEPT ![p] =
           IF Free(pos) THEN [@ EXCEPT !.pc = "swap"]
           ELSE IF sequence[Cell(pos)] < pos THEN Resting
           ELSE [@ EXCEPT !.pos = tail]]
    /\ UNCHANGED <<head, tail, sequence, data, pop, item, out>>

\* Mutant: the tail is stored without comparing it.
SwapAnyway(p) == TRUE

\* The compare-and-swap finds the tail where it was loaded.
Swaps(p) == tail = push[p].pos

PushSwap(p) ==
    /\ push[p].pc = "swap"
    /\ IF Swaps(p)
       THEN tail' = push[p].pos + 1 /\ push' = [push EXCEPT ![p].pc = "write"]
       ELSE push' = [push EXCEPT ![p].pc = "compare", ![p].pos = tail] /\ UNCHANGED tail
    /\ UNCHANGED <<head, sequence, data, pop, item, out>>

PushWrite(p) ==
    /\ push[p].pc = "write"
    /\ data' = [data EXCEPT ![Cell(push[p].pos)] = push[p].item]
    /\ push' = [push EXCEPT ![p].pc = "publish"]
    /\ UNCHANGED <<head, tail, sequence, pop, item, out>>

PushPublish(p) ==
    /\ push[p].pc = "publish"
    /\ sequence' = [sequence EXCEPT ![Cell(push[p].pos)] = push[p].pos + 1]
    /\ push' = [push EXCEPT ![p] = Resting]
    /\ UNCHANGED <<head, tail, data, pop, item, out>>

\* try_pop returns nothing unless the cell at the head has been published.
PopTake ==
    /\ pop = "idle" /\ sequence[Cell(head)] = head + 1
    /\ item' = data[Cell(head)]
    /\ data' = [data EXCEPT ![Cell(head)] = NoValue]
    /\ pop' = "free"
    /\ UNCHANGED <<head, tail, sequence, push, out>>

\* The cell is handed to the next lap, before the head moves.
PopFree ==
    /\ pop = "free"
    /\ sequence' = [sequence EXCEPT ![Cell(head)] = head + Cells]
    /\ out' = <<item>> /\ item' = NoValue
    /\ pop' = "move"
    /\ UNCHANGED <<head, tail, data, push>>

PopMove ==
    /\ pop = "move"
    /\ head' = head + 1
    /\ pop' = "idle"
    /\ UNCHANGED <<tail, sequence, data, push, item, out>>

TryPush(p) ==
    \/ \E x \in Values : PushLoad(p, x)
    \/ PushCompare(p) \/ PushSwap(p) \/ PushWrite(p) \/ PushPublish(p)
TryPop == PopTake \/ PopFree \/ PopMove

Next == TryPop \/ \E p \in Producers : TryPush(p)
Spec == Init /\ [][Next]_vars

-----------------------------------------------------------------------------

\* The oldest position that still holds an item, and the items by position: the
\* consumer's, a producer's that has claimed its cell, or the cell's.
First == IF pop = "move" THEN head + 1 ELSE head
ItemAt(pos) ==
    LET owners == {p \in Producers : push[p].pc \in {"write", "publish"} /\ push[p].pos = pos} IN
    IF pos = head /\ pop = "free" THEN item
    ELSE IF owners # {} THEN push[CHOOSE p \in owners : TRUE].item
    ELSE data[Cell(pos)]
Contents == [i \in 1 .. (tail - First) |-> ItemAt(First + i - 1)]

Fifo == INSTANCE BoundedFifo WITH Capacity <- Cells, fifo <- Contents, out <- out

(* "Multi-producer single-consumer queue" (mpsc_queue.hpp): however many   *)
(* producers race for the tail, the ring is a FIFO queue of its capacity;  *)
(* an item is inside from the swap that claims its cell, and a producer    *)
(* that is slow to write it holds back the consumer, never an item.        *)
MpscIsFifo == Fifo!Spec

(* A cell that a producer is writing is not read: nothing moved out of the *)
(* ring is a value that was never pushed.                                  *)
NeverUnwritten == out # <<>> => out[1] \in Values

=============================================================================
