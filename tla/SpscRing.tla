----------------------------- MODULE SpscRing -------------------------------
(***************************************************************************)
(* SpscQueue, the lock-free ring buffer between the ingestion threads and  *)
(* the main loop.  A push loads the indexes, writes the slot and publishes *)
(* the new tail; a pop loads the indexes, moves the item out of its slot   *)
(* and publishes the new head.  The release stores and acquire loads of    *)
(* the indexes make the slots visible with them.                           *)
(*                                                                         *)
(* The class is meant for one producer.  Producers is the set of threads   *)
(* that really push: EventRouter::route runs on the socket thread and on   *)
(* the poll thread.                                                        *)
(***************************************************************************)
EXTENDS Integers, Sequences

CONSTANTS
    Values,     \* items
    Producers,  \* threads that call try_push
    Slots,      \* cap_, the number of slots
    NoValue     \* what a moved-from slot holds

ASSUME SlotsAssumption == Slots \in Nat /\ Slots >= 2
ASSUME NoValueAssumption == NoValue \notin Values

VARIABLES
    buf,      \* buf_
    head,     \* head_
    tail,     \* tail_
    pushPc,   \* where each producer is inside try_push
    pushAt,   \* the slot it has chosen
    pushItem, \* the item it pushes
    popPc,    \* where the consumer is inside try_pop
    item,     \* the item it has moved out
    out       \* the result of the last pop that returned an item

vars == <<buf, head, tail, pushPc, pushAt, pushItem, popPc, item, out>>

Indexes == 0..(Slots - 1)

\* (i + 1) & mask_.
Succ(i) == IF i + 1 = Slots THEN 0 ELSE i + 1

-----------------------------------------------------------------------------

Init ==
    /\ buf = [i \in Indexes |-> NoValue]
    /\ head = 0
    /\ tail = 0
    /\ pushPc = [p \in Producers |-> "idle"]
    /\ pushAt = [p \in Producers |-> 0]
    /\ pushItem = [p \in Producers |-> NoValue]
    /\ popPc = "idle"
    /\ item = NoValue
    /\ out = <<>>

\* Mutant: the ring is used to its last slot.
NeverFull == FALSE

\* try_push refuses when only one slot is left.
Full == Succ(tail) = head

\* try_push loads the indexes and chooses the slot at the tail; when the ring
\* is full it returns false and nothing changes.
PushCheck(p, x) ==
    /\ pushPc[p] = "idle"
    /\ ~Full
    /\ pushPc' = [pushPc EXCEPT ![p] = "write"]
    /\ pushAt' = [pushAt EXCEPT ![p] = tail]
    /\ pushItem' = [pushItem EXCEPT ![p] = x]
    /\ UNCHANGED <<buf, head, tail, popPc, item, out>>

\* buf_[t] = item.
PushWrite(p) ==
    /\ pushPc[p] = "write"
    /\ buf' = [buf EXCEPT ![pushAt[p]] = pushItem[p]]
    /\ pushPc' = [pushPc EXCEPT ![p] = "publish"]
    /\ UNCHANGED <<head, tail, pushAt, pushItem, popPc, item, out>>

\* tail_.store(next).
PushPublish(p) ==
    /\ pushPc[p] = "publish"
    /\ tail' = Succ(pushAt[p])
    /\ pushPc' = [pushPc EXCEPT ![p] = "idle"]
    /\ pushItem' = [pushItem EXCEPT ![p] = NoValue]
    /\ UNCHANGED <<buf, head, pushAt, popPc, item, out>>

\* try_pop finds an item; otherwise it returns nothing and nothing changes.
PopCheck ==
    /\ popPc = "idle"
    /\ head # tail
    /\ popPc' = "take"
    /\ UNCHANGED <<buf, head, tail, pushPc, pushAt, pushItem, item, out>>

\* T item = std::move(buf_[h]).
PopTake ==
    /\ popPc = "take"
    /\ item' = buf[head]
    /\ buf' = [buf EXCEPT ![head] = NoValue]
    /\ popPc' = "free"
    /\ UNCHANGED <<head, tail, pushPc, pushAt, pushItem, out>>

\* head_.store((h + 1) & mask_), and the item is returned.
PopFree ==
    /\ popPc = "free"
    /\ head' = Succ(head)
    /\ out' = <<item>>
    /\ item' = NoValue
    /\ popPc' = "idle"
    /\ UNCHANGED <<buf, tail, pushPc, pushAt, pushItem>>

TryPush(p) ==
    \/ \E x \in Values : PushCheck(p, x)
    \/ PushWrite(p)
    \/ PushPublish(p)

TryPop == PopCheck \/ PopTake \/ PopFree

Next == TryPop \/ \E p \in Producers : TryPush(p)

Spec == Init /\ [][Next]_vars

-----------------------------------------------------------------------------

TypeOK ==
    /\ buf \in [Indexes -> Values \cup {NoValue}]
    /\ head \in Indexes
    /\ tail \in Indexes
    /\ pushPc \in [Producers -> {"idle", "write", "publish"}]
    /\ pushAt \in [Producers -> Indexes]
    /\ pushItem \in [Producers -> Values \cup {NoValue}]
    /\ popPc \in {"idle", "take", "free"}
    /\ item \in Values \cup {NoValue}
    /\ out = <<>> \/ \E x \in Values \cup {NoValue} : out = <<x>>

\* size_approx: (t - h) & mask_.
Size == IF tail >= head THEN tail - head ELSE tail - head + Slots

\* The slot of the i-th oldest item.
SlotOf(i) == IF head + i - 1 < Slots THEN head + i - 1 ELSE head + i - 1 - Slots

\* The items inside: the consumer may have moved the oldest one out already.
Contents ==
    [i \in 1..Size |-> IF i = 1 /\ popPc = "free" THEN item ELSE buf[SlotOf(i)]]

Fifo == INSTANCE BoundedFifo
        WITH Capacity <- Slots - 1, fifo <- Contents, out <- out

\* "Single-producer single-consumer ring buffer" (spsc_queue.hpp:9): with one
\* producer the ring is a queue of one item less than its slots.  No item is
\* lost, duplicated, overtaken or read before it is written, wherever the
\* push and the pop interleave and the indexes wrap.
IsFifo == Fifo!Spec

-----------------------------------------------------------------------------

\* What makes the refinement provable: the producer owns the free slot at the
\* tail, the consumer the oldest item.
ProducerOwnsSlot ==
    \A p \in Producers : pushPc[p] # "idle" =>
        /\ pushAt[p] = tail
        /\ ~Full
        /\ pushItem[p] \in Values
        /\ pushPc[p] = "publish" => buf[tail] = pushItem[p]

ConsumerOwnsItem ==
    /\ popPc # "idle" => head # tail
    /\ popPc = "free" => item \in Values

InsideAreValues ==
    \A i \in 1..Size : (i = 1 /\ popPc = "free") \/ buf[SlotOf(i)] \in Values

IInv == TypeOK /\ ProducerOwnsSlot /\ ConsumerOwnsItem /\ InsideAreValues
=============================================================================
