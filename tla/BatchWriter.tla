----------------------------- MODULE BatchWriter ----------------------------
(***************************************************************************)
(* BatchWriter: a bounded queue, the writer thread that moves its items    *)
(* one by one to a buffer and writes the buffer when it is full, callers   *)
(* of flush, and stop.                                                     *)
(*                                                                         *)
(* The thread that pops an item holds no lock until it puts the item in    *)
(* the buffer; flush swaps the buffer, drains the queue and writes as      *)
(* separate steps.  There is no writing by time: an item that does not     *)
(* fill its batch waits in memory for a flush or the stop.                 *)
(***************************************************************************)
EXTENDS Integers, Sequences, SequencesExt, FiniteSets

CONSTANTS
    Items,      \* what is enqueued, each once
    BatchSize,  \* batch_size_
    Cap,        \* capacity of queue_
    Nothing     \* no item in hand

VARIABLES
    queue, closed, \* queue_
    buffer,     \* buffer_
    running,    \* running_
    thread,     \* where run is
    hand,       \* the item that run has popped
    batch,      \* what run, flush and stop are writing, by name
    flusher,    \* where a caller of flush is
    stopper,    \* where stop is
    accepted,   \* history: the items for which enqueue succeeded, in order
    handled,    \* history: the items that writeBatch went over, in order
    fate,       \* history: what became of an item when it was written
    flushed     \* history: flush was called beside the thread

vars == <<queue, closed, buffer, running, thread, hand, batch, flusher, stopper,
          accepted, handled, fate, flushed>>

Writers == {"run", "flush", "stop"}

\* written_, errors_ and offline_drops_ count what became of an item.  A
\* statement that the server ran and whose answer was lost counts as an error.
Fates == {"written", "failed", "unanswered", "offline"}

Init ==
    /\ queue = <<>> /\ closed = FALSE /\ buffer = <<>> /\ running = FALSE
    /\ thread = "none" /\ hand = Nothing /\ batch = [w \in Writers |-> <<>>]
    /\ flusher = "idle" /\ stopper = "idle"
    /\ accepted = <<>> /\ handled = <<>> /\ flushed = FALSE
    /\ fate = [i \in Items |-> "none"]

-----------------------------------------------------------------------------

Start ==
    /\ ~running /\ thread = "none" /\ stopper = "idle"
    /\ running' = TRUE /\ thread' = "check"
    /\ UNCHANGED <<queue, closed, buffer, hand, batch, flusher, stopper, accepted, handled, fate, flushed>>

\* enqueue and the enqueueX of each kind; a refused item is counted and dropped.
Enqueue(i) ==
    /\ i \notin ToSet(accepted) /\ ~closed /\ Len(queue) < Cap
    /\ queue' = Append(queue, i) /\ accepted' = Append(accepted, i)
    /\ UNCHANGED <<closed, buffer, running, thread, hand, batch, flusher, stopper, handled, fate, flushed>>

\* No stop was requested and running_ holds.
Continues == running /\ stopper # "join"

\* run: the loop's condition, ...
Check ==
    /\ thread = "check"
    /\ thread' = IF Continues THEN "pop" ELSE "ended"
    /\ UNCHANGED <<queue, closed, buffer, running, hand, batch, flusher, stopper, accepted, handled, fate, flushed>>

\* ... an item or a timeout, after which the buffer, always short of a batch,
\* is left alone, ...
Pop ==
    /\ thread = "pop"
    /\ \/ /\ queue # <<>>
          /\ hand' = Head(queue) /\ queue' = Tail(queue) /\ thread' = "put"
       \/ /\ queue = <<>> /\ thread' = "check" /\ UNCHANGED <<hand, queue>>
    /\ UNCHANGED <<closed, buffer, running, batch, flusher, stopper, accepted, handled, fate, flushed>>

\* What is left in the buffer after batch.swap.
Swapped(b) == <<>>

\* ... and the buffer, taken when it is full.
Put ==
    LET b == Append(buffer, hand) IN
    /\ thread = "put"
    /\ IF Len(b) >= BatchSize
       THEN batch' = [batch EXCEPT !["run"] = b] /\ buffer' = Swapped(b) /\ thread' = "write"
       ELSE buffer' = b /\ thread' = "check" /\ UNCHANGED batch
    /\ hand' = Nothing
    /\ UNCHANGED <<queue, closed, running, flusher, stopper, accepted, handled, fate, flushed>>

\* writeBatch takes the items in turn: one whose statement fails, or that meets
\* a database that is not connected, is counted and given up, and the batch goes
\* on with the next.
Writing(w) ==
    \/ w = "run" /\ thread = "write"
    \/ w = "flush" /\ flusher = "write"
    \/ w = "stop" /\ stopper = "write"
WriteBatch(w) ==
    /\ Writing(w) /\ batch[w] # <<>>
    /\ handled' = Append(handled, Head(batch[w]))
    /\ \E f \in Fates : fate' = [fate EXCEPT ![Head(batch[w])] = f]
    /\ batch' = [batch EXCEPT ![w] = Tail(@)]
    /\ UNCHANGED <<queue, closed, buffer, running, thread, hand, flusher, stopper, accepted, flushed>>

Written ==
    /\ thread = "write" /\ batch["run"] = <<>> /\ thread' = "check"
    /\ UNCHANGED <<queue, closed, buffer, running, hand, batch, flusher, stopper, accepted, handled, fate, flushed>>

\* The next item of the queue goes behind those of the buffer.
Behind(b) == Append(b, Head(queue))

\* flush: the buffer is swapped and what the queue holds, popped item by item,
\* put behind it.
FlushSwap ==
    /\ flusher = "idle" /\ stopper = "idle"
    /\ batch' = [batch EXCEPT !["flush"] = buffer] /\ buffer' = Swapped(buffer)
    /\ flusher' = "drain" /\ flushed' = TRUE
    /\ UNCHANGED <<queue, closed, running, thread, hand, stopper, accepted, handled, fate>>
Drain(w) ==
    /\ queue # <<>>
    /\ batch' = [batch EXCEPT ![w] = Behind(@)] /\ queue' = Tail(queue)
    /\ UNCHANGED <<closed, buffer, running, thread, hand, flusher, stopper, accepted, handled, fate, flushed>>
FlushDrain == flusher = "drain" /\ Drain("flush")
FlushDrained ==
    /\ flusher = "drain" /\ queue = <<>> /\ flusher' = "write"
    /\ UNCHANGED <<queue, closed, buffer, running, thread, hand, batch, stopper, accepted, handled, fate, flushed>>
FlushEnds ==
    /\ flusher = "write" /\ batch["flush"] = <<>> /\ flusher' = "idle"
    /\ UNCHANGED <<queue, closed, buffer, running, thread, hand, batch, stopper, accepted, handled, fate, flushed>>

\* stop: running_, the queue, the join, and a flush of what is left.
StopRunning ==
    /\ stopper = "idle" /\ stopper' = "close" /\ running' = FALSE
    /\ UNCHANGED <<queue, closed, buffer, thread, hand, batch, flusher, accepted, handled, fate, flushed>>
StopClose ==
    /\ stopper = "close" /\ stopper' = "join" /\ closed' = TRUE
    /\ UNCHANGED <<queue, buffer, running, thread, hand, batch, flusher, accepted, handled, fate, flushed>>

\* Mutant: stop does not wait for the thread.
NoJoin == TRUE

\* The jthread is joined, if start made one.
Joined == thread \in {"none", "ended"}

StopJoin ==
    /\ stopper = "join" /\ Joined
    /\ batch' = [batch EXCEPT !["stop"] = buffer]
    /\ buffer' = Swapped(buffer) /\ stopper' = "drain"
    /\ UNCHANGED <<queue, closed, running, thread, hand, flusher, accepted, handled, fate, flushed>>
StopDrain == stopper = "drain" /\ Drain("stop")
StopDrained ==
    /\ stopper = "drain" /\ queue = <<>> /\ stopper' = "write"
    /\ UNCHANGED <<queue, closed, buffer, running, thread, hand, batch, flusher, accepted, handled, fate, flushed>>
StopEnds ==
    /\ stopper = "write" /\ batch["stop"] = <<>> /\ stopper' = "done"
    /\ UNCHANGED <<queue, closed, buffer, running, thread, hand, batch, flusher, accepted, handled, fate, flushed>>

Run == Check \/ Pop \/ Put \/ Written
Flush == FlushSwap \/ FlushDrain \/ FlushDrained \/ FlushEnds
StopGoesOn == StopClose \/ StopJoin \/ StopDrain \/ StopDrained \/ StopEnds
Stop == StopRunning \/ StopGoesOn

Next ==
    \/ Start \/ Run \/ Flush \/ Stop
    \/ \E i \in Items : Enqueue(i)
    \/ \E w \in Writers : WriteBatch(w)

\* pop waits 50 ms at most, and a stop that has begun is a running thread.
Fairness ==
    /\ WF_vars(Run) /\ WF_vars(StopGoesOn)
    /\ \A w \in Writers : WF_vars(WriteBatch(w))
Spec == Init /\ [][Next]_vars /\ Fairness

-----------------------------------------------------------------------------

InHand == {hand} \ {Nothing}
InMemory == ToSet(queue) \cup ToSet(buffer) \cup InHand \cup UNION {ToSet(batch[w]) : w \in Writers}

\* What the database holds, and what errors_ and offline_drops_ tell of.
InTable == {i \in Items : fate[i] \in {"written", "unanswered"}}
Counted == {i \in Items : fate[i] \in {"failed", "unanswered", "offline"}}

(* An accepted item is in memory, in the database, or counted as an error  *)
(* or an offline drop: no item vanishes unnoticed beside a flush, behind a *)
(* statement that fails in the middle of its batch, or at a stop.  What is *)
(* no longer in memory was tried once, and is never tried again:           *)
(* batch_writer.hpp keeps no item whose statement failed (lines 148-161).  *)
NeitherLostNorTwice ==
    /\ IsInjective(handled)
    /\ (InTable \cup Counted) \cap InMemory = {}
    /\ ToSet(accepted) = InTable \cup Counted \cup InMemory

(* The statements of rounds, predictions and outcomes are run in the order *)
(* in which these were enqueued, unless flush was called beside the thread:    *)
(* that may overtake the item the thread has popped (batch_writer.hpp,     *)
(* lines 107 and 118).                                                     *)
HandledInOrder == ~flushed => IsPrefix(handled, accepted)

(* When stop has returned, every item it accepted is in the database or    *)
(* counted: none is left behind in the queue, in the buffer or in the hand *)
(* of the thread.                                                          *)
StopLeavesNothing ==
    stopper = "done" => ToSet(accepted) = InTable \cup Counted \cup ToSet(batch["flush"])

(* What the writer accepted is written or counted as a loss, once, in      *)
(* order and before a stop returns.                                        *)
ItemsSafe == NeitherLostNorTwice /\ HandledInOrder /\ StopLeavesNothing


(* A stop returns, also with statements failing.                           *)
StopReturns == stopper = "close" ~> stopper = "done"

-----------------------------------------------------------------------------
(* The inductive invariant.                                                *)

TypeOK ==
    /\ queue \in Seq(Items) /\ buffer \in Seq(Items) /\ hand \in Items \cup {Nothing}
    /\ batch \in [Writers -> Seq(Items)]
    /\ accepted \in Seq(Items) /\ handled \in Seq(Items)
    /\ closed \in BOOLEAN /\ running \in BOOLEAN /\ flushed \in BOOLEAN
    /\ thread \in {"none", "check", "pop", "put", "write", "ended"}
    /\ flusher \in {"idle", "drain", "write"}
    /\ stopper \in {"idle", "close", "join", "drain", "write", "done"}

\* Where an item can be, and what is there, in the order it came.
Places == {"queue", "hand", "buffer", "handled"} \cup Writers
HandSeq == IF hand = Nothing THEN <<>> ELSE <<hand>>
At == [p \in Places |->
          CASE p = "queue" -> queue [] p = "hand" -> HandSeq [] p = "buffer" -> buffer
            [] p = "handled" -> handled [] OTHER -> batch[p]]

Distinct(f) ==
    \A p, q \in DOMAIN f : \A i \in DOMAIN f[p], j \in DOMAIN f[q] :
        f[p][i] = f[q][j] => p = q /\ i = j
Contents(f) == UNION {ToSet(f[p]) : p \in DOMAIN f}

\* Who still has something in the places that are his.
Owned ==
    /\ hand # Nothing <=> thread = "put"
    /\ thread # "write" => batch["run"] = <<>>
    /\ flusher = "idle" => batch["flush"] = <<>>
    /\ ~flushed => flusher = "idle"
    /\ stopper \notin {"drain", "write"} => batch["stop"] = <<>>

\* What stop has left behind it.
Stopped ==
    /\ stopper \notin {"idle", "close"} => closed
    /\ stopper \in {"drain", "write", "done"} => Joined /\ buffer = <<>>
    /\ stopper \in {"write", "done"} => queue = <<>>

\* Without a flush the places, from the last one back, hold what was accepted.
InOrder ==
    ~flushed => accepted =
        handled \o (batch["run"] \o (batch["stop"] \o (buffer \o (HandSeq \o queue))))

IInv ==
    /\ TypeOK /\ Owned /\ Stopped /\ InOrder
    /\ Distinct(At) /\ Contents(At) = ToSet(accepted)

\* What writeBatch went over, and nothing else, was written or counted.
Settled ==
    /\ fate \in [Items -> Fates \cup {"none"}]
    /\ \A i \in Items : fate[i] # "none" <=> i \in ToSet(handled)

=============================================================================
