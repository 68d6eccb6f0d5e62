---------------------------- MODULE MemoryOutbox ----------------------------
(***************************************************************************)
(* The in-memory outbox of CrashCore: the class Outbox with its            *)
(* OutboxQueue (a BoundedQueue), the threads that publish signals into it  *)
(* and the OutboxWorker threads that claim items and deliver them.         *)
(*                                                                         *)
(* A publish is not atomic: it reserves the dedupe key under dedupe_mu_,   *)
(* releases the lock, pushes the item, and takes the lock again to drop    *)
(* the reservation when the queue was full.  A delivery is a claim, a call *)
(* of the deliver function outside every lock, and a completion.  Each of  *)
(* these is a step here, so threads interleave between them.               *)
(*                                                                         *)
(* The statistics counters, the timestamps and the text of the signal are  *)
(* not modelled.                                                           *)
(***************************************************************************)
EXTENDS Naturals, Sequences, FiniteSets

CONSTANTS
    Keys,         \* dedupe keys: prediction id and signal kind
    Publishers,   \* threads that call Outbox::publish
    Workers,      \* OutboxWorker threads
    Capacity,     \* capacity of the queue (config outboxCapacity)
    MaxAttempts,  \* constants::OUTBOX_MAX_ATTEMPTS
    DeliveredCap, \* size above which delivered_keys_ is cleared (50'000)
    NoKey,        \* a publisher that publishes nothing
    NoItem        \* a worker that holds nothing

ASSUME CapacityAssumption == Capacity \in Nat \ {0}
ASSUME AttemptsAssumption == MaxAttempts \in Nat \ {0}
ASSUME DeliveredCapAssumption == DeliveredCap \in Nat
ASSUME NoKeyAssumption == NoKey \notin Keys
ASSUME NoItemAssumption == NoItem \notin [key : Keys, attempts : 0..(MaxAttempts - 1)]

VARIABLES
    queue,          \* OutboxQueue: the items waiting to be claimed
    pending_keys,   \* keys reserved by a publish and not yet released
    delivered_keys, \* keys of delivered items (until the set is cleared)
    pubPc,          \* where each publisher is inside publish
    pubKey,         \* the key it has reserved
    wrkPc,          \* where each worker is inside its loop
    wrkItem,        \* the item it holds
    acked,          \* history: successful deliveries of each key
    forgotten,      \* history: delivered_keys has been cleared
    dropped         \* history: keys whose retry met a full queue

vars == <<queue, pending_keys, delivered_keys, pubPc, pubKey, wrkPc, wrkItem,
          acked, forgotten, dropped>>

\* An OutboxItem: its dedupe key and how often its delivery has failed.
Items == [key : Keys, attempts : 0..(MaxAttempts - 1)]

-----------------------------------------------------------------------------

Init ==
    /\ queue = <<>>
    /\ pending_keys = {}
    /\ delivered_keys = {}
    /\ pubPc = [p \in Publishers |-> "idle"]
    /\ pubKey = [p \in Publishers |-> NoKey]
    /\ wrkPc = [w \in Workers |-> "idle"]
    /\ wrkItem = [w \in Workers |-> NoItem]
    /\ acked = [k \in Keys |-> 0]
    /\ forgotten = FALSE
    /\ dropped = {}

\* Mutant: publish looks at the delivered keys only.
RefusedIfDelivered(k) == k \in delivered_keys

\* Mutant: publish looks at the reserved keys only.
RefusedIfPending(k) == k \in pending_keys

\* Outbox::publish refuses a key that is reserved or already delivered.
Refused(k) == k \in delivered_keys \/ k \in pending_keys

\* BoundedQueue::try_push takes an item while the queue is not full.
HasRoom == Len(queue) < Capacity

\* publish returns Duplicate; only a counter changes.
RefuseDuplicate(p, k) ==
    /\ pubPc[p] = "idle"
    /\ Refused(k)
    /\ UNCHANGED vars

\* The first critical section of publish reserves the key.
Reserve(p, k) ==
    /\ pubPc[p] = "idle"
    /\ ~Refused(k)
    /\ pending_keys' = pending_keys \cup {k}
    /\ pubPc' = [pubPc EXCEPT ![p] = "reserved"]
    /\ pubKey' = [pubKey EXCEPT ![p] = k]
    /\ UNCHANGED <<queue, delivered_keys, wrkPc, wrkItem, acked, forgotten, dropped>>

\* OutboxQueue::enqueue takes the item, unless the queue is full.
Enqueue(p) ==
    /\ pubPc[p] = "reserved"
    /\ IF HasRoom
       THEN /\ queue' = Append(queue, [key |-> pubKey[p], attempts |-> 0])
            /\ pubPc' = [pubPc EXCEPT ![p] = "idle"]
            /\ pubKey' = [pubKey EXCEPT ![p] = NoKey]
       ELSE /\ pubPc' = [pubPc EXCEPT ![p] = "full"]
            /\ UNCHANGED <<queue, pubKey>>
    /\ UNCHANGED <<pending_keys, delivered_keys, wrkPc, wrkItem, acked, forgotten, dropped>>

\* The queue was full: publish drops its reservation and returns QueueFull.
Unreserve(p) ==
    /\ pubPc[p] = "full"
    /\ pending_keys' = pending_keys \ {pubKey[p]}
    /\ pubPc' = [pubPc EXCEPT ![p] = "idle"]
    /\ pubKey' = [pubKey EXCEPT ![p] = NoKey]
    /\ UNCHANGED <<queue, delivered_keys, wrkPc, wrkItem, acked, forgotten, dropped>>

\* Outbox::claim pops the oldest item (a timed-out claim changes nothing).
Claim(w) ==
    /\ wrkPc[w] = "idle"
    /\ queue # <<>>
    /\ wrkItem' = [wrkItem EXCEPT ![w] = Head(queue)]
    /\ queue' = Tail(queue)
    /\ wrkPc' = [wrkPc EXCEPT ![w] = "inflight"]
    /\ UNCHANGED <<pending_keys, delivered_keys, pubPc, pubKey, acked, forgotten, dropped>>

\* Deliveries of a key are counted up to two, as far as DeliveredOnce looks.
OneMore(n) == IF n < 2 THEN n + 1 ELSE n

\* The deliver function returns true: the message was sent and acknowledged.
DeliverOk(w) ==
    /\ wrkPc[w] = "inflight"
    /\ wrkPc' = [wrkPc EXCEPT ![w] = "ok"]
    /\ acked' = [acked EXCEPT ![wrkItem[w].key] = OneMore(@)]
    /\ UNCHANGED <<queue, pending_keys, delivered_keys, pubPc, pubKey, wrkItem, forgotten, dropped>>

\* It returns false or throws: rejected, not sent, or sent and not acknowledged.
DeliverFails(w) ==
    /\ wrkPc[w] = "inflight"
    /\ wrkPc' = [wrkPc EXCEPT ![w] = "failed"]
    /\ UNCHANGED <<queue, pending_keys, delivered_keys, pubPc, pubKey, wrkItem,
                   acked, forgotten, dropped>>

\* The worker is done with its item and goes back to the top of its loop.
Finish(w) ==
    /\ wrkPc' = [wrkPc EXCEPT ![w] = "idle"]
    /\ wrkItem' = [wrkItem EXCEPT ![w] = NoItem]

\* Outbox::markDelivered moves the key, and clears the delivered keys when
\* they have become too many.
MarkDelivered(w) ==
    LET keys == delivered_keys \cup {wrkItem[w].key}
        clear == Cardinality(keys) > DeliveredCap
    IN  /\ wrkPc[w] = "ok"
        /\ pending_keys' = pending_keys \ {wrkItem[w].key}
        /\ delivered_keys' = IF clear THEN {} ELSE keys
        /\ forgotten' = (forgotten \/ clear)
        /\ Finish(w)
        /\ UNCHANGED <<queue, pubPc, pubKey, acked, dropped>>

\* Mutant: a failed attempt is not counted.
AttemptsUncounted(item) == item.attempts

\* The failed attempts of an item after one more.
AttemptsAfterFailure(item) == item.attempts + 1

\* The reserved keys after an item is dead-lettered.
DeadLetter(item) == pending_keys \ {item.key}

\* Outbox::markFailed counts the attempt.  The last one dead-letters the item
\* and frees its key; before, the item is queued again, and lost if it does
\* not fit, because the result of enqueue is not looked at.
MarkFailed(w) ==
    LET item == wrkItem[w]
        attempts == AttemptsAfterFailure(item)
    IN  /\ wrkPc[w] = "failed"
        /\ IF attempts >= MaxAttempts
           THEN /\ pending_keys' = DeadLetter(item)
                /\ UNCHANGED <<queue, dropped>>
           ELSE /\ IF HasRoom
                   THEN /\ queue' = Append(queue, [key |-> item.key, attempts |-> attempts])
                        /\ UNCHANGED dropped
                   ELSE /\ dropped' = dropped \cup {item.key}
                        /\ UNCHANGED queue
                /\ UNCHANGED pending_keys
        /\ Finish(w)
        /\ UNCHANGED <<delivered_keys, pubPc, pubKey, acked, forgotten>>

-----------------------------------------------------------------------------

Publish(p) ==
    \/ \E k \in Keys : Reserve(p, k) \/ RefuseDuplicate(p, k)
    \/ Enqueue(p)
    \/ Unreserve(p)

Run(w) ==
    \/ Claim(w)
    \/ DeliverOk(w)
    \/ DeliverFails(w)
    \/ MarkDelivered(w)
    \/ MarkFailed(w)

Next ==
    \/ \E p \in Publishers : Publish(p)
    \/ \E w \in Workers : Run(w)

Spec == Init /\ [][Next]_vars

\* A thread inside publish returns, and the worker loop keeps running: none of
\* their steps waits for anything but the queue.
Fairness ==
    /\ \A p \in Publishers : WF_vars(Enqueue(p)) /\ WF_vars(Unreserve(p))
    /\ \A w \in Workers : WF_vars(Run(w))

FairSpec == Spec /\ Fairness

-----------------------------------------------------------------------------

TypeOK ==
    /\ queue \in Seq(Items)
    /\ Len(queue) <= Capacity
    /\ pending_keys \subseteq Keys
    /\ delivered_keys \subseteq Keys
    /\ pubPc \in [Publishers -> {"idle", "reserved", "full"}]
    /\ pubKey \in [Publishers -> Keys \cup {NoKey}]
    /\ \A p \in Publishers : pubPc[p] = "idle" <=> pubKey[p] = NoKey
    /\ wrkPc \in [Workers -> {"idle", "inflight", "ok", "failed"}]
    /\ wrkItem \in [Workers -> Items \cup {NoItem}]
    /\ \A w \in Workers : wrkPc[w] = "idle" <=> wrkItem[w] = NoItem
    /\ acked \in [Keys -> Nat]
    /\ forgotten \in BOOLEAN
    /\ dropped \subseteq Keys

\* The places that hold a copy of the notification with key k.
Publishing(p, k) == pubKey[p] = k
Queued(i, k) == queue[i].key = k
Holding(w, k) == wrkPc[w] # "idle" /\ wrkItem[w].key = k

Live(k) ==
    \/ \E p \in Publishers : Publishing(p, k)
    \/ \E i \in DOMAIN queue : Queued(i, k)
    \/ \E w \in Workers : Holding(w, k)

\* Every copy is covered by a reservation of its key.
CopiesReserved == \A k \in Keys : Live(k) => k \in pending_keys

\* publish's promise "Exactly-once per dedupe key" (outbox.hpp:24) while an
\* item is under way: whatever the publishers and the workers interleave, a
\* key has at most one copy, in one publisher's hands, at one place of the
\* queue or with one worker.  So no undo of a full queue and no completion
\* ever releases a key that somebody else is using.
OneCopyPerKey ==
    \A k \in Keys :
        /\ \A p, q \in Publishers : Publishing(p, k) /\ Publishing(q, k) => p = q
        /\ \A i, j \in DOMAIN queue : Queued(i, k) /\ Queued(j, k) => i = j
        /\ \A v, w \in Workers : Holding(v, k) /\ Holding(w, k) => v = w
        /\ \A p \in Publishers, i \in DOMAIN queue : ~(Publishing(p, k) /\ Queued(i, k))
        /\ \A p \in Publishers, w \in Workers : ~(Publishing(p, k) /\ Holding(w, k))
        /\ \A i \in DOMAIN queue, w \in Workers : ~(Queued(i, k) /\ Holding(w, k))

\* A key is never both reserved and delivered.
ReservedNotDelivered == pending_keys \cap delivered_keys = {}

\* Deliveries of a key are remembered: by the worker that made it, which has
\* not completed yet, or in delivered_keys.
DeliveriesRemembered ==
    ~forgotten => \A k \in Keys :
        acked[k] = IF \/ k \in delivered_keys
                      \/ \E w \in Workers : wrkPc[w] = "ok" /\ Holding(w, k)
                   THEN 1 ELSE 0

\* The notification of a key is delivered successfully at most once, until the
\* set of delivered keys overflows and is cleared (outbox.hpp:60-68).
DeliveredOnce == ~forgotten => \A k \in Keys : acked[k] <= 1

\* A published notification is eventually delivered or dead-lettered, and its
\* key released: no retry loop keeps it reserved for ever (outbox.hpp:72-92).
\* The exception is the item that markFailed could not queue again, because the
\* queue was full: its key stays reserved and no later publish is accepted.
ReservationReleased ==
    \A k \in Keys : k \in pending_keys ~> (k \notin pending_keys \/ k \in dropped)

\* The inductive strengthening of OneCopyPerKey and DeliveredOnce.
IInv ==
    /\ TypeOK
    /\ CopiesReserved
    /\ OneCopyPerKey
    /\ ReservedNotDelivered
    /\ DeliveriesRemembered
=============================================================================
