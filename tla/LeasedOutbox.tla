---------------------------- MODULE LeasedOutbox ----------------------------
(***************************************************************************)
(* OutboxLifecycle: claims of the in-memory outbox under a lease, and the  *)
(* recovery of the leases that have expired.                               *)
(*                                                                         *)
(* The outbox and the lease table have locks of their own: an item is      *)
(* popped before its lease is noted, marked before its lease is erased,    *)
(* and requeued after its lease was taken.  A worker whose lease expired   *)
(* still has its copy, and completes it.  An expired lease costs two       *)
(* attempts, one of recoverExpiredLeases and one of markFailed.            *)
(***************************************************************************)
EXTENDS Integers, Sequences, SequencesExt, FiniteSets

CONSTANTS
    Keys,       \* dedupe keys
    Workers,
    Capacity,   \* of the queue
    MaxAttempts \* OUTBOX_MAX_ATTEMPTS

Free == [pc |-> "idle", key |-> "", attempts |-> 0, leased |-> FALSE, late |-> FALSE]

VARIABLES
    queue, pending, delivered, \* the Outbox
    worker,     \* by worker: its copy, whether leases_ has it and whether it is late
    requeue,    \* to_requeue of the thread inside recoverExpiredLeases
    acked,      \* history: by key, the deliveries acknowledged, counted to two
    expired,    \* history: keys of which a lease expired
    dropped,    \* history: keys of which a copy met a full queue
    published,  \* history: keys published; the bound is once for each
    dead        \* history: keys dead-lettered

vars == <<queue, pending, delivered, worker, requeue, acked, expired, dropped, published, dead>>

Init ==
    /\ queue = <<>> /\ pending = {} /\ delivered = {} /\ requeue = <<>>
    /\ worker = [w \in Workers |-> Free]
    /\ acked = [k \in Keys |-> 0] /\ expired = {} /\ dropped = {} /\ published = {} /\ dead = {}

-----------------------------------------------------------------------------

\* publishSignal, whose reservation is given back when the queue is full.
Publish(k) ==
    /\ k \notin pending \cup delivered \cup published /\ Len(queue) < Capacity
    /\ published' = published \cup {k} /\ pending' = pending \cup {k}
    /\ queue' = Append(queue, [key |-> k, attempts |-> 0])
    /\ UNCHANGED <<delivered, worker, requeue, acked, expired, dropped, dead>>

\* claimWithLease: the item, ...
Claim(w) ==
    /\ worker[w].pc = "idle" /\ queue # <<>>
    /\ worker' = [worker EXCEPT ![w] = [Free EXCEPT !.pc = "claimed",
                      !.key = Head(queue).key, !.attempts = Head(queue).attempts]]
    /\ queue' = Tail(queue)
    /\ UNCHANGED <<pending, delivered, requeue, acked, expired, dropped, published, dead>>

\* ... and its lease.
Lease(w) ==
    /\ worker[w].pc = "claimed"
    /\ worker' = [worker EXCEPT ![w].pc = "sending", ![w].leased = TRUE]
    /\ UNCHANGED <<queue, pending, delivered, requeue, acked, expired, dropped, published, dead>>

\* The worker's send is acknowledged, or not; it has no time limit of its own.
Send(w, ok) ==
    /\ worker[w].pc = "sending"
    /\ worker' = [worker EXCEPT ![w].pc = IF ok THEN "ok" ELSE "failed"]
    /\ acked' = IF ok /\ acked[worker[w].key] < 2 THEN [acked EXCEPT ![worker[w].key] = @ + 1] ELSE acked
    /\ UNCHANGED <<queue, pending, delivered, requeue, expired, dropped, published, dead>>

\* Outbox::markFailed of a copy with n attempts.
MarkFailed(k, n) ==
    IF n + 1 >= MaxAttempts
    THEN dead' = dead \cup {k} /\ pending' = pending \ {k} /\ UNCHANGED <<queue, dropped>>
    ELSE /\ IF Len(queue) < Capacity
            THEN queue' = Append(queue, [key |-> k, attempts |-> n + 1]) /\ UNCHANGED dropped
            ELSE dropped' = dropped \cup {k} /\ UNCHANGED queue
         /\ UNCHANGED <<pending, dead>>

\* completeDelivered and completeFailed: the outbox first, ...
MarkOk(w) ==
    /\ worker[w].pc = "ok"
    /\ pending' = pending \ {worker[w].key} /\ delivered' = delivered \cup {worker[w].key}
    /\ worker' = [worker EXCEPT ![w].pc = "marked"]
    /\ UNCHANGED <<queue, requeue, acked, expired, dropped, published, dead>>
MarkBad(w) ==
    /\ worker[w].pc = "failed"
    /\ MarkFailed(worker[w].key, worker[w].attempts)
    /\ worker' = [worker EXCEPT ![w].pc = "marked"]
    /\ UNCHANGED <<delivered, requeue, acked, expired, published>>

\* ... then the lease, if it is still there.
Complete(w) ==
    /\ worker[w].pc = "marked"
    /\ worker' = [worker EXCEPT ![w] = Free]
    /\ UNCHANGED <<queue, pending, delivered, requeue, acked, expired, dropped, published, dead>>

\* Time: the deadline of a lease passes.
Expires(w) ==
    /\ worker[w].leased /\ ~worker[w].late
    /\ worker' = [worker EXCEPT ![w].late = TRUE]
    /\ expired' = expired \cup {worker[w].key}
    /\ UNCHANGED <<queue, pending, delivered, requeue, acked, dropped, published, dead>>

\* Mutant: every lease counts as expired.
EveryLease(w) == TRUE

\* now > deadlineMs.
Overdue(w) == worker[w].late

\* The copies in in_flight_ of the expired leases, with an attempt more.
ToRequeue(ws) == SetToSeq({[key |-> worker[w].key, attempts |-> worker[w].attempts + 1] : w \in ws})

\* recoverExpiredLeases takes all expired leases, ...
Recover ==
    LET ws == {w \in Workers : worker[w].leased /\ Overdue(w)} IN
    /\ requeue = <<>> /\ ws # {}
    /\ requeue' = ToRequeue(ws)
    /\ worker' = [w \in Workers |-> IF w \in ws THEN [worker[w] EXCEPT !.leased = FALSE] ELSE worker[w]]
    /\ UNCHANGED <<queue, pending, delivered, acked, expired, dropped, published, dead>>

\* ... and then fails their items one by one; one out of attempts is marked
\* delivered as well, so that its key stays refused.
RecoverOne ==
    /\ requeue # <<>> /\ requeue' = Tail(requeue)
    /\ MarkFailed(Head(requeue).key, Head(requeue).attempts)
    /\ delivered' = IF Head(requeue).attempts >= MaxAttempts
                    THEN delivered \cup {Head(requeue).key} ELSE delivered
    /\ UNCHANGED <<worker, acked, expired, published>>

WorkerStep(w) == Claim(w) \/ Lease(w) \/ Send(w, TRUE) \/ Send(w, FALSE) \/ MarkOk(w) \/ MarkBad(w) \/ Complete(w)
RecoverExpiredLeases == Recover \/ RecoverOne

Next ==
    \/ \E k \in Keys : Publish(k)
    \/ \E w \in Workers : WorkerStep(w) \/ Expires(w)
    \/ RecoverExpiredLeases

Spec == Init /\ [][Next]_vars

-----------------------------------------------------------------------------

Copies == ToSet(queue) \cup ToSet(requeue)
Leased == {worker[w].key : w \in {v \in Workers : worker[v].pc = "claimed" \/ worker[v].leased}}

(* "expired leases re-queue the original item": a reserved key has a copy  *)
(* in the queue, on its way back or under a lease, so not only with a      *)
(* worker that is late and may never come back, unless a copy was refused  *)
(* by a full queue.                                                        *)
ReservedHasCopy == \A k \in pending : k \in {c.key : c \in Copies} \cup Leased \cup dropped

(* A message is acknowledged twice only if a lease of it expired: then its *)
(* first worker may complete after it was requeued, which the header's     *)
(* "one notification per prediction" does not allow for.                   *)
TwiceOnlyIfExpired == \A k \in Keys : acked[k] = 2 => k \in expired

(* Leases neither lose an item nor, while they last, deliver it twice.     *)
LeasesSafe == ReservedHasCopy /\ TwiceOnlyIfExpired

-----------------------------------------------------------------------------
(* The inductive invariant.                                                *)

Items == [key : Keys, attempts : Nat]

TypeOK ==
    /\ queue \in Seq(Items) /\ requeue \in Seq(Items) /\ acked \in [Keys -> 0 .. 2]
    /\ pending \in SUBSET Keys /\ expired \in SUBSET Keys
    /\ dropped \in SUBSET Keys /\ published \in SUBSET Keys
    /\ worker \in [Workers -> [pc : {"idle", "claimed", "sending", "ok", "failed", "marked"},
           key : Keys \cup {""}, attempts : Nat, leased : BOOLEAN, late : BOOLEAN]]

\* What is left of a lease when its deadline has passed.
Leases ==
    /\ \A w \in Workers :
           /\ worker[w].pc # "idle" => worker[w].key \in Keys
           /\ worker[w].pc \in {"idle", "claimed"} => ~worker[w].leased /\ ~worker[w].late
           /\ worker[w].late => worker[w].key \in expired
    /\ \A i \in DOMAIN requeue : requeue[i].key \in expired

\* Where key k is: queued, on its way back, with a worker who is not done.
Queued(i, k) == i \in DOMAIN queue /\ queue[i].key = k
Returning(k) == \E i \in DOMAIN requeue : requeue[i].key = k
With(w, k) == worker[w].pc \notin {"idle", "marked"} /\ worker[w].key = k
Holds(w, k) == With(w, k) /\ (worker[w].pc = "claimed" \/ worker[w].leased)

\* ReservedHasCopy, without the leases of workers who have marked their item.
HasCopy(k) ==
    \/ \E i \in Nat : Queued(i, k)
    \/ Returning(k)
    \/ \E w \in Workers : Holds(w, k)
    \/ k \in dropped

\* While no lease of k has expired there is one copy of it, not yet acknowledged.
OneCopy(k) ==
    k \notin expired =>
        /\ acked[k] <= 1
        /\ k \notin published => acked[k] = 0
        /\ \A i \in Nat : Queued(i, k) => k \in published /\ acked[k] = 0
        /\ \A w \in Workers : With(w, k) =>
               k \in published /\ acked[k] = IF worker[w].pc = "ok" THEN 1 ELSE 0
        /\ \A i, j \in Nat : Queued(i, k) /\ Queued(j, k) => i = j
        /\ \A v, w \in Workers : With(v, k) /\ With(w, k) => v = w
        /\ \A i \in Nat, w \in Workers : ~(Queued(i, k) /\ With(w, k))

IInv ==
    /\ TypeOK /\ Leases
    /\ \A k \in pending : HasCopy(k)
    /\ \A k \in Keys : OneCopy(k)

=============================================================================
