--------------------------- MODULE DurableOutbox ---------------------------
(***************************************************************************)
(* The durable delivery path: the rows of the table notification_outbox    *)
(* (OutboxRepository), the threads that drain it (NotificationWorker::loop *)
(* and the tickOnce calls of Application::stop) and the TemporalGuard that *)
(* authorises a send and kills the rows of a round that has started.       *)
(*                                                                         *)
(* Rows are stamped with wall-clock times, but the code compares only      *)
(* differences with the current time.  So a row carries its age, the age   *)
(* of its claim and the time until it becomes available again; ages stop   *)
(* growing at AgeCap, beyond every limit the code compares them with.      *)
(*                                                                         *)
(* Every SQL statement is atomic here and commits by itself.  A statement  *)
(* may fail (its result is ignored by the drainers), and the process may   *)
(* crash and restart: it then forgets the batches it had claimed and the   *)
(* round starts it had seen, but the table survives.                       *)
(***************************************************************************)
EXTENDS Integers, FiniteSets

CONSTANTS
    Rows,        \* notification rows, one for each dedupe key
    Rounds,      \* target rounds
    Target,      \* Target[r] is the round the notification r is about
    Drainers,    \* threads that run NotificationWorker::drainBatch
    Loop,        \* the one of them that runs NotificationWorker::loop
    BatchSize,   \* NotificationWorker::Config::batchSize
    MaxAttempts, \* NotificationWorker::Config::maxAttempts
    ClaimStale,  \* NotificationWorker::Config::claimStaleMs
    BaseRetry,   \* NotificationWorker::Config::baseRetryMs
    MaxRetry,    \* NotificationWorker::Config::maxRetryMs
    Deadline,    \* TemporalAuthConfig::deliveryDeadlineMs
    MaxLead,     \* how far in the future a start stamp may lie
    AgeCap,      \* ages are not told apart from here on
    MaxCrashes,  \* bound on the crashes of the process
    MaxFaults,   \* bound on the failed statements
    NoRow        \* a drainer that works on no row

ASSUME TargetAssumption == Target \in [Rows -> Rounds]
ASSUME LoopAssumption == Loop \in Drainers
ASSUME NoRowAssumption == NoRow \notin Rows
ASSUME LimitAssumption ==
    /\ Deadline \in Nat
    /\ ClaimStale \in Nat
    /\ MaxAttempts \in Nat \ {0}
    /\ BatchSize \in Nat \ {0}
    /\ BaseRetry \in Nat
    /\ MaxRetry \in Nat
    /\ MaxLead \in Nat
    /\ MaxCrashes \in Nat
    /\ MaxFaults \in Nat

\* The defaults are 5 s for the deadline and 30 s for a stale claim.
ASSUME DeadlineBeforeStale == Deadline <= ClaimStale

ASSUME AgeCapAssumption == AgeCap \in Nat /\ AgeCap > ClaimStale

VARIABLES
    status,    \* status column; "absent" before the row is inserted
    attempts,  \* attempts column
    age,       \* now - created_at_ms
    claimAge,  \* now - claimed_at_ms
    wait,      \* available_at_ms - now, 0 when it has passed
    started,   \* TemporalGuard::started_: rounds with a start stamp
    startsIn,  \* stamp - now, 0 when it has passed
    batch,     \* the claimed rows a drainer has still to deliver
    seen,      \* the attempts a drainer read when it claimed a row
    pc,        \* where each drainer is
    row,       \* the row it is working on
    acked,     \* history: rows whose send was acknowledged
    crashes,   \* crashes so far
    faults     \* failed statements so far

table == <<status, attempts, age, claimAge, wait>>
guard == <<started, startsIn>>
drain == <<batch, seen, pc, row>>
vars == <<table, guard, drain, acked, crashes, faults>>

Statuses == {"absent", "pending", "claimed", "delivered", "dead"}

-----------------------------------------------------------------------------

Init ==
    /\ status = [r \in Rows |-> "absent"]
    /\ attempts = [r \in Rows |-> 0]
    /\ age = [r \in Rows |-> 0]
    /\ claimAge = [r \in Rows |-> 0]
    /\ wait = [r \in Rows |-> 0]
    /\ started = {}
    /\ startsIn = [g \in Rounds |-> 0]
    /\ batch = [d \in Drainers |-> {}]
    /\ seen = [d \in Drainers |-> [r \in Rows |-> 0]]
    /\ pc = [d \in Drainers |-> "idle"]
    /\ row = [d \in Drainers |-> NoRow]
    /\ acked = {}
    /\ crashes = 0
    /\ faults = 0

\* OutboxRepository::enqueueWithRound; a second insert of a dedupe key does
\* nothing (ON CONFLICT DO NOTHING).
Enqueue(r) ==
    /\ status[r] = "absent"
    /\ status' = [status EXCEPT ![r] = "pending"]
    /\ UNCHANGED <<attempts, age, claimAge, wait, guard, drain, acked, crashes, faults>>

\* Rows the claim statement may take.
Available == {r \in Rows : status[r] = "pending" /\ wait[r] = 0}

\* OutboxRepository::claim takes the oldest available rows, at most BatchSize.
Claim(d) ==
    \E S \in SUBSET Available :
        /\ pc[d] = "idle"
        /\ S # {}
        /\ \/ S = Available /\ Cardinality(S) <= BatchSize
           \/ Cardinality(S) = BatchSize
        /\ \A r \in S, q \in Available \ S : age[r] >= age[q]
        /\ status' = [r \in Rows |-> IF r \in S THEN "claimed" ELSE status[r]]
        /\ attempts' = [r \in Rows |-> IF r \in S THEN attempts[r] + 1 ELSE attempts[r]]
        /\ claimAge' = [r \in Rows |-> IF r \in S THEN 0 ELSE claimAge[r]]
        /\ batch' = [batch EXCEPT ![d] = S]
        /\ seen' = [seen EXCEPT ![d] = [r \in Rows |-> IF r \in S THEN attempts'[r] ELSE 0]]
        /\ pc' = [pc EXCEPT ![d] = "batch"]
        /\ UNCHANGED <<age, wait, guard, row, acked, crashes, faults>>

\* Mutant: the deadline is not looked at.
AllowedWhenNotStarted(r) == ~(Target[r] \in started /\ startsIn[Target[r]] = 0)

\* TemporalGuard::authorizeSend: not too old, and the target not started.
Allowed(r) ==
    /\ age[r] <= Deadline
    /\ ~(Target[r] \in started /\ startsIn[Target[r]] = 0)

\* drainBatch takes the next row of its batch and the deliver function asks
\* for authorisation; a rejected row counts as failed.
Authorize(d, r) ==
    /\ pc[d] = "batch"
    /\ r \in batch[d]
    /\ row' = [row EXCEPT ![d] = r]
    /\ pc' = [pc EXCEPT ![d] = IF Allowed(r) THEN "sending" ELSE "failed"]
    /\ UNCHANGED <<table, guard, batch, seen, acked, crashes, faults>>

\* TelegramClient::sendMessageWithRetry succeeds, after any number of retries
\* and however long they take.
SendOk(d) ==
    /\ pc[d] = "sending"
    /\ acked' = acked \cup {row[d]}
    /\ pc' = [pc EXCEPT ![d] = "ok"]
    /\ UNCHANGED <<table, guard, batch, seen, row, crashes, faults>>

\* It gives up: not sent, or sent and the answer lost.
SendFails(d) ==
    /\ pc[d] = "sending"
    /\ pc' = [pc EXCEPT ![d] = "failed"]
    /\ UNCHANGED <<table, guard, batch, seen, row, acked, crashes, faults>>

\* The drainer goes on to the next row of its batch.
NextRow(d) ==
    /\ batch' = [batch EXCEPT ![d] = @ \ {row[d]}]
    /\ seen' = [seen EXCEPT ![d][row[d]] = 0]
    /\ pc' = [pc EXCEPT ![d] = IF batch[d] = {row[d]} THEN "idle" ELSE "batch"]
    /\ row' = [row EXCEPT ![d] = NoRow]

\* OutboxRepository::markDelivered, whatever the status of the row is now.
MarkDelivered(d) ==
    /\ pc[d] = "ok"
    /\ status' = [status EXCEPT ![row[d]] = "delivered"]
    /\ NextRow(d)
    /\ UNCHANGED <<attempts, age, claimAge, wait, guard, acked, crashes, faults>>

\* drainBatch gives up on a row after its last attempt.
Exhausted(n) == n >= MaxAttempts

\* 1 << min(n, 10).
Shifted(n) ==
    LET powers == <<1, 2, 4, 8, 16, 32, 64, 128, 256, 512, 1024>>
    IN  powers[IF n < 10 THEN n + 1 ELSE 11]

\* Mutant: backoff without the ceiling.
UncappedDelay(n) == BaseRetry * Shifted(n)

\* Exponential backoff with a ceiling.
RetryDelay(n) ==
    LET delay == BaseRetry * Shifted(n)
    IN  IF delay < MaxRetry THEN delay ELSE MaxRetry

\* OutboxRepository::markFailed, whatever the status of the row is now.
MarkFailed(d) ==
    LET n == seen[d][row[d]] IN
    /\ pc[d] = "failed"
    /\ status' = [status EXCEPT ![row[d]] = IF Exhausted(n) THEN "dead" ELSE "pending"]
    /\ wait' = [wait EXCEPT ![row[d]] = RetryDelay(n)]
    /\ NextRow(d)
    /\ UNCHANGED <<attempts, age, claimAge, guard, acked, crashes, faults>>

\* The update of markDelivered or markFailed fails; drainBatch ignores it.
MarkLost(d) ==
    /\ pc[d] \in {"ok", "failed"}
    /\ faults < MaxFaults
    /\ faults' = faults + 1
    /\ NextRow(d)
    /\ UNCHANGED <<table, guard, acked, crashes>>

\* Mutant: only claims of rows that have not failed yet are recovered.
StaleFirstClaim(r) == status[r] = "claimed" /\ claimAge[r] > ClaimStale /\ attempts[r] = 0

\* Claims older than claimStaleMs.
StaleClaim(r) == status[r] = "claimed" /\ claimAge[r] > ClaimStale

\* OutboxRepository::recoverStaleClaims, run by NotificationWorker::loop
\* before every fiftieth batch.
RecoverStaleClaims ==
    /\ pc[Loop] = "idle"
    /\ \E r \in Rows : StaleClaim(r)
    /\ status' = [r \in Rows |-> IF StaleClaim(r) THEN "pending" ELSE status[r]]
    /\ UNCHANGED <<attempts, age, claimAge, wait, guard, drain, acked, crashes, faults>>

\* A Start or Prepare event: TemporalGuard::noteTargetStarted stamps the round
\* and killStaleForTarget dead-letters its undelivered rows, claimed or not.
NoteTargetStarted(g, lead) ==
    /\ started' = started \cup {g}
    /\ startsIn' = [startsIn EXCEPT ![g] = lead]
    /\ \/ /\ status' = [r \in Rows |->
                IF Target[r] = g /\ status[r] \in {"pending", "claimed"}
                THEN "dead" ELSE status[r]]
          /\ UNCHANGED faults
       \/ /\ faults < MaxFaults
          /\ faults' = faults + 1
          /\ UNCHANGED status
    /\ UNCHANGED <<attempts, age, claimAge, wait, drain, acked, crashes>>

\* The process dies and is started again.
Crash ==
    /\ crashes < MaxCrashes
    /\ crashes' = crashes + 1
    /\ started' = {}
    /\ startsIn' = [g \in Rounds |-> 0]
    /\ batch' = [d \in Drainers |-> {}]
    /\ seen' = [d \in Drainers |-> [r \in Rows |-> 0]]
    /\ pc' = [d \in Drainers |-> "idle"]
    /\ row' = [d \in Drainers |-> NoRow]
    /\ UNCHANGED <<table, acked, faults>>

\* One unit of time passes for the rows in the table.
Older(a) == IF a < AgeCap THEN a + 1 ELSE a
Sooner(t) == IF t > 0 THEN t - 1 ELSE 0
Tick ==
    /\ age' = [r \in Rows |-> IF status[r] = "absent" THEN 0 ELSE Older(age[r])]
    /\ claimAge' = [r \in Rows |-> IF status[r] = "claimed" THEN Older(claimAge[r])
                                   ELSE claimAge[r]]
    /\ wait' = [r \in Rows |-> Sooner(wait[r])]
    /\ startsIn' = [g \in Rounds |-> Sooner(startsIn[g])]
    /\ UNCHANGED <<status, attempts, started, drain, acked, crashes, faults>>

-----------------------------------------------------------------------------

DrainBatch(d) ==
    \/ Claim(d)
    \/ \E r \in Rows : Authorize(d, r)
    \/ SendOk(d)
    \/ SendFails(d)
    \/ MarkDelivered(d)
    \/ MarkFailed(d)
    \/ MarkLost(d)

Next ==
    \/ \E r \in Rows : Enqueue(r)
    \/ \E d \in Drainers : DrainBatch(d)
    \/ RecoverStaleClaims
    \/ \E g \in Rounds, lead \in 0..MaxLead : NoteTargetStarted(g, lead)
    \/ Crash
    \/ Tick

Spec == Init /\ [][Next]_vars

\* Time passes; the loop of the worker runs until the process stops, every
\* send returns (HTTP timeouts, a bounded number of retries), and recovery
\* runs again and again, though not in every round of the loop.
Fairness ==
    /\ WF_vars(Tick)
    /\ \A d \in Drainers : WF_vars(DrainBatch(d))
    /\ SF_vars(RecoverStaleClaims)

FairSpec == Spec /\ Fairness

-----------------------------------------------------------------------------

TypeOK ==
    /\ status \in [Rows -> Statuses]
    /\ attempts \in [Rows -> Nat]
    /\ age \in [Rows -> 0..AgeCap]
    /\ claimAge \in [Rows -> 0..AgeCap]
    /\ wait \in [Rows -> 0..MaxRetry]
    /\ started \subseteq Rounds
    /\ startsIn \in [Rounds -> 0..MaxLead]
    /\ batch \in [Drainers -> SUBSET Rows]
    /\ seen \in [Drainers -> [Rows -> Nat]]
    /\ pc \in [Drainers -> {"idle", "batch", "sending", "ok", "failed"}]
    /\ row \in [Drainers -> Rows \cup {NoRow}]
    /\ \A d \in Drainers : pc[d] \in {"sending", "ok", "failed"} => row[d] \in batch[d]
    /\ acked \subseteq Rows
    /\ crashes \in 0..MaxCrashes
    /\ faults \in 0..MaxFaults

Sending(d, r) == pc[d] = "sending" /\ row[d] = r

\* "one notification per prediction (dedupe_key)" (outbox_lifecycle.hpp:8) on
\* the durable path: two threads never send the same row at the same time, and
\* a row whose send was acknowledged is not sent again.  That has to survive
\* crashes, lost updates, and claims recovered from a thread that is still
\* sending (outbox_repository.hpp:100-109): it rests on authorizeSend
\* refusing rows older than the deadline (temporal_auth.hpp:83-88), and on
\* claims becoming stale only later.
ExclusiveSend ==
    \A d \in Drainers, r \in Rows :
        Sending(d, r) =>
            /\ r \notin acked
            /\ \A e \in Drainers : Sending(e, r) => e = d

\* Every row is delivered or dead-lettered in the end: no retry, stale claim,
\* crash or lost update leaves it pending or claimed forever
\* (notification_worker.hpp:59-75, outbox_repository.hpp:100-109).
RowSettles ==
    \A r \in Rows : status[r] = "pending" ~> status[r] \in {"delivered", "dead"}

\* "when a round starts, dead-letter undelivered outbox rows still targeting
\* that round" (temporal_auth.hpp:7-8): a dead row stays dead.
DeadStaysDead == [][\A r \in Rows : status[r] = "dead" => status'[r] = "dead"]_vars

-----------------------------------------------------------------------------
(***************************************************************************)
(* The inductive strengthening of ExclusiveSend.  Within the deadline a    *)
(* row has at most one thread that claimed it, because its claim cannot be *)
(* stale yet; and an acknowledged row is not claimable.                    *)
(***************************************************************************)
Holds(d, r) == r \in batch[d]
Fresh(r) == age[r] <= Deadline

AbsentUnused ==
    \A r \in Rows : status[r] = "absent" =>
        r \notin acked /\ \A d \in Drainers : ~Holds(d, r)

ClaimYounger == \A r \in Rows : status[r] = "claimed" => claimAge[r] <= age[r]

FreshHeldOnce ==
    \A r \in Rows : Fresh(r) =>
        \A d \in Drainers : Holds(d, r) =>
            /\ status[r] # "pending"
            /\ \A e \in Drainers : Holds(e, r) => e = d

FreshAckedSettled ==
    \A r \in Rows : Fresh(r) /\ r \in acked =>
        /\ status[r] # "pending"
        /\ \A d \in Drainers : Holds(d, r) => pc[d] = "ok" /\ row[d] = r

IInv ==
    /\ TypeOK
    /\ AbsentUnused
    /\ ClaimYounger
    /\ FreshHeldOnce
    /\ FreshAckedSettled
    /\ ExclusiveSend
=============================================================================
