------------------------------- MODULE MCOutbox -------------------------------
(***************************************************************************)
(* What a prediction goes through from its request to its delivery: the    *)
(* attempts to get it, the database connection on which it is saved with   *)
(* its outbox row, the in-memory outbox under its own worker, and the same *)
(* under OutboxLifecycle with leases. A behaviour is about the component   *)
(* that subject names; the others stay in their initial states, in which   *)
(* none of their fair actions is enabled.                                  *)
(***************************************************************************)
EXTENDS MemoryOutbox, FiniteSets

CONSTANTS
    LeasedKeys, LeasedWorkers, LeasedCapacity, LeasedAttempts, \* OutboxLifecycle
    Savers, Others, Files, MaxFaults,                          \* PgDatabase
    Targets, Callers, Engine, Stamps, Slots, MaxBegins, MaxAnswers \* attempts

VARIABLES
    subject,    \* the component a behaviour is about
    leasedQueue, pending, delivered, worker, requeue, leasedAcked, expired,
    leasedDropped, published, dead,
    alive, inTx, aborted, txPending, stored, saver, begun, clean, durable,
    doubt, file, part, booted, embedded, faults,
    client, open, gen, attempts, call, requests, reqHead, reqTail, reqSlots,
    asked, head, tail, slots, writing, polling, written, clash, read, answers,
    applied, verdicts

Leased == INSTANCE LeasedOutbox WITH
    Keys <- LeasedKeys, Workers <- LeasedWorkers, Capacity <- LeasedCapacity,
    MaxAttempts <- LeasedAttempts, queue <- leasedQueue, acked <- leasedAcked,
    dropped <- leasedDropped

Conn == INSTANCE SharedConnection WITH pending <- txPending

Att == INSTANCE Attempts

\* A process has finitely many workers.
ASSUME LeasedAssumption ==
    /\ IsFiniteSet(LeasedWorkers)
    /\ LeasedCapacity \in Nat /\ LeasedAttempts \in Nat

\* A row of a thread is none of a migration file.
ASSUME ConnectionAssumption ==
    /\ Files \in Nat /\ MaxFaults \in Nat
    /\ (Savers \cup Others) \cap (1 .. Files) = {} /\ Savers \cap Others = {}

\* A request has a target and a time, and the ring more slots than one.
ASSUME RequestsAssumption ==
    /\ Targets # {} /\ Stamps # {} /\ MaxBegins \in Nat
    /\ Engine \notin Callers
    /\ Slots \in Nat /\ Slots >= 2

leasedVars == <<leasedQueue, pending, delivered, worker, requeue, leasedAcked,
    expired, leasedDropped, published, dead>>
connVars == <<alive, inTx, aborted, txPending, stored, saver, begun, clean,
    durable, doubt, file, part, booted, embedded, faults>>
attVars == <<client, open, gen, attempts, call, requests, reqHead, reqTail,
    reqSlots, asked, head, tail, slots, writing, polling, written, clash, read,
    answers, applied, verdicts>>
all == <<subject, vars, leasedVars, connVars, attVars>>

MCInit ==
    /\ subject \in {"plain", "leased", "connection", "attempts"}
    /\ Init
    /\ Leased!Init
    /\ Conn!Init /\ (subject # "connection" => ~embedded)
    /\ Att!Init /\ (subject # "attempts" => client = "socket")

MCNext ==
    \/ /\ subject = "plain" /\ Next
       /\ UNCHANGED <<subject, leasedVars, connVars, attVars>>
    \/ /\ subject = "leased" /\ Leased!Next
       /\ UNCHANGED <<subject, vars, connVars, attVars>>
    \/ /\ subject = "connection" /\ Conn!Next
       /\ UNCHANGED <<subject, vars, leasedVars, attVars>>
    \/ /\ subject = "attempts" /\ Att!Next
       /\ UNCHANGED <<subject, vars, leasedVars, connVars>>
    \* These may come to an end.
    \/ subject # "plain" /\ UNCHANGED all

MCSpec ==
    /\ MCInit /\ [][MCNext]_all
    /\ Fairness
    /\ Att!Fairness

-----------------------------------------------------------------------------

(* A reserved key has a copy of its item somewhere, unless a full queue    *)
(* dropped it, and is delivered twice only if a lease of it expired        *)
(* (claimWithLease, recoverExpiredLeases).                                 *)
LeasesSafe == Leased!LeasesSafe

(* A save that no other thread's statement interrupts is atomic            *)
(* (DurablePredictionTx).                                                  *)
SavedIfUninterrupted == Conn!SavedIfUninterrupted

(* A migration is recorded if and only if it is applied (MigrationRunner). *)
MigrationsWhole == Conn!MigrationsWhole

(* Answers are applied in the order of their attempts, an attempt gets one *)
(* verdict, and an answer is lost only if the ring went round              *)
(* (PredictionAttemptCoordinator).                                         *)
AnswersSafe == Att!AnswersSafe

(* Every attempt ends, by its answer or its timeout.                       *)
AttemptEnds == Att!AttemptEnds

=============================================================================
