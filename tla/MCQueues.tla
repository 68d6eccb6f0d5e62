------------------------------- MODULE MCQueues -------------------------------
(***************************************************************************)
(* The rings, queues, pools and writer threads of concurrency and          *)
(* persistence, each by itself. A behaviour is about the component that    *)
(* subject names; the others stay in their initial states, in which none   *)
(* of their fair actions is enabled.                                       *)
(***************************************************************************)
EXTENDS SpscRing, FiniteSets

CONSTANTS
    MpscValues, MpscProducers, Cells, MaxPos,   \* MpscQueue
    Tasks, Submitters, N, TaskCap,              \* WorkerPool
    Items, BatchSize, BatchCap, Nothing,        \* BatchWriter
    Threads, Connections, MaxMade               \* ConnectionPool

VARIABLES
    subject,    \* the component a behaviour is about
    mpscHead, mpscTail, sequence, data, push, pop, mpscItem, mpscOut,
    queues, poolClosed, poolRunning, sub, worker, fresh, poolAccepted, met,
    runs, stopping,
    queue, batchClosed, buffer, batchRunning, thread, hand, batch, flusher,
    stopper, batchAccepted, handled, fate, flushed,
    pool, available, connThread, held, made, discarded, over, under, passed

Mpsc == INSTANCE MpscRing WITH Values <- MpscValues,
    Producers <- MpscProducers, head <- mpscHead, tail <- mpscTail,
    item <- mpscItem, out <- mpscOut
Pool == INSTANCE Workers WITH Cap <- TaskCap, closed <- poolClosed,
    running <- poolRunning, accepted <- poolAccepted
Batch == INSTANCE BatchWriter WITH Cap <- BatchCap, closed <- batchClosed,
    running <- batchRunning, accepted <- batchAccepted
Conns == INSTANCE ConnectionPool WITH Size <- Connections,
    thread <- connThread

\* cap_ of MpscQueue is a power of two, at least 2.
ASSUME MpscAssumption ==
    /\ Cells \in Nat /\ Cells >= 2 /\ MaxPos \in Nat
    /\ NoValue \notin MpscValues

\* A pool has a worker; an empty Task is no task.
ASSUME WorkersAssumption ==
    /\ N \in Nat /\ N >= 1 /\ TaskCap \in Nat
    /\ Pool!Gone \notin Tasks

\* batch_size_ is positive.
ASSUME BatchAssumption ==
    /\ BatchSize \in Nat /\ BatchSize >= 1 /\ BatchCap \in Nat
    /\ Nothing \notin Items

\* size_ is positive, and a process has finitely many threads.
ASSUME ConnectionsAssumption ==
    Connections \in Nat /\ Connections >= 1 /\ MaxMade \in Nat /\ IsFiniteSet(Threads)

mpscVars == <<mpscHead, mpscTail, sequence, data, push, pop, mpscItem,
    mpscOut>>
poolVars == <<queues, poolClosed, poolRunning, sub, worker, fresh,
    poolAccepted, met, runs, stopping>>
batchVars == <<queue, batchClosed, buffer, batchRunning, thread, hand, batch,
    flusher, stopper, batchAccepted, handled, fate, flushed>>
connVars == <<pool, available, connThread, held, made, discarded, over, under,
    passed>>
all == <<subject, vars, mpscVars, poolVars, batchVars, connVars>>

MCInit ==
    /\ subject \in {"spsc", "mpsc", "workers", "batch", "connections"}
    /\ Init
    /\ Mpsc!Init
    /\ Pool!Init
    /\ Batch!Init
    /\ Conns!Init

MCNext ==
    \/ /\ subject = "spsc" /\ Next
       /\ UNCHANGED <<subject, mpscVars, poolVars, batchVars, connVars>>
    \/ /\ subject = "mpsc" /\ Mpsc!Next
       /\ UNCHANGED <<subject, vars, poolVars, batchVars, connVars>>
    \/ /\ subject = "workers" /\ Pool!Next
       /\ UNCHANGED <<subject, vars, mpscVars, batchVars, connVars>>
    \/ /\ subject = "batch" /\ Batch!Next
       /\ UNCHANGED <<subject, vars, mpscVars, poolVars, connVars>>
    \/ /\ subject = "connections" /\ Conns!Next
       /\ UNCHANGED <<subject, vars, mpscVars, poolVars, batchVars>>
    \* These may come to an end.
    \/ subject # "spsc" /\ UNCHANGED all

MCSpec ==
    /\ MCInit /\ [][MCNext]_all
    /\ Pool!Fairness
    /\ Batch!Fairness

-----------------------------------------------------------------------------

(* MpscQueue implements a bounded FIFO queue.                              *)
MpscIsFifo == Mpsc!MpscIsFifo

(* No task runs twice, and a task is lost only if a push of it was refused *)
(* (WorkerPool::submit).                                                   *)
RunOnceIfAccepted == Pool!RunOnceIfAccepted

(* An accepted task is run, unless the pool stops, and the stops of        *)
(* WorkerPool and BatchWriter return.                                      *)
QueuesGoOn == Pool!PoolGoesOn /\ Batch!StopReturns

(* An accepted item is in memory, in the database or counted as a loss,    *)
(* its statement run in order while nobody flushes, and before             *)
(* BatchWriter::stop returns.                                              *)
ItemsSafe == Batch!ItemsSafe

(* A connection is in one place, available_ counts the free ones, and no   *)
(* thread waits beside them, as far as starts over handed out connections, *)
(* starts that fail and the silence of start and stop allow                *)
(* (ConnectionPool).                                                       *)
PoolSound == Conns!PoolSound

=============================================================================
