------------------------------- MODULE Workers ------------------------------
(***************************************************************************)
(* WorkerPool: a BoundedQueue per worker, submitters that push to the      *)
(* shortest one, workers that run their own queue and steal from the       *)
(* others, and the stop.                                                   *)
(*                                                                         *)
(* try_push takes its task by value, so a task is moved away even by a     *)
(* push that is refused: what the submitter tries next is an empty Task,   *)
(* written Gone here, which a worker runs without effect.                  *)
(***************************************************************************)
EXTENDS Integers, Sequences, SequencesExt, FiniteSets

CONSTANTS
    Tasks,      \* tasks, numbers above 0, submitted once each
    Submitters,
    N,          \* queues, and as many workers
    Cap         \* capacity of each queue

Queues == 0 .. N - 1
Gone == 0       \* an empty Task; tasks are numbers above 0
Sub == [pc |-> "idle", task |-> Gone, at |-> 0, blocking |-> FALSE, name |-> Gone]

VARIABLES
    queues,     \* queues_
    closed,     \* the queues that are closed
    running,    \* running_
    sub,        \* by submitter: where it is, the Task it still has
    worker,     \* by worker: where it is and its task
    fresh,      \* tasks not submitted yet
    accepted,   \* history: submit returned true for them
    met,        \* history: their first push was refused
    runs,       \* history: how often a task ran
    stopping    \* where stop is

vars == <<queues, closed, running, sub, worker, fresh, accepted, met, runs, stopping>>

Init ==
    /\ queues = [q \in Queues |-> <<>>] /\ closed = {} /\ running = TRUE
    /\ sub = [s \in Submitters |-> Sub]
    /\ worker = [w \in Queues |-> [pc |-> "loop", task |-> Gone]]
    /\ fresh = Tasks /\ accepted = {} /\ met = {}
    /\ runs = [t \in Tasks |-> 0] /\ stopping = "no"

-----------------------------------------------------------------------------

\* try_submit and submit look for the first of the shortest queues, which it may
\* no longer be when the push comes.
Choose(s, t, q, blocking) ==
    /\ sub[s].pc = "idle" /\ t \in fresh
    /\ \A r \in Queues : Len(queues[q]) <= Len(queues[r]) - IF r < q THEN 1 ELSE 0
    /\ fresh' = fresh \ {t}
    /\ sub' = [sub EXCEPT ![s] = [pc |-> "best", task |-> t, at |-> q, blocking |-> blocking, name |-> t]]
    /\ UNCHANGED <<queues, closed, running, worker, accepted, met, runs, stopping>>

\* BoundedQueue::try_push succeeds.
Room(q) == q \notin closed /\ Len(queues[q]) < Cap

\* A push succeeds, with what is left of the task.
Push(s, q) ==
    /\ Room(q)
    /\ queues' = [queues EXCEPT ![q] = Append(@, sub[s].task)]
    /\ accepted' = accepted \cup {sub[s].name}
    /\ sub' = [sub EXCEPT ![s] = Sub]
    /\ UNCHANGED <<closed, running, worker, fresh, met, runs, stopping>>

\* A refused push has consumed the task.
Refused(s, q, next) ==
    /\ ~Room(q)
    /\ sub' = [sub EXCEPT ![s] = [next EXCEPT !.task = Gone]]
    /\ met' = met \cup {sub[s].name}
    /\ UNCHANGED <<queues, closed, running, worker, fresh, accepted, runs, stopping>>

\* The shortest queue first, then each queue in turn.
TryBest(s) ==
    LET q == sub[s].at IN
    /\ sub[s].pc = "best"
    /\ \/ Push(s, q)
       \/ Refused(s, q, [sub[s] EXCEPT !.pc = "each", !.at = 0])
TryEach(s) ==
    LET q == sub[s].at
        done == IF sub[s].blocking THEN [sub[s] EXCEPT !.pc = "block", !.at = 0] ELSE Sub IN
    /\ sub[s].pc = "each"
    /\ \/ Push(s, q)
       \/ Refused(s, q, IF q = N - 1 THEN done ELSE [sub[s] EXCEPT !.at = q + 1])

\* submit waits for room in the first queue, and gives up after its timeout or
\* when the queue is closed.
Block(s) ==
    /\ sub[s].pc = "block"
    /\ \/ Push(s, 0)
       \/ /\ sub' = [sub EXCEPT ![s] = Sub]
          /\ UNCHANGED <<queues, closed, running, worker, fresh, accepted, met, runs, stopping>>

\* What try_pop leaves.
Popped(q) == Tail(queues[q])

\* workerLoop looks at running_ and then takes a task of its own queue, or
\* steals one; try_pop does not ask whether the queue is closed.
Take(w, q) ==
    /\ worker[w].pc = "loop" /\ running /\ queues[q] # <<>>
    /\ q # w => \A r \in Queues : r # q /\ (r - w + N) % N < (q - w + N) % N => queues[r] = <<>>
    /\ queues' = [queues EXCEPT ![q] = Popped(q)]
    /\ worker' = [worker EXCEPT ![w] = [pc |-> "run", task |-> Head(queues[q])]]
    /\ UNCHANGED <<closed, running, sub, fresh, accepted, met, runs, stopping>>

\* Mutant: an exception of the task ends the worker.
AfterThrow == "ended"

\* The worker goes on after an exception.
AfterRun == "loop"

\* Mutant: running_ is looked at again before the task is called.
RunsWhileRunning(w) == IF running THEN worker[w].task ELSE Gone

\* What the worker calls: an empty Task does nothing.
Called(w) == worker[w].task

\* The task runs; it may throw.
RunTask(w) ==
    /\ worker[w].pc = "run"
    /\ runs' = [t \in Tasks |-> runs[t] + IF t = Called(w) THEN 1 ELSE 0]
    /\ worker' = [worker EXCEPT ![w] = [pc |-> AfterRun, task |-> Gone]]
    /\ UNCHANGED <<queues, closed, running, sub, fresh, accepted, met, stopping>>

\* The condition of the loop no longer holds.
Leaves(w) == ~running

WorkerEnds(w) ==
    /\ worker[w].pc = "loop" /\ Leaves(w)
    /\ worker' = [worker EXCEPT ![w].pc = "ended"]
    /\ UNCHANGED <<queues, closed, running, sub, fresh, accepted, met, runs, stopping>>

\* stop: running_ first, then the queues one after the other, then the joins.
StopRunning ==
    /\ stopping = "no"
    /\ running' = FALSE /\ stopping' = "close"
    /\ UNCHANGED <<queues, closed, sub, worker, fresh, accepted, met, runs>>
StopClose(q) ==
    /\ stopping = "close" /\ q \notin closed /\ \A r \in Queues : r < q => r \in closed
    /\ closed' = closed \cup {q}
    /\ stopping' = IF closed' = Queues THEN "join" ELSE "close"
    /\ UNCHANGED <<queues, running, sub, worker, fresh, accepted, met, runs>>
StopJoin ==
    /\ stopping = "join" /\ \A w \in Queues : worker[w].pc = "ended"
    /\ stopping' = "done"
    /\ UNCHANGED <<queues, closed, running, sub, worker, fresh, accepted, met, runs>>

WorkerLoop(w) == (\E q \in Queues : Take(w, q)) \/ RunTask(w) \/ WorkerEnds(w)
Submit(s) ==
    \/ \E t \in Tasks, q \in Queues, b \in BOOLEAN : Choose(s, t, q, b)
    \/ TryBest(s) \/ TryEach(s) \/ Block(s)
Stop == StopRunning \/ StopJoin \/ \E q \in Queues : StopClose(q)

Next == Stop \/ (\E w \in Queues : WorkerLoop(w)) \/ \E s \in Submitters : Submit(s)

\* Workers wait 5 ms at most before they look again, so a missed notification
\* delays them and no more; nobody is obliged to submit or to begin a stop.
Fairness ==
    /\ \A w \in Queues : WF_vars(WorkerLoop(w))
    /\ WF_vars(StopJoin) /\ \A q \in Queues : WF_vars(StopClose(q))
Spec == Init /\ [][Next]_vars /\ Fairness

-----------------------------------------------------------------------------

InHand == {worker[w].task : w \in Queues}
Waiting == UNION {ToSet(queues[q]) : q \in Queues}

(* Stealing does not run a task twice, and no queue exceeds its capacity.  *)
RunOnce ==
    /\ \A t \in Tasks : runs[t] + Cardinality({w \in Queues : worker[w].task = t}) <= 1
    /\ \A q \in Queues : Len(queues[q]) <= Cap

(* A task for which submit returned true is waiting, in the hands of a     *)
(* worker or has run, unless its first push was refused: then an empty     *)
(* Task was queued in its place, and the task is lost although true was    *)
(* returned (worker_pool.hpp, lines 42 to 50).                             *)
LostOnlyIfRefused ==
    \A t \in accepted \ met : t \in Waiting \cup InHand \/ runs[t] = 1

(* A task that was accepted is run once, however the workers steal from    *)
(* each other.                                                             *)
RunOnceIfAccepted == RunOnce /\ LostOnlyIfRefused


(* While the pool is not stopped, every task that is waiting is run.       *)
WaitingRuns == \A t \in Tasks : t \in Waiting ~> (runs[t] = 1 \/ stopping # "no")

(* A stop ends all workers and returns.                                    *)
StopEnds == stopping = "close" ~> stopping = "done"

(* The pool makes progress: tasks are run, and a stop returns.             *)
PoolGoesOn == WaitingRuns /\ StopEnds

-----------------------------------------------------------------------------
(* The inductive invariant.                                                *)

TypeOK ==
    /\ queues \in [Queues -> Seq(Tasks \cup {Gone})] /\ fresh \in SUBSET Tasks
    /\ sub \in [Submitters -> [pc : {"idle", "best", "each", "block"}, task : Tasks \cup {Gone},
                               at : Queues, blocking : BOOLEAN, name : Tasks \cup {Gone}]]
    /\ worker \in [Queues -> [pc : {"loop", "run", "ended"}, task : Tasks \cup {Gone}]]
    /\ accepted \in SUBSET Tasks /\ met \in SUBSET Tasks /\ runs \in [Tasks -> Nat]

\* What a submitter or a worker has in its hands.
Hands ==
    /\ \A s \in Submitters : IF sub[s].pc = "idle" THEN sub[s].task = Gone ELSE
           sub[s].name \in Tasks /\ sub[s].task = IF sub[s].name \in met THEN Gone ELSE sub[s].name
    /\ \A w \in Queues : worker[w].pc # "run" => worker[w].task = Gone

\* Where task t is: s submits it, it is number i of queue q, w has it.
InSub(s, t) == sub[s].pc # "idle" /\ sub[s].name = t
InQueue(q, i, t) == i \in 1 .. Len(queues[q]) /\ queues[q][i] = t
InWorker(w, t) == worker[w].task = t

\* A task is in one place, and where it is it has not run.
OnePlace(t) ==
    /\ t \in fresh => t \notin met /\ runs[t] = 0
    /\ \A s \in Submitters : InSub(s, t) => t \notin fresh /\ runs[t] = 0
    /\ \A q \in Queues, i \in Nat : InQueue(q, i, t) => t \notin fresh /\ runs[t] = 0
    /\ \A w \in Queues : InWorker(w, t) => t \notin fresh /\ runs[t] = 0
    /\ \A s, u \in Submitters : InSub(s, t) /\ InSub(u, t) => s = u
    /\ \A q, r \in Queues, i, j \in Nat : InQueue(q, i, t) /\ InQueue(r, j, t) => q = r /\ i = j
    /\ \A w, v \in Queues : InWorker(w, t) /\ InWorker(v, t) => w = v
    /\ \A s \in Submitters, q \in Queues, i \in Nat : ~(InSub(s, t) /\ InQueue(q, i, t))
    /\ \A s \in Submitters, w \in Queues : ~(InSub(s, t) /\ InWorker(w, t))
    /\ \A q, w \in Queues, i \in Nat : ~(InQueue(q, i, t) /\ InWorker(w, t))
    /\ runs[t] <= 1

\* An accepted task whose first push was not refused is somewhere, or has run.
Kept(t) ==
    t \in accepted \ met =>
        \/ \E q \in Queues, i \in Nat : InQueue(q, i, t)
        \/ \E w \in Queues : InWorker(w, t)
        \/ runs[t] = 1

IInv ==
    /\ TypeOK /\ Hands
    /\ \A q \in Queues : Len(queues[q]) <= Cap
    /\ \A t \in Tasks : OnePlace(t) /\ Kept(t)

=============================================================================
