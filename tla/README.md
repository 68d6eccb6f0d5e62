# CrashCore in TLA+

CrashCore is a C++23 runtime that follows the rounds of a crash game, predicts
the next round when one ends, stores and announces the prediction, and settles
it when its round ends. This directory holds TLA+ models of its core, the TLC
configurations that check them and proofs for TLAPS.

Paths below are relative to `src/include/` unless they start with `src/`.

## The system

```
BC.Game -> socket ----+                       (socket thread)
                      +-> EventRouter -> main loop (drainQueues)
REST history -> poll -+                  | LiveValidator::onGameEnd   settles round N
            (poll thread)                | N1Coordinator::onRoundEnd  predicts round N+1
                                         v
  response handler: register -> claim target -> DurablePredictionTx -> signal
                                         |
          in-memory Outbox (OutboxWorker)   notification_outbox table (NotificationWorker)
                                         v
                                     Telegram
  outcome handler: ExactlyOnceFeedback -> AdaptiveEdge, outcome signal
  LiveSupervisor: a lease in PostgreSQL that says which process has authority
```

| Component | State | Operations | Hard behaviour | What makes it correct |
|---|---|---|---|---|
| In-memory outbox (`delivery/outbox/outbox*.hpp`) | queue, reserved keys, delivered keys | publish, claim, deliver, markDelivered, markFailed | several publishers and workers, reservation and enqueue in separate critical sections, full queue, retries | one copy and one delivery per key; no key reserved for ever |
| Durable outbox (`persistence/outbox_repository.hpp`, `delivery/notification_worker.hpp`, `delivery/outbox/temporal_auth.hpp`) | rows with status, attempts, ages; started rounds; claimed batches | enqueue, claim, authorize, send, mark, recover stale claims, stale kill | two draining threads, crash, lost statement, claim recovered under a running send, start of the round during a send | a row is sent by one thread at a time and not after an acknowledgement; every row settles |
| Live supervisor (`live/live_supervisor.hpp`) | lease row; authority and epoch of each process | acquire, renew, release | processes and two threads in each, expiry, delays, failed statements | the owner keeps a lease it renews; no lasting split |
| Single-producer ring (`concurrency/spsc_queue.hpp`) | slots, two indexes | try_push, try_pop | lock-free, wrap-around | a bounded FIFO |
| Prediction lifecycle (`application/application.hpp`, `prediction_interface/n1_coordinator.hpp`, `validation/*`, `feedback/*`) | router keys and queue, registry, resolved rounds, pending responses, feedback set, signals | route, settle, predict, register, persist, publish, expire | main and poll thread predict and settle the same rounds; repeated End events; forgetting; failed transaction | matched once, feedback once, nothing left behind, order of signals |
| Prediction attempts and clients (`prediction_interface/*`, `validation/fencing.hpp`) | attempts by generation, the fence, rings and queues of the clients | begin, complete, expireTimeouts, submit, poll | a late answer races a timeout and a newer attempt; a full ring | answers applied in order, one verdict, no attempt for ever in flight |
| Entry gate (`prediction/acie/*`, `in_process_prediction_client.hpp`) | adaptive edge, loss streak, open entries | submit, evaluateStrategy, noteOutcome | the poll thread decides between the two memories of an outcome, with an edge it read before | the edge follows the outcomes within its limits |
| Leased outbox (`delivery/outbox/outbox_lifecycle.hpp`) | leases over the in-memory outbox | claimWithLease, both completions, recovery | completion after recovery | no item lost; twice only after an expiry |
| Native socket (`ingestion/native_bc_socket.hpp`, `ingestion/websocket/*`, `ingestion/socketio/socketio_client.hpp`) | status, stop and watchdog flags, client, ages of the last frame and event | start, stop, frames, watchdog, scheduleReconnect | four threads; a reconnect races a stop and the destructor; statuses overwritten; sends through a freed session | one thread at a time uses the client; stop returns and is final; silence is noticed; connected again in the end |
| Frame codec (`ingestion/websocket/ws_frame.hpp`, `ingestion/socketio/*`, `ingestion/event_decoder.hpp`) | bytes received | encode, decode, classify | varints and lengths at their thresholds, frames and packets that end early, three parsers | understood as sent or not at all, by all alike |
| Intake (`ingestion/*`, `realtime/*`, `application/pipeline_loop.hpp`) | round phases, dedupe keys, statistics, router queues | observe, filter, apply, route, drain | repetition, reordering, forgetting at a bound, full queues | one End per round; a sealed round keeps its result |
| Scenarios (`ingestion/scenarios.hpp`) | tables of rounds | replay through the engine | every frame is routed twice | each round counted and settled once |
| Poll worker and history client (`ingestion/rest/*`, `observability/recent_round_cache.hpp`) | cursor of the sweep, cache, rolling history | loop, pull pages, handle | pages that overlap or fail, rounds that end meanwhile, eviction | no fetched round lost; catches up |
| Database session (`persistence/*`, `delivery/outbox/durable_prediction_tx.hpp`) | one connection and its open transaction, rows, applied migrations | BEGIN, statements, COMMIT, ROLLBACK, migrate | transactions of several threads on one connection; crashes | a transaction holds its own statements; a migration is whole |
| Connection pool, batch writer (`persistence/*`) | slots and their count; queue, buffer, batches | start, stop, acquire, release; enqueue, flush, stop | lost wake-ups, failed starts, starts over connections that are handed out; flush beside the thread, a batch that fails in the middle | nobody sleeps beside a free connection; an accepted item is written or counted as failed, once |
| Worker pool, multi-producer ring (`concurrency/*`) | task queues; cells with sequence numbers | submit, steal, run, stop; push, pop | full queues, stop during a run; compare-and-swap | accepted tasks run once; a bounded FIFO |
| Readiness barrier (`observability/readiness_barrier.hpp`) | stage, held events, the optional handler | admit, advance, drain, setDrainHandler | an event held after the last drain; a drain without a handler | every admitted event is accounted for |
| Orchestration (`orchestration/*`) | what is up | start all, stop all | a start that fails or throws half-way, a start over what is up | order kept; all or none, unless a start threw |
| Online statistics (`prediction/online/*`) | windows, journals, stores, histograms, moments | add, read, scan | a reader that takes the lock twice; the arithmetic of the moments | says of its samples what it promises |
| Transport, prediction models, telemetry, schema, frontend | | | input and output, floating point, counters | not modelled |

Components share state by direct calls and handlers: the router's queues are
filled by two threads and emptied by one; `PredictionClient`, `LiveValidator`
and `Outbox` each have a mutex of their own, and no lock spans two of them,
which is why every critical section is a step of the models.

## Modules

| Module | Models |
|---|---|
| `MemoryOutbox` | `Outbox`, `OutboxQueue`, `OutboxWorker`, the publishing half of `DurableHandoff` |
| `LeasedOutbox` | `OutboxLifecycle` over the same outbox |
| `DurableOutbox` | `OutboxRepository`, `NotificationWorker`, `TemporalGuard` and the delivery function that joins them |
| `SharedConnection` | `PgDatabase`, the transactions of `DurablePredictionTx`, single statements of other threads, `MigrationRunner` |
| `ConnectionPool`, `BatchWriter` | the classes of the same names |
| `LeaseSupervisor` | `LiveSupervisor` in every process, the `worker_leases` row, the calls of `LiveBoot::run`, `Application::start` and `stop` |
| `ReadinessBarrier` | `ReadinessBarrier` and the stages `LiveBoot::run` takes it through |
| `Orchestration` | `Orchestrator`, and `StartupManager` and `ShutdownManager` over `ComponentRegistry` |
| `BoundedFifo` | what a bounded queue promises (abstract) |
| `SpscRing`, `MpscRing` | `SpscQueue` and `MpscQueue`, each shown to implement `BoundedFifo` |
| `Workers` | `WorkerPool` with its `BoundedQueue`s |
| `NativeSocket` | `NativeBcGameSocket` with its watchdog and reconnect worker, and the connection, session and `SocketIoClient` as far as it sees them |
| `History` | `PollWorker::loop`, `CrashHistoryClient`, `RecentRoundCache`, `RollingHistory` |
| `FrameCodec` | `ws_frame.hpp`, `socketio_protocol.hpp`, `SocketIoParser`, `EventDecoder`, `classifyFrame` |
| `FrameIntake` | from a decoded frame to the settled End: `RealtimePipeline`, `DuplicateFilter`, `EventValidator`, `RoundStateRegistry`, `CrashStatsAccumulator`, `EventRouter`, `PipelineLoop::drain`, as the engine and as the application drive them |
| `Scenarios` | the 50 scenarios `scenarios.hpp` adds to its list, by the rule they follow, replayed through `FrameIntake` |
| `PredictionLifecycle` | `EventRouter::route`, `drainQueues`, `LiveValidator`, `PredictionRegistry`, `N1Coordinator`, both prediction clients' `submit`, `DurablePredictionTx`, the two handlers of the application, `ExactlyOnceFeedback`, the poll worker |
| `Attempts` | `PredictionAttemptCoordinator`, `GenerationFence`, the stub, shared-memory, queue and socket clients |
| `EntryGate` | `InProcessPredictionClient::submit`, `evaluateStrategy`, the legacy gate, `AdaptiveEdge`, `LossCooldown` |
| `OnlineWindows` | one class of each generated family of `prediction/online` |
| `EngineParts` | the gate, the statistics, the codec and the scenarios side by side, without a module TLAPS cannot read |
| `MC*` | compositions and constants for TLC |
| `OutboxProofs`, `DurableOutboxProofs`, `LeaseProofs`, `QueueProofs`, `LifecycleProofs`, `PredictionLifecycleProofs`, `SocketProofs`, `EngineProofs` | theorems and proofs; each extends the composition whose components it is about, so that it speaks of the definitions the run checks |

`PROJECT.json` maps every definition to the lines it stands for. Of the generated
families of `prediction/online`, whose files repeat one class many times, one class each is modelled
and mapped.

**MemoryOutbox.** A publisher is `idle`, `reserved` (it holds its key and has
left the lock) or `full` (the queue refused the item, the key is not released
yet). A worker is `idle`, `inflight`, `ok` or `failed`. The delivery itself is
free to succeed or fail. Attempts, the dead letter, the queue bound and the
clearing of `delivered_keys_` are modelled; counters and timestamps are not.

**DurableOutbox.** Times are kept as differences: the age of a row, the age of
its claim, the wait until it is available. A drainer claims a batch and walks
through it row by row with the attempts it read then. `Crash` empties what is in
memory and leaves the table. `MarkLost` is a statement that failed, whose result
the drainer ignores. A row's claim may be recovered while its drainer is still
sending. Statements commit one by one: that other threads may have opened a
transaction on the same connection is not part of this module.

**LeaseSupervisor.** `acquire` is an upsert and a read-back, `renew` an update
and a read-back, `release` a delete and the loss of authority; each is a step.
The row carries the time it has left. Time may pass at any point; `delayed[w]`
remembers that it passed while worker `w` had something to do, so that a property
can speak of a worker that was never late while the others are as late as they like.

**SpscRing.** A push is three steps (load the indexes, write the slot, publish
the tail), a pop as well. `Producers` is the set of threads that push.

**NativeSocket.** `start` and `scheduleReconnect` are run by the main thread, by
the watchdog and by the reconnect worker, so their steps take the thread as a
parameter. The labels in `pc` are the points between two accesses to shared
state. Ages are `never`, `recent` or `old`, which is all the limits tell apart.
Received frames reach `SocketIoClient` directly; only injected ones pass through
`onRawFrame` and set `last_frame_ms_`, and `Replay` says whether there are any.
Nothing tells `SocketIoClient` that the session it sends through is gone, so an
injected ping or acknowledgement (`OnDangling`) and the watchdog's `tick` (`Tick`)
may send through a freed one: the send fails, or the process ends (`Aborts`). The
destructor stops the socket once more (`Destroy`) and then destroys `watchdog_`,
`client_` and `reconnect_worker_`, in this order. Two threads inside `client_`
may end the process as well (`Collides`). `overlapped` and `ending` are history
variables: `stop` was called while a reconnect was under way; the destructor has
begun. `Raced` is both.

**PredictionLifecycle.** Each thread carries the round it works on, the stamp in
its correlation id and its response. The main thread starts in `boot`: until
`InstallHandlers` only the poll thread runs, without a response handler. A
prediction is an identifier; the engine may enter or skip at will. Keys may be
evicted from the router's table at any time, and a registered prediction may be
found too old at any time; both over-approximate sizes and clocks that do not
matter here. The target coordinator is written by these handlers and read by
none of them, so it is not part of the state. A failed transaction is followed
by the fallback publish of the handler.

**LeasedOutbox.** A worker under `claimWithLease` holds a lease and, apart from
it, the item; the lease may expire while the worker is sending, and the worker
may still complete. `completeDelivered` marks first and erases the lease second.

**SharedConnection.** The connection has at most one open transaction, whoever
opened it; `BEGIN` inside one is a warning, `ROLLBACK` undoes what every thread has
written since. A statement that fails aborts the transaction, and `COMMIT` of an
aborted one reports success, as PostgreSQL does. A `COMMIT` may be executed and its
answer lost: the saver hears of a failure and is in `doubt`, and so does a migration.
A migration file that cannot be opened is replaced by the embedded schema. `clean`
remembers the savers between whose statements no other thread came.

**ConnectionPool, BatchWriter, Workers, MpscRing.** A step is a critical section,
or one access to an atomic variable. Condition variables are modelled as sets of
sleeping and woken threads. The pool may be started and stopped in any order and
while connections are handed out; `over` and `under` remember that the count is too
high or too low since, and `passed` which sleepers a start or stop went by. In
`BatchWriter` a statement may fail at any item of a batch, a batch may end in an
exception and a batch may meet no connection: `fate` says of each item whether it was
written, counted as failed or left unanswered.

**ReadinessBarrier.** `admit` looks at the stage, and later takes the lock: two
steps. `LiveBoot` drains twice. The drain handler is optional: `handler` says whether
there is none, one set before the barrier is live, or one set later. Without one, a
drain discards what is held (`discarded`), and an event that is let through is not
handed to anybody (`ignored`).

**Orchestration.** `managed` chooses between the orchestrator and the two managers.
A start or a stop of a component may fail or throw at will. A start that fails is
undone; one that throws leaves `startAll` at once, and what came up before it stays
up (`thrown`). `startAll` may be called over components that are up (`again`).

**History.** Rounds end at any time. Pages are newest first, so a page may overlap
the one before it. What a page holds is computed from the rounds that have ended
when the request is answered (`FetchOk`); it is then parsed round by round
(`ParseRound`), each into the cache and the batch, and `Parsed` is what follows the
last one. Requests may fail.

**FrameCodec.** A message is built field by field with the varints and the lengths
of the code, cut at any place, and decoded by the code's three parsers. The number of
groups that are read and the thresholds of a length are parameters, so that small
values pass each of them. A name is one byte. The loops of the code are recursive
functions: a varint ends at the first byte without its flag among those that are
read (`Ends`), and the fields from an offset on are the field there and the fields
after it (`FieldsFrom`). Masking is the exclusive or of the bits.

**FrameIntake.** `mode` says who drives: the engine, which drains after every frame
and routes each frame twice, or the application, whose socket and poll worker route
and whose main loop drains. Frames come in any order and any number of times.

**Scenarios.** `runAllBuiltIn` replays the 50 scenarios that `scenarios.hpp` itself
adds to its list. They follow one rule: scenario n has the identifier 30000 + n, the
multiplier 110 + 25 (n mod 40) in hundredths and 3 + n mod 7 progress frames. The
replay is the code's loop. The tables of the extension headers are compiled and
replayed by nobody; they are not part of the model.

**Attempts.** A correlation id is target and stamp; two callers may begin attempts
at the same target with the same stamp. Answers may be repeated, late or lost. Both
rings are written without a lock: the head is loaded, the slot filled and the next
head stored, three steps that two callers, or a caller and the engine, interleave.
The response ring has no check for a full ring, and the model has none either.
`clash` remembers that two writers were in it at once or that an answer was written
over one that had not been read.

**EntryGate.** Probabilities, confidences and edges are thousandths. `submit` reads
the edge under its lock and decides later; outcomes are told to the cooldown and to
the edge one after the other, under a lock each. `GateThreads` decide, `Settlers` tell
outcomes: in the program the main thread and the poll thread decide, and the main
thread alone settles.

**OnlineWindows.** `family` chooses the class. Moments are integers in units of
1 / `Scale`, which every count up to `MaxAdds` divides, so that the divisions
the code makes are exact. A mean that was read carries the size and the number
of additions its sum was taken at, which says of which samples it must be the sum.

## Runs

A composition `MC...` holds several components that do not interact; `subject`
says which one a behaviour is about, and the others stay in their initial states.

| Run | Instance | Shows |
|---|---|---|
| `outbox` (`MCOutbox`) | plain: 3 keys, 2 publishers, 2 workers, queue of 2, 3 attempts, delivered keys cleared above 2, fair; leased: 1 key, 3 workers, queue of 1, 3 attempts; connection: 2 savers, 1 other thread, 2 migrations, 2 faults; attempts: 1 target, 2 callers, 2 stamps, rings of 2, 2 attempts, 2 answers, fair | `OneCopyPerKey`, `DeliveredOnce`, `ReservationReleased`; `LeasesSafe`; `SavedIfUninterrupted`, `MigrationsWhole`; `AnswersSafe`, `AttemptEnds` |
| `durable` (`MCDurable`) | 2 rows of one round, 2 drainers, batches of 2, a crash or a failed statement; and 1 row, 2 drainers, 3 attempts, a crash and a failed statement, fair | `TypeOK`, `ExclusiveSend`; `OneRowSettles` |
| `lease` (`MCLease`) | 2 workers, arbitrary delays, one failed statement, fair; barrier: 4 events, 2 threads, room for 2; orchestration: 4 components of 3 orders, 3 starts | `OwnerKnowsEpoch`, `LeaseKept`, `SplitHeals`; `NoneForgotten`; `OrderedAndWhole` |
| `queues` (`MCQueues`) | ring of 4 slots, 3 values; ring of 2 cells, 2 producers, 6 positions; pool of 2 workers, 2 submitters, 3 tasks, queues of 1, fair; writer with batches of 2, queue of 2, 3 items, fair; connections: 3 threads, 2 connections, 5 made in all | `IsFifo`; `MpscIsFifo`; `RunOnceIfAccepted`; `ItemsSafe`; `PoolSound`; `QueuesGoOn` (workers and writer) |
| `lifecycle` (`MCLifecycle`) | main and poll thread, 2 rounds, 2 predictions, 2 stamps; main thread alone, 3 predictions, one failed transaction, one refused signal, a registry of 1; intake: 2 rounds, crash points 0, 1.50 and 2.50, 4 frames, filter of 2, router memory and queue of 1 | `MatchedOnce`, `FeedbackOnce`, `NoneLeftBehind`; `AloneSignalsSafe`; `EndsSafe`, `RecordsKept` |
| `engine` (`MCEngine`) | socket: one start, one stop and the destruction, failed and lost connections, injected frames, fair; history: pages of 2, sweeps of 3 and 2 pages, cache of 4, rolling history of 2, 5 rounds, 2 errors, fair; gate: 2 threads of which 1 settles, probabilities on both sides of the floor, wins and losses; statistics: windows of 2, 2 bins, 4 samples; codec: values on both sides of each threshold; scenarios: all 50 in one batch | `ClientOneThread`, `StopFinal`, `StopReturns`, `SilenceNoticed`; `HandledOnce`, `CatchesUp`; `EdgeFollows`; `FamiliesSound`; `Understood`; `ReplayCountsOnce` |
| `durable_dead_row` | 1 row, 1 drainer | `DeadStaysDead` is violated |
| `spsc_two_producers` | two producers | `IsFifo` is violated |
| `lifecycle_boot` | main and poll thread, 1 round, nothing fails | `PublishedIsStored` is violated |
| `socket_reconnect` | no injected frames, fair | `Reconnects` is violated |
| `shared_connection` | 2 savers and one other thread on one connection | `SavedAtomically` is violated |
| `reduced_entry` | the gate alone, probabilities and confidences around both floors | `ReducedActs` is violated |

Properties that are conjunctions of named parts are listed by their own name; the
parts are commented where they are defined. Deadlock is checked in every run
but `socket_reconnect`;
components that may be at rest (a stopped socket or pool, a feed that has ended)
have an explicit step that leaves everything as it is.

**Bounds.** The contended resource is always smaller than the demand: fewer
queue places than keys, a registry of one for three predictions, memories of one
round and one prediction, a cache smaller than a sweep, two connections for three
threads, two cells for six positions, so that each limit is met, each index wraps
and each forgetting happens.
Two actors are enough for every race in the code, because each critical section
involves one key, row, lease, cell or round. Faults
and crashes are bounded by one or two: the properties are about what one of them
leaves behind. `PgDatabase` does not reconnect, so a lasting loss of the
connection ends the progress of the durable path; `OneRowSettles` assumes that
failures end. The codec's values lie on both sides of every change of form: one
and two groups, the largest readable number, the short and the extended length.

**Fairness.** `MemoryOutbox`: a publisher inside `publish` returns, workers keep
running (`outbox_worker.hpp` loops until it is stopped). `DurableOutbox`: time
passes, drainers go on (every send has a timeout and a bounded number of
retries), and recovery, which the loop calls before a drain, is not missed for
ever (strong fairness, because a claim stops being stale when its drainer marks
the row). `LeaseSupervisor`: time, the renew threads and the statements a main
thread is in the middle of. `NativeSocket`: threads go on, time passes, and a
connection that is attempted again and again succeeds (strong fairness). Publishing, starting and stopping need none.
`Workers` and `BatchWriter`: threads keep running and a stop that has begun goes
on. `History`: the poll thread goes on. `Attempts`: `expireTimeouts` is called for
ever, as the main loop does; nobody answers of necessity. The other modules state
no fairness and have no liveness property.

## What the models found

* `durable_dead_row`: the drainer's UPDATE names the row by id only, so a row
  dead-lettered by the start of its round comes back as pending or delivered.
* `socket_reconnect`: the reconnect worker calls `start`, which returns at once in
  the status Reconnecting, so a connection that failed or was lost is not made
  again; the poll worker is then the only source of events.
* `spsc_two_producers`: the router's rings have two producers, socket and poll.
* `lifecycle_boot`: the poll worker predicts before the response handler is
  installed, and such a prediction is announced without being stored.
* `shared_connection`: BEGIN, the three statements and COMMIT are sent one by one
  on the connection all threads share, so the COMMIT or ROLLBACK of another thread
  may fall between them and part of a prediction is kept.
* `reduced_entry`: `submit` enters only if the legacy gate agrees, which asks for the
  edge a `REDUCED_ENTRY` lacks by definition, so a reduced entry is never acted upon
  (`strategy.hpp:128` says "still actionable; size reduced downstream").

The models also reach the following, for which no run is kept. When a retry meets
a full queue, `markFailed` drops the item and its key stays reserved: this is the
exception in `ReservationReleased`. A send that was authorised may succeed after its
round has started, because the check is not repeated (`application.hpp:418`).
`acquire` treats an upsert that changed no row as a success, so two workers may
have authority with the same epoch until a renewal notices, which is what
`SplitHeals` is about. A socket that is stopped during a reconnect may be started
again by the worker, and the worker that fails to connect then joins itself,
which ends the process: this is the exception in `StopFinal`. When such a socket is
destroyed, the destructor's `stop` and the worker's `start` use `client_` at the same
time (`native_bc_socket.hpp:93`): the exception in `ClientOneThread`. The watchdog's
`tick` and an injected ping or acknowledgement may send through a session that
`scheduleReconnect` has freed (`native_bc_socket.hpp:264`). The renew thread
may count an update of no row as a renewal, because only the
owner is read back (`live_supervisor.hpp:87`). With the poll thread, an outcome
may be published before its prediction, and one round may get two predictions,
because the result of `targets_.claim` is dropped (`application.hpp:304`). When
a transaction fails, the handlers publish all the same (`application.hpp:319`, where
`durable_prediction_tx.hpp` says "Do NOT publish to handoff"): this is what
`UnstoredAreFaults` counts. A `COMMIT` that was executed and whose answer was lost is
reported as a failure, and the handler's fallback publishes a prediction that is
stored: `doubt` in `SavedIfUninterrupted`.

Met while modelling the rest:

* Intake. The decoder sets no sequence number, so the keys of `DuplicateFilter` tell
  frames apart by their elapsed time only. An End without a crash point is valid
  and counts as 0. When the router has forgotten the key of an End that the
  `DuplicateFilter` still knows, `injectFrame` queues a repetition of it that the
  pipeline has ignored, and nothing drains it until the next accepted frame, whose
  own End may then meet a full queue. So `EndAccountedFor` promises that the engine
  loses no End only while no key was forgotten (`keyForgot`); that this condition is
  needed came out of the proof, and a router memory of 1 makes it happen within four
  frames. A Start or Prepare after the End opens a sealed round again: the
  exception in `RecordsKept`. `route` returns false if any target queue is full
  (the comment at `event_router.hpp:34` says all), and nothing empties
  `to_persistence_`. The engine hands each frame to the pipeline and routes it again.
  The replay's "st" frame, whose expected kind in `scenarios.hpp` is Start, is an End
  at 1.00, and that is what is recorded as the crash point of the round.
* Codec. A varint of more than eight groups is not read; a packet cut after its
  namespace is taken for a connect.
* Entry gate. The pull towards the initial edge undoes each win, so that with the
  default steps wins do not lower the edge below its start; `adaptive_edge.hpp:6` says
  "wins slightly lower required edge", and `phase12_durable_acie_test.cpp:90` asks for
  it. Without entries the edge stays where it is (line 8 says a streak cannot freeze).
* Attempts. A `begin` whose submit fails overwrites a state that an answer may have
  set, without a second verdict. Two writers of one ring fill the same slot and one
  of the two is lost; an answer written over an unread one empties the ring. What is
  lost this way ends in a timeout (`AttemptEnds`).
* Leased outbox. An expired lease costs two attempts; a late completion marks an
  item delivered that is queued again.
* Worker pool. A refused push has already taken the task, so an empty one is queued
  in its place and the submit succeeds: the exception in `RunOnceIfAccepted`.
* Connection pool. A start that fails half-way leaves connections with a count of 0;
  the start that succeeds after it, and a stop, wake nobody. A start over slots whose
  connections are handed out counts the slots, not the connections, so a thread may
  be given nothing although the count says there is one. These are `under`, `passed`
  and `over` in `PoolSound`.
* Batch writer. Fewer items than a batch stay in memory until a flush or a stop; a
  flush may overtake the item the thread has popped. An item whose statement fails is
  counted and gone.
* Poll worker. The cold sweep hands out more rounds than the cache keeps, so the
  next warm pages repeat some of them; a failed page ends the sweep.
* Statistics. The update of `m2_` uses (n + 1) / n in place of n / (n - 1), so
  the variance is too small (`online_stats.hpp:16`); NaN is counted in the total of
  a histogram and in no bin.
* Barrier. An event whose thread looked at the stage early and took the lock after
  the second drain stays in the buffer: an exception in `NoneForgotten`. The program
  sets no drain handler (only `tests/test_main.cpp:682` does), so what is held before
  the barrier is live is discarded by the first drain.
* Orchestration. An exception in a start leaves `startAll` without `stopAll`: what came
  up stays up while `running_` is false. A start over components that are up enters
  them into `started_` twice.

The exceptions are history variables, so that a property says exactly when the code
keeps what it promises: `dropped` (a full queue met by a retry), `overlapped` and `Raced` (a stop or
destruction during a reconnect), `lost` and `keyForgot` (a full router queue, a
forgotten key), `reopened` (a frame after the End), `met` (a refused task), `over`,
`under` and `passed` (starts of the pool), `again` and `thrown` (starts of the
orchestrator), `clash` (two writers in a ring), `doubt` (an unanswered COMMIT),
`late`, `discarded` and `ignored` (the barrier). What happens in these cases is the list above.

## Proofs

Every safety property the passing runs check is a theorem.
A theorem is about the component's own
specification (`Leased!Spec`, `Conn!Spec`...), for every value of the constants that
keeps the assumptions named; the bounds on faults, frames, attempts and positions
are constants too, so a proof covers every number of them.

| Theorem | States | For |
|---|---|---|
| `OutboxProofs!OneCopy`, `AtMostOnce` | `OneCopyPerKey`, `DeliveredOnce` | any keys, threads, capacity, attempts |
| `OutboxProofs!LeasesKeepItems` | `LeasesSafe` | any keys, capacity and attempts, finitely many workers |
| `OutboxProofs!SavesAreAtomic`, `MigrationsAreWhole` | `SavedIfUninterrupted`, `MigrationsWhole` | any savers, other threads, migrations and faults, the names of the three kept apart |
| `OutboxProofs!AnswersAreSafe` | `AnswersSafe` | any targets, callers, stamps and attempts, rings of at least two slots |
| `DurableOutboxProofs!NoDoubleSend` | `ExclusiveSend` | any rows, drainers, limits, crashes and faults, if the deadline is at most the staleness limit (the defaults are 5 s and 30 s) |
| `LeaseProofs!OwnerFindsItsRow`, `RenewedLeaseIsKept` | `OwnerKnowsEpoch`, `LeaseKept` | any workers, if the interval is at most the time to live; a worker that was never late keeps its lease, however late the others are |
| `LeaseProofs!NoEventForgotten` | `NoneForgotten` | any events and threads, room for at least one event, a handler set at any time or never |
| `LeaseProofs!OrderIsKept` | `OrderedAndWhole` | any components and orders, any failures and exceptions, any calls of start and stop |
| `QueueProofs!RingIsFifo` | `IsFifo` | any ring of at least two slots with at most one producer |
| `QueueProofs!MpscRingIsFifo`, `MpscNothingUnwritten` | `MpscIsFifo`, `NeverUnwritten` | any producers and items, a ring of at least two cells |
| `QueueProofs!PoolKeepsCount` | `PoolSound` | finitely many threads, at least one connection, any starts and stops |
| `QueueProofs!TasksRunOnce` | `RunOnceIfAccepted` | any tasks, submitters and queue sizes, at least one worker |
| `QueueProofs!WriterLosesNothing` | `ItemsSafe` | any items and queue size, batches of at least one |
| `PredictionLifecycleProofs!MatchedAtMostOnce`, `FeedbackAtMostOnce`, `NothingLeftBehind` | `MatchedOnce`, `FeedbackOnce`, `NoneLeftBehind` | any threads, rounds, predictions and capacities |
| `PredictionLifecycleProofs!SignalsSafeAlone`, `LifecycleProofs!SignalsAreSafeAlone` | `SignalsSafe`, `AloneSignalsSafe` | any predictions, rounds, capacities and faults, without pollers; the second is the first for the instance `Alone` of the run |
| `LifecycleProofs!EndsAreSafe`, `RecordsAreKept` | `EndsSafe`, `RecordsKept` | any rounds with positive identifiers, any crash points and frames, memories and queues of at least one |
| `SocketProofs!ClientUsedByOne`, `StopIsFinal` | `ClientOneThread`, `StopFinal` | any four threads, with and without injected frames |
| `SocketProofs!RoundsHandledOnce` | `HandledOnce` | any rounds, page sizes, sweeps, caches and errors |
| `EngineProofs!EdgeBounded` | `EdgeInBounds` | any threads, signals and parameters that keep the assumptions on the floors |
| `EngineProofs!EdgeFollowsOutcomes` | `EdgeFollows` | the same, for parameters that are `Calibrated` |
| `EngineProofs!ScenariosCountOnce` | `ReplayCountsOnce` | the scenarios of the rule, batches of any size, a filter that remembers more than 12 frames, router memory and queue of at least one |
| `EngineProofs!StatisticsSound` | `FamiliesSound` | any integer samples and points, capacities, bins and keys; any number of additions that the unit `Scale` divides by |
| `EngineProofs!CodecUnderstood` | `Understood` | any numbers of at most ten groups, any hashes, any limit on the groups that are read, any thresholds of a length field in which the packets fit |
| `TypeCorrect` in five of these modules | `TypeOK` | |

`Calibrated` asks that `LossThreshold` losses lift the edge by more than one late win
of every settling thread lowers it, and do not meet the ceiling. The program settles on
the main thread only, and its defaults give 2 against 6 and 26 against 80; TLC checks
it for the constants of the run (`CalibrationHolds`). Without it the cooldown could
be active while the edge is at its initial value.

Each proof is by an inductive invariant `IInv`, defined in the component's
module or at the head of the proofs.

* MemoryOutbox: that a key has one copy is not inductive, because a publish could
  accept a key that is under way; `CopiesReserved` (every copy has its key
  reserved) excludes it. At most one delivery needs to know where a delivery
  is remembered: with the worker that made it or in `delivered_keys`.
* LeasedOutbox: both halves are by key. A reserved key has a copy with somebody who
  will complete it (`HasCopy`; a worker that has marked its item does not count, its
  lease does not matter any more). While no lease of the key has expired
  there is one copy of it and no acknowledgement but that of the worker who is about to
  mark it (`OneCopy`); an expiry is remembered by everything it leaves behind
  (`Leases`).
* SharedConnection: a saver that was not interrupted is alone in the transaction
  (`Alone`): its rows so far are pending, none is stored, and an aborted transaction
  finds it on the way to its rollback or to its second try; a failed one in doubt has all its
  rows stored (`SaverOK`). During the migrations exactly the statements
  of the current file are pending (`Migrating`); afterwards no thread writes one.
* Attempts: an attempt is in one place, in flight under one id or with the caller about
  to record it (`Apart`), and only one that is in neither has a verdict or was
  applied (`Closed`); nothing is needed of the rings here, which may lose what they
  like. For the response ring itself, while the writers take turns, the one that
  is writing does so at the head, and the slots from the tail on hold the answers
  after the last one read (`InTurn`).
* DurableOutbox: a row younger than the deadline has at most one thread that
  claimed it (its claim cannot be stale yet), and an acknowledged young row is
  not pending; older rows are refused by `authorizeSend`.
* LeaseSupervisor: the lease's remaining time covers the rest of the renew
  thread's sleep, which holds only because the epochs agree.
* ReadinessBarrier: an event is in one place (`OnePlace`, `Apart`), and what is held
  after the last stage came from a thread that had looked at the stage before
  (`LateOnly`). No drain precedes the stage that is live (`NotYet`), so a handler set
  earlier has met all of them (`NoneYet`).
* Orchestration: the books know of all that is up, through exceptions as well
  (`BooksKnow`), and a start has brought up what it has visited (`Brought`). Until a
  start is called over what is up, the books and what is up are the same
  (`BooksAgree`), and a start or stop has everything before its place done and nothing
  after it (`Progress`).
* SpscRing: the indexes are private to their side between two publications, and
  the slots between them are written; the refinement maps the ring to the
  sequence of these slots.
* MpscRing: the positions in use are at most one lap. A position inside is owned by
  the one producer that won its swap and has not published, or it is published; the
  positions from the tail to the end of the lap are free; a producer at its swap
  whose tail has not moved still finds its cell free. That positions less than a
  lap apart have different cells is all the proof needs of the remainder
  (`CellsDiffer`, `CellLap`). The refinement maps the ring to the items by
  position; the swap is the push and the store that frees the cell is the pop.
* ConnectionPool: a connection is in one slot or with one thread (`Apart`), and free
  and held ones together with those a stop destroyed are those made (`Books`), which is
  what turns the bounds of the count into an invariant; no phase of the pool has
  an account of its own.
* Workers: a task is at one place of one queue or in one pair of hands, and has not
  run there (`OnePlace`). An accepted one whose push was never refused is somewhere
  (`Kept`); the refused push is what empties the hands (`Hands`).
* BatchWriter: the queue, the hand, the buffer, the batches and what is handled are
  disjoint and together hold what was accepted (`Distinct`, `Contents`); without a
  flush they hold it in order (`InOrder`). That a stop leaves nothing rests on who
  may still own something (`Owned`, `Stopped`).
* PredictionLifecycle: a matched prediction belongs to a settled round, an
  applied one was matched and not yet forgotten, and every response in flight
  has been made by the engine. Steps that do not settle are shown to be `Quiet`
  (they touch none of the settling state), which leaves three to consider. The signals
  need a second invariant for the main thread alone (`AloneInv`): what the thread
  has in hand, how far its signals are, and which failure stands for each of
  those not stored.
* FrameIntake: an End that waits has a key the router knows or has forgotten
  (`QueuedIsKnown`), the engine leaves no End behind it while none was forgotten
  (`EngineIsDrained`), and the first End of a sealed round is the one recorded
  (`FirstIsKnown`). The streaks are shown to be the longest runs of the sequence of
  recorded values by what one more value does to a run at its end.
* NativeSocket: the main thread is alone until its `start` has returned
  (`MainAlone`); before the destructor the worker gets past the check of `start` only
  after `stop`, when the watchdog is gone (`WorkerAlone`); and a stop that met no
  reconnect leaves `intentional_stop_` set, with nobody at a step that clears it, so
  that the destructor finds nobody either (`QuietStop`).
* History: what is cached was passed on, and what was passed on is cached or was
  evicted (`CacheOK`), so that a page repeats only what was evicted (`BatchOnce`).
* EntryGate: what a thread has read is within bounds (`EdgeInBounds`); the ties of the
  edge to the outcomes are a second induction (`Follows`): the losses of a streak that
  have reached the edge keep it up, but for the wins from before the streak that
  arrive late, at most one for each settling thread (`LossesCarry`).
* Scenarios: the "st" frame that opens a scenario is an End already, and the round is
  counted with it. The "ed" frame at its close is a second one, which the
  filter and the router stop if both remember the first (`StillKnown`): the filter no
  deeper than the frames since. A scenario has at most 9 progress frames;
  the filter has 8192 places, the theorem asks for 13.
  The rounds of the batch to come are unknown to every filter (`Unseen`).
* OnlineWindows: one invariant for each family (`WindowInv`, `JournalInv`, `StoreInv`,
  `HistInv`, `StatInv`). The window is the last samples, in order; what a
  reader has seen is a state of the journal or of the store at some number of
  additions; the running mean is exactly the sum of the samples over their number, and
  m2 never exceeds the sum of the squared deviations. What one more sample does to
  these sums is by induction over the samples.
* FrameCodec: on each level the wire holds the packet of the message, a start of the
  packet once that was cut, or a start of its frame once that was (`CodecInv`). The
  rest is about the operators: a number is the sum of its digits and has only those
  (`NumberOfDigits`), a varint that is all there is read back and one that is cut is not
  (`ReadWritten`), a start of a round's or a progress event's payload gives a start of
  its fields (`RoundFields`, `ProgressField`), masking twice changes nothing
  (`MaskedTwice`), a frame gives back its payload and a start of one nothing
  (`FrameDecoded`), and the parsers agree about any bytes (`Agreement`).

The library's induction theorems take an operator as a parameter, which these provers do
not instantiate. `EngineProofs` states induction as facts about sets instead: a set of
natural numbers that is not empty has a least element (`LeastNat`), so one that
contains 0 and the successor of each of its members contains them all (`SetInduction`).
Each recursive function is then shown to satisfy its equation (`ShiftedIs`, `ValuesAre`,
`FieldsAre`...).

The assumptions on the codec: `ShortLen` is at most 126, so that it and the value after
it fit beside the mask flag; a number has at most ten groups, as every number of 64 bits
does; and the length of each packet fits into eight digits of `LenRadix`, as every
length does for 256. `Groups`, the limit of `readVarint`, is free: the theorem says that
a number is understood exactly if it has at most that many groups.

Only model-checked: the liveness properties (`ReservationReleased`,
`OneRowSettles`, `SplitHeals`, `StopReturns`, `SilenceNoticed`, `QueuesGoOn`,
`CatchesUp`, `AttemptEnds`), because TLAPS does not reason about fairness here.

## Not modelled

Prediction models (floating point; the engine answers freely), the session's own reconnect loop
(switched off by the socket), HTTP and signing, telemetry, logging, schema and
retention, the frontend. `TargetCoordinator` is written by the application and read
by nobody. `FeedbackDispatcher` (a second, asynchronous copy of each outcome) and
`StuckRecovery` (a scan for old predictions, called by the event engine, that
`PredictionLifecycle` has as the expiry of a prediction) are not modules of their own;
`Worker`, `ObjectPool` and `SpinWait` are used by no other part. Of the statistics, the exponential averages,
percentiles and tensors are left out. The whole order of `Application::start` and
`stop` is not one model; the modules contain the parts of it they depend on.

## Plan

1. `Delivery`: both outboxes together (a stored signal is announced by both), with the
   proved properties of each as what it promises.
2. The order of the whole start and stop of the application, with the poll worker,
   the socket and the outbox workers.
