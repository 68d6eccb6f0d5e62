---------------------------- MODULE NativeSocket ----------------------------
(***************************************************************************)
(* NativeBcGameSocket: the connection to the game server and the policy    *)
(* that watches it and connects again.  Four threads meet here:            *)
(*                                                                         *)
(*   Main    starts and stops the socket, feeds frames in when a recording *)
(*           is replayed (injectFrame), and destroys it, which stops it    *)
(*           once more;                                                    *)
(*   Io      the io thread of the transport, which receives the frames;    *)
(*   Dog     the watchdog;                                                 *)
(*   Worker  the reconnect worker (one at a time: it is joined first).     *)
(*                                                                         *)
(* start and scheduleReconnect are run by several of them, so their steps  *)
(* take the thread as a parameter.  An access to an atomic, or to client_, *)
(* is a step.  Ages are what the code tells apart: no message yet, a       *)
(* recent one, one older than the limit.  Nothing calls                    *)
(* scheduleReconnect(true), so the status WafBlocked is never reached.     *)
(***************************************************************************)
EXTENDS Naturals

CONSTANTS
    Main, Io, Dog, Worker, \* the threads
    Replay                 \* whether frames are injected as well

Threads == {Main, Io, Dog, Worker}

ASSUME ThreadAssumption ==
    /\ Main \notin {Io, Dog, Worker}
    /\ Io \notin {Dog, Worker}
    /\ Dog # Worker
ASSUME ReplayAssumption == Replay \in BOOLEAN

VARIABLES
    status,      \* status_
    intentional, \* intentional_stop_
    guarded,     \* watchdog_running_
    client,      \* client_ holds a WebSocketClient
    link,        \* its transport is connected
    joined,      \* SocketIoClient::joined_
    frame,       \* age of last_frame_ms_
    event,       \* age of last_event_ms_
    pc,          \* where each thread is
    overlapped,  \* history: stop was called while a reconnect was under way
    ending       \* history: the destructor has begun

flags == <<intentional, guarded>>
transport == <<client, link, joined>>
ages == <<frame, event>>
history == <<overlapped, ending>>
vars == <<status, flags, transport, ages, pc, history>>

Status == {"Stopped", "Connecting", "SocketOpen", "Connected", "Degraded",
           "Reconnecting", "WafBlocked"}

Ages == {"never", "recent", "old"}

StartSteps == {"start", "clear", "make", "connect", "greet", "closing", "open",
               "mark", "failed"}
ReconnectSteps == {"schedule", "drop", "dropping", "join", "joining"}

Labels == StartSteps \cup ReconnectSteps \cup
    {"none", "done", "confirm",        \* no thread; it ended; inside an End event
     "new", "up",                      \* Main; Io is "up" as well
     "unwatch", "unwatched", "unlink", "unlinking", "halt", \* Main in stop
     "release", "dispose", "disposing", "await", "gone", \* Main after the destructor's stop
     "head", "sleep", "look", "degrade", "age", "tick", \* Dog
     "wait"}                           \* Worker

Goto(t, l) == pc' = [pc EXCEPT ![t] = l]

-----------------------------------------------------------------------------

Init ==
    /\ status = "Stopped"
    /\ intentional = FALSE /\ guarded = FALSE
    /\ client = FALSE /\ link = FALSE /\ joined = FALSE
    /\ frame = "never" /\ event = "never"
    /\ pc = [t \in Threads |-> IF t = Main THEN "new" ELSE "none"]
    /\ overlapped = FALSE /\ ending = FALSE

-----------------------------------------------------------------------------
(* start() *)

\* Where a thread goes on when start or scheduleReconnect returns.
AfterCall(t) ==
    CASE t = Main   -> "up"
      [] t = Worker -> "done"
      [] t = Dog    -> "tick"

\* Mutant: a start that proceeds in every status.
StartAnyway(t) ==
    /\ pc[t] = "start"
    /\ Goto(t, "clear")
    /\ UNCHANGED <<status, flags, transport, ages, history>>

StartCheck(t) ==
    /\ pc[t] = "start"
    /\ Goto(t, IF status \in {"Stopped", "WafBlocked"} THEN "clear" ELSE AfterCall(t))
    /\ UNCHANGED <<status, flags, transport, ages, history>>

StartClear(t) ==
    /\ pc[t] = "clear"
    /\ intentional' = FALSE
    /\ Goto(t, "make")
    /\ UNCHANGED <<status, guarded, transport, ages, history>>

StartMake(t) ==
    /\ pc[t] = "make"
    /\ status' = "Connecting"
    /\ client' = TRUE /\ link' = FALSE
    /\ Goto(t, "connect")
    /\ UNCHANGED <<flags, joined, ages, history>>

\* The connection takes no more frames, and the io thread ends, after the
\* frame it is handling.  joined_ is left as it is.
Close(t, next) ==
    /\ link' = FALSE
    /\ pc' = [pc EXCEPT ![t] = next, ![Io] = IF @ = "up" THEN "none" ELSE @]

\* WebSocketClient::start connects and starts the io thread, then joins the
\* namespace; when that fails it closes the connection again.
ConnectOk(t) ==
    /\ pc[t] = "connect"
    /\ link' = TRUE
    /\ pc' = [pc EXCEPT ![t] = "greet", ![Io] = "up"]
    /\ UNCHANGED <<status, flags, client, joined, ages, history>>

ConnectFails(t) ==
    /\ pc[t] = "connect"
    /\ Goto(t, "failed")
    /\ UNCHANGED <<status, flags, transport, ages, history>>

JoinOk(t) ==
    /\ pc[t] = "greet" /\ link
    /\ joined' = TRUE
    /\ Goto(t, "open")
    /\ UNCHANGED <<status, flags, client, link, ages, history>>

JoinFails(t) ==
    /\ \/ pc[t] = "greet" /\ Close(t, "closing")
       \/ pc[t] = "closing" /\ pc[Io] = "none" /\ Goto(t, "failed") /\ link' = link
    /\ UNCHANGED <<status, flags, client, joined, ages, history>>

StartOpen(t) ==
    /\ pc[t] = "open"
    /\ status' = "SocketOpen"
    /\ Goto(t, "mark")
    /\ UNCHANGED <<flags, transport, ages, history>>

\* startWatchdog runs at the end of a start that succeeded.  Assigning the
\* new thread waits for the end of the one before it.
StartMark(t) ==
    /\ pc[t] = "mark"
    /\ guarded \/ pc[Dog] \in {"none", "done"}
    /\ status' = IF joined THEN "Connected" ELSE status
    /\ guarded' = TRUE
    /\ pc' = [pc EXCEPT ![t] = AfterCall(t), ![Dog] = IF guarded THEN @ ELSE "head"]
    /\ UNCHANGED <<intentional, transport, ages, history>>

StartFailed(t) ==
    /\ pc[t] = "failed"
    /\ status' = "Reconnecting"
    /\ Goto(t, "schedule")
    /\ UNCHANGED <<flags, transport, ages, history>>

-----------------------------------------------------------------------------
(* scheduleReconnect() *)

Schedule(t) ==
    /\ pc[t] = "schedule"
    /\ IF intentional
       THEN status' = status /\ Goto(t, AfterCall(t))
       ELSE status' = "Reconnecting" /\ Goto(t, "drop")
    /\ UNCHANGED <<flags, transport, ages, history>>

\* client_->stop() has closed the connection: the io thread is joined, and
\* client_ is reset.
Reset(t, next) ==
    /\ pc[Io] = "none"
    /\ client' = FALSE
    /\ Goto(t, next)

Drop(t) ==
    /\ \/ pc[t] = "drop" /\ Close(t, "dropping") /\ client' = client
       \/ pc[t] = "dropping" /\ Reset(t, "join") /\ link' = link
    /\ UNCHANGED <<status, flags, joined, ages, history>>

Spawn(t) == pc' = [pc EXCEPT ![t] = AfterCall(t), ![Worker] = "wait"]

\* The handle of a worker that has ended is still joinable.
Join(t) ==
    /\ pc[t] = "join"
    /\ IF pc[Worker] = "none"
       THEN Spawn(t) /\ intentional' = intentional
       ELSE Goto(t, "joining") /\ intentional' = TRUE
    /\ UNCHANGED <<status, guarded, transport, ages, history>>

Joined(t) ==
    /\ pc[t] = "joining" /\ pc[Worker] = "done"
    /\ intentional' = FALSE
    /\ Spawn(t)
    /\ UNCHANGED <<status, guarded, transport, ages, history>>

\* The process ends.
Aborts ==
    /\ pc' = [t \in Threads |-> "none"]
    /\ UNCHANGED <<status, flags, transport, ages, history>>

\* send_ calls into the session it was made by, which client_ owned: through
\* a session that is gone, a send fails or ends the process.
SendDangling == ~client /\ Aborts

\* The worker's own start failed: it joins itself, join throws, and the
\* exception leaves the thread.
JoinsItself == pc[Worker] = "joining" /\ Aborts

\* Mutant: the worker does not look at intentional_stop_.
WorkerWakesAnyway ==
    /\ pc[Worker] = "wait"
    /\ Goto(Worker, "start")
    /\ UNCHANGED <<status, flags, transport, ages, history>>

\* The delay is over.  Only the destructor of reconnect_worker_ requests its
\* stop.
WorkerWakes ==
    /\ pc[Worker] = "wait"
    /\ Goto(Worker, IF intentional \/ pc[Main] = "await" THEN "done" ELSE "start")
    /\ UNCHANGED <<status, flags, transport, ages, history>>

-----------------------------------------------------------------------------
(* The watchdog *)

\* Mutant: the loop does not look at its condition.
DogSleepsOn ==
    /\ pc[Dog] = "head"
    /\ Goto(Dog, "sleep")
    /\ UNCHANGED <<status, flags, transport, ages, history>>

\* Whoever joins the watchdog has requested its stop.
StopRequested == pc[Main] \in {"unwatched", "release"}

\* The loop condition is read before the sleep, intentional_stop_ after it.
DogSleeps ==
    /\ pc[Dog] = "head"
    /\ Goto(Dog, IF guarded /\ ~StopRequested THEN "sleep" ELSE "done")
    /\ UNCHANGED <<status, flags, transport, ages, history>>

DogWakes ==
    /\ pc[Dog] = "sleep"
    /\ Goto(Dog, IF intentional THEN "done" ELSE "look")
    /\ UNCHANGED <<status, flags, transport, ages, history>>

\* Mutant: the age of the last frame instead of the last event.
CheckDegradedByFrame ==
    /\ pc[Dog] = "look"
    /\ Goto(Dog, IF status = "Connected" /\ frame = "old" THEN "degrade" ELSE "age")
    /\ UNCHANGED <<status, flags, transport, ages, history>>

CheckDegraded ==
    /\ pc[Dog] = "look"
    /\ Goto(Dog, IF status = "Connected" /\ event = "old" THEN "degrade" ELSE "age")
    /\ UNCHANGED <<status, flags, transport, ages, history>>

SetDegraded ==
    /\ pc[Dog] = "degrade"
    /\ status' = "Degraded"
    /\ Goto(Dog, "age")
    /\ UNCHANGED <<flags, transport, ages, history>>

CheckStale ==
    /\ pc[Dog] = "age"
    /\ Goto(Dog, IF status \notin {"Stopped", "WafBlocked"} /\ frame = "old"
                 THEN "schedule" ELSE "tick")
    /\ UNCHANGED <<status, flags, transport, ages, history>>

\* sio_.tick sends a ping when one is due and connected_ is set, which it is
\* together with joined_; resetting client_ clears neither.
Tick ==
    \/ /\ pc[Dog] = "tick"
       /\ Goto(Dog, "head")
       /\ UNCHANGED <<status, flags, transport, ages, history>>
    \/ pc[Dog] = "tick" /\ joined /\ SendDangling

-----------------------------------------------------------------------------
(* Frames: received by Io, or injected by Main *)

Receives(t) == t \in {Io} \cup (IF Replay THEN {Main} ELSE {}) /\ pc[t] = "up"

\* onRawFrame, which only injected frames pass through, notes the time.
NoteFrame(t) == frame' = IF t = Main THEN "recent" ELSE frame

\* A tracked event other than an End.
OnEvent(t) ==
    /\ Receives(t)
    /\ event' = "recent" /\ NoteFrame(t)
    /\ UNCHANGED <<status, flags, transport, pc, history>>

\* An End: the status is read here, and set in a second step.
OnEnd(t) ==
    /\ Receives(t)
    /\ event' = "recent" /\ NoteFrame(t)
    /\ Goto(t, IF status \in {"SocketOpen", "Degraded", "Connected"}
               THEN "confirm" ELSE pc[t])
    /\ UNCHANGED <<status, flags, transport, history>>

ConfirmEnd(t) ==
    /\ pc[t] = "confirm"
    /\ status' = "Connected"
    /\ Goto(t, IF t = Main \/ link THEN "up" ELSE "none")
    /\ UNCHANGED <<flags, transport, ages, history>>

\* The acknowledgement of the namespace.  joinCrashNamespace sends, which
\* needs a connected transport.
OnConnect(t) ==
    /\ Receives(t)
    /\ NoteFrame(t)
    /\ IF ~joined /\ link
       THEN joined' = TRUE /\ status' = "Connected"
       ELSE UNCHANGED <<joined, status>>
    /\ UNCHANGED <<flags, client, link, event, pc, history>>

\* An injected ping is answered, and an injected acknowledgement joins.
OnDangling(t) == Receives(t) /\ SendDangling

\* An Engine.IO close frame.
OnClose(t) ==
    /\ Receives(t)
    /\ NoteFrame(t)
    /\ joined' = FALSE
    /\ status' = "Reconnecting"
    /\ UNCHANGED <<flags, client, link, event, pc, history>>

\* An Engine.IO open frame changes the status only when it is injected.
OnOpen(t) ==
    /\ Receives(t) /\ t = Main
    /\ NoteFrame(t)
    /\ status' = "SocketOpen"
    /\ UNCHANGED <<flags, transport, event, pc, history>>

\* The read fails: the io thread ends, and only the session's own flag is
\* cleared.
LinkLost ==
    /\ link /\ pc[Io] = "up"
    /\ link' = FALSE
    /\ Goto(Io, "none")
    /\ UNCHANGED <<status, flags, client, joined, ages, history>>

EventAges ==
    /\ event = "recent"
    /\ event' = "old"
    /\ UNCHANGED <<status, flags, transport, frame, pc, history>>

FrameAges ==
    /\ frame = "recent"
    /\ frame' = "old"
    /\ UNCHANGED <<status, flags, transport, event, pc, history>>

-----------------------------------------------------------------------------
(* The application *)

CallStart ==
    /\ pc[Main] = "new"
    /\ Goto(Main, "start")
    /\ UNCHANGED <<status, flags, transport, ages, history>>

\* A reconnect is under way from the decision of the watchdog until the
\* worker has looked at intentional_stop_ and returned from start.
ReconnectUnderWay ==
    \/ pc[Dog] \in ReconnectSteps
    \/ pc[Worker] \in StartSteps

\* stop() begins: called by the application, and again by the destructor.
CallStop ==
    /\ pc[Main] = "up"
    /\ intentional' = TRUE
    /\ Goto(Main, "unwatch")
    /\ overlapped' = ReconnectUnderWay
    /\ UNCHANGED <<status, guarded, transport, ages, ending>>

Destroy ==
    /\ pc[Main] = "done"
    /\ intentional' = TRUE
    /\ Goto(Main, "unwatch")
    /\ ending' = TRUE
    /\ UNCHANGED <<status, guarded, transport, ages, overlapped>>

\* stopWatchdog: the flag is cleared, then the thread is joined.  The
\* destructor of watchdog_ joins one that was started since.
StopWatchdog ==
    /\ pc[Main] = "unwatch"
    /\ guarded' = FALSE
    /\ Goto(Main, "unwatched")
    /\ UNCHANGED <<status, intentional, transport, ages, history>>

JoinWatchdog ==
    /\ pc[Main] \in {"unwatched", "release"}
    /\ pc[Dog] \in {"none", "done"}
    /\ pc' = [pc EXCEPT ![Dog] = "none",
                        ![Main] = IF @ = "unwatched" THEN "unlink" ELSE "dispose"]
    /\ UNCHANGED <<status, flags, transport, ages, history>>

\* client_ is stopped and reset by stop; its destructor stops it as well.
StopClient ==
    /\ \/ pc[Main] = "unlink" /\ Close(Main, "unlinking") /\ client' = client
       \/ pc[Main] = "unlinking" /\ Reset(Main, "halt") /\ link' = link
       \/ pc[Main] = "dispose" /\ Close(Main, "disposing") /\ client' = client
       \/ pc[Main] = "disposing" /\ Reset(Main, "await") /\ link' = link
    /\ UNCHANGED <<status, flags, joined, ages, history>>

\* After the destructor's stop the members go, in the reverse of the order
\* they are declared in: watchdog_, client_, and reconnect_worker_ last.
Halt ==
    /\ pc[Main] = "halt"
    /\ status' = "Stopped"
    /\ Goto(Main, IF ending THEN "release" ELSE "done")
    /\ UNCHANGED <<flags, transport, ages, history>>

AwaitWorker ==
    /\ pc[Main] = "await" /\ pc[Worker] \in {"none", "done"}
    /\ Goto(Main, "gone")
    /\ UNCHANGED <<status, flags, transport, ages, history>>

\* The threads in the parts of start, stop and scheduleReconnect that use
\* client_, which no lock protects.
UsesClient(t) ==
    pc[t] \in {"make", "connect", "greet", "closing", "drop", "dropping", "unlink",
               "unlinking", "dispose", "disposing"}

\* Two threads at once in client_, or one that uses what the destructor has
\* freed: the steps may interleave as they stand, or the process ends.
Collides ==
    /\ \/ \E t, u \in Threads : t # u /\ UsesClient(t) /\ UsesClient(u)
       \/ pc[Main] = "await" /\ pc[Worker] \in StartSteps \cup ReconnectSteps
    /\ Aborts

-----------------------------------------------------------------------------

StartStep(t) ==
    \/ StartCheck(t) \/ StartClear(t) \/ StartMake(t)
    \/ ConnectOk(t) \/ ConnectFails(t) \/ JoinOk(t) \/ JoinFails(t)
    \/ StartOpen(t) \/ StartMark(t) \/ StartFailed(t)

ReconnectStep(t) == Schedule(t) \/ Drop(t) \/ Join(t)

DogStep ==
    \/ DogSleeps \/ DogWakes \/ CheckDegraded \/ SetDegraded \/ CheckStale \/ Tick
    \/ ReconnectStep(Dog) \/ Joined(Dog)

WorkerStep == WorkerWakes \/ StartStep(Worker) \/ ReconnectStep(Worker) \/ JoinsItself

StopStep == StopWatchdog \/ JoinWatchdog \/ StopClient \/ Halt \/ AwaitWorker

Frame(t) ==
    OnEvent(t) \/ OnEnd(t) \/ OnConnect(t) \/ OnClose(t) \/ OnDangling(t)

Next ==
    \/ CallStart \/ CallStop \/ Destroy \/ StopStep \/ Collides
    \/ StartStep(Main) \/ ReconnectStep(Main)
    \/ DogStep \/ WorkerStep
    \/ \E t \in {Main, Io} : Frame(t) \/ ConfirmEnd(t)
    \/ OnOpen(Main)
    \/ LinkLost
    \/ EventAges \/ FrameAges

Spec == Init /\ [][Next]_vars

\* Threads that have something to do go on, and time passes.  A connection
\* that is attempted again and again succeeds in the end.  Nobody has to
\* start or stop the socket, and no frame has to arrive.
Fairness ==
    /\ WF_vars(StartStep(Main) \/ ReconnectStep(Main) \/ StopStep \/ ConfirmEnd(Main))
    /\ WF_vars(ConfirmEnd(Io))
    /\ WF_vars(DogStep) /\ WF_vars(WorkerStep)
    /\ WF_vars(EventAges) /\ WF_vars(FrameAges)
    /\ \A t \in {Main, Worker} : SF_vars(ConnectOk(t)) /\ SF_vars(JoinOk(t))
FairSpec == Spec /\ Fairness

-----------------------------------------------------------------------------

FlagsOK ==
    /\ intentional \in BOOLEAN /\ guarded \in BOOLEAN
    /\ overlapped \in BOOLEAN /\ ending \in BOOLEAN
    /\ client \in BOOLEAN /\ link \in BOOLEAN /\ joined \in BOOLEAN

TypeOK ==
    /\ FlagsOK
    /\ status \in Status
    /\ frame \in Ages /\ event \in Ages
    /\ pc \in [Threads -> Labels]

\* The destructor of a socket whose stop overlapped with a reconnect: the
\* worker may be inside start by now.
Raced == overlapped /\ ending

\* client_ is a plain unique_ptr that start, stop and scheduleReconnect use
\* without a lock (native_bc_socket.hpp:118, 138, 304): no two threads are
\* in these parts of them at a time, until a socket whose stop overlapped
\* with a reconnect is destroyed (native_bc_socket.hpp:93).
ClientOneThread ==
    \A t, u \in Threads : UsesClient(t) /\ UsesClient(u) /\ t # u => Raced

\* Once stop has returned, the socket stays stopped and has no client, unless
\* stop overlapped with a reconnect (native_bc_socket.hpp:135-143, 321): then
\* the worker may start it again.
StopFinal ==
    pc[Main] \in {"done", "release", "await", "gone"} /\ ~overlapped
      => status = "Stopped" /\ ~client

\* stop returns, and so does the destructor: the watchdog it joins ends, even
\* when it is waiting for the reconnect worker (native_bc_socket.hpp:93,
\* 269-275, 313-317), unless the process has died of a dangling send.
StopReturns ==
    pc[Main] = "unwatch" /\ ~Raced
      ~> pc[Main] \in {"none", IF ending THEN "gone" ELSE "done"}

\* While the watchdog runs, a stream that has fallen silent does not keep the
\* status Connected (native_bc_socket.hpp:277-286), whatever the io thread
\* writes in the meantime.
SilenceNoticed ==
    status = "Connected" /\ event = "old" /\ pc[Dog] \notin {"none", "done"}
      ~> \/ status # "Connected"
         \/ event = "recent"
         \/ pc[Main] \notin {"up", "confirm"}

\* "we own reconnect policy" (native_bc_socket.hpp:105), "watchdog force
\* reconnect" (native_bc_socket.hpp:62): without a connection, the running
\* socket gets one or is stopped.
Reconnects == pc[Main] = "up" /\ ~link ~> link \/ pc[Main] \notin {"up", "confirm"}

-----------------------------------------------------------------------------
(* The inductive invariant behind ClientOneThread and StopFinal *)

Starting == StartSteps \ {"start"}
Stopping == {"unwatch", "unwatched", "unlink", "unlinking", "halt"}
Ending == {"release", "dispose", "disposing", "await", "gone"}
Leaving == Stopping \cup Ending \cup {"done"}

\* The steps each thread can be at (native_bc_socket.hpp:93-143, 256-324).
OwnLabels ==
    /\ pc[Io] \in {"none", "up", "confirm"}
    /\ pc[Dog] \in {"none", "head", "sleep", "look", "degrade", "age", "tick", "done"}
                    \cup ReconnectSteps
    /\ pc[Worker] \in {"none", "wait", "done"} \cup StartSteps \cup ReconnectSteps
    /\ pc[Main] \in {"none", "new", "up", "confirm"} \cup Leaving
                     \cup StartSteps \cup ReconnectSteps
    /\ pc[Main] \in Ending => ending
    /\ ending => pc[Main] \in Stopping \cup Ending \cup {"none"}

\* Until start has returned for the first time, Main is alone
\* (native_bc_socket.hpp:95-133).
MainAlone ==
    /\ pc[Main] \in {"new"} \cup StartSteps \cup ReconnectSteps
         => pc[Dog] = "none" /\ pc[Worker] = "none"
    /\ pc[Main] \in {"unlink", "unlinking", "halt"} /\ ~Raced => pc[Dog] = "none"
    /\ pc[Main] = "none" => \A t \in Threads : pc[t] = "none"

\* Before the destructor, the worker gets past the check of start
\* (native_bc_socket.hpp:96) only when stop has set the status Stopped and the
\* watchdog is gone.
WorkerAlone ==
    ~ending =>
      /\ status \in {"Stopped", "WafBlocked"}
           => pc[Main] \in {"none", "new", "start", "clear", "make", "done"}
      /\ pc[Worker] \in Starting \cup ReconnectSteps
           => pc[Main] = "done" /\ pc[Dog] = "none"
      /\ pc[Worker] \in (Starting \ {"clear", "make"}) \cup ReconnectSteps
           => status \notin {"Stopped", "WafBlocked"}
      /\ pc[Main] = "done" /\ pc[Dog] # "none" => status \notin {"Stopped", "WafBlocked"}

\* A stop that met no reconnect (native_bc_socket.hpp:135-143) is not undone:
\* intentional_stop_ stays set, and nobody is left to clear it.
QuietStop ==
    pc[Main] \in Leaving /\ ~overlapped =>
        /\ intentional
        /\ pc[Dog] \notin ReconnectSteps \ {"schedule"}
        /\ pc[Worker] \in {"none", "wait", "done"}
        /\ pc[Main] \in {"halt", "done"} \/ ending => ~client /\ pc[Io] = "none"
        /\ pc[Main] = "done" \/ ending => status = "Stopped" /\ pc[Dog] = "none"

IInv == TypeOK /\ OwnLabels /\ MainAlone /\ WorkerAlone /\ QuietStop
=============================================================================
