---------------------------- MODULE SocketProofs ----------------------------
(***************************************************************************)
(* Proofs about NativeSocket: client_ is used by one thread at a time, and *)
(* a stop that met no reconnect is final; and about the poll worker that   *)
(* MCSocket takes beside it (Hist): every fetched round is handled, and    *)
(* once while it is cached, for every page size, number of pages and       *)
(* capacity of the cache.                                                  *)
(***************************************************************************)
EXTENDS MCSocket, TLAPS, SequenceTheorems

USE DEF Threads, StartSteps, ReconnectSteps, Starting, Stopping, Ending, Leaving, Raced

\* The constructor's state (native_bc_socket.hpp:326-353) satisfies IInv.
LEMMA InitInv == Init => IInv
  BY ThreadAssumption
     DEF Init, IInv, TypeOK, OwnLabels, MainAlone, WorkerAlone, QuietStop,
         FlagsOK, Status, Ages, Labels

\* Every step leaves the flags Boolean.
LEMMA FlagsKeep ==
    ASSUME FlagsOK, [Next]_vars
    PROVE  FlagsOK'
<1> USE DEF FlagsOK, flags, transport, ages, history, Aborts
<1>1. ASSUME NEW t, StartStep(t)
      PROVE  FlagsOK'
  BY <1>1
     DEF StartStep, StartCheck, StartClear, StartMake, ConnectOk, ConnectFails, JoinOk,
         JoinFails, Close, StartOpen, StartMark, StartFailed
<1>2. ASSUME NEW t, ReconnectStep(t) \/ Joined(t)
      PROVE  FlagsOK'
  BY <1>2 DEF ReconnectStep, Schedule, Drop, Close, Reset, Join, Joined
<1>3. CASE DogStep
  BY <1>2, <1>3
     DEF DogStep, DogSleeps, DogWakes, CheckDegraded, SetDegraded, CheckStale, Tick,
         SendDangling
<1>4. CASE WorkerStep
  BY <1>1, <1>2, <1>4 DEF WorkerStep, WorkerWakes, JoinsItself
<1>5. ASSUME NEW t, Frame(t) \/ ConfirmEnd(t) \/ OnOpen(t)
      PROVE  FlagsOK'
  BY <1>5 DEF Frame, ConfirmEnd, OnOpen, OnEvent, OnEnd, OnConnect, OnClose, OnDangling,
              SendDangling
<1>6. CASE LinkLost \/ EventAges \/ FrameAges
  BY <1>6 DEF LinkLost, EventAges, FrameAges
<1>7. CASE CallStart \/ CallStop \/ Destroy \/ Collides
  BY <1>7 DEF CallStart, CallStop, Destroy, Collides, ReconnectUnderWay
<1>8. CASE StopStep
  BY <1>8 DEF StopStep, StopWatchdog, JoinWatchdog, StopClient, Close, Reset, Halt, AwaitWorker
<1>9. CASE UNCHANGED vars
  BY <1>9 DEF vars
<1> QED
  BY <1>1, <1>2, <1>3, <1>4, <1>5, <1>6, <1>7, <1>8, <1>9 DEF Next

\* The end of the process keeps IInv.
LEMMA AbortKeeps ==
    ASSUME IInv, Aborts
    PROVE  IInv'
  BY ThreadAssumption
     DEF IInv, TypeOK, FlagsOK, OwnLabels, MainAlone, WorkerAlone, QuietStop, Labels, Aborts,
         flags, transport, ages, history

\* start (native_bc_socket.hpp:95-133) keeps IInv, whoever calls it.
LEMMA StartKeeps ==
    ASSUME IInv, FlagsOK', NEW t \in {Main, Worker}, StartStep(t)
    PROVE  IInv'
<1> USE ThreadAssumption
        DEF IInv, TypeOK, OwnLabels, MainAlone, WorkerAlone, QuietStop, Status, Ages,
            Labels, Goto, AfterCall, flags, transport, ages, history
<1>1. CASE StartCheck(t)
  BY <1>1 DEF StartCheck
<1>2. CASE StartClear(t)
  <2>1. TypeOK'
    BY <1>2 DEF StartClear
  <2>2. OwnLabels'
    BY <1>2 DEF StartClear
  <2>3. MainAlone'
    BY <1>2 DEF StartClear
  <2>4. WorkerAlone'
    BY <1>2 DEF StartClear
  <2>5. QuietStop'
    BY <1>2 DEF StartClear
  <2> QED
    BY <2>1, <2>2, <2>3, <2>4, <2>5
<1>3. CASE StartMake(t)
  <2>1. TypeOK'
    BY <1>3 DEF StartMake
  <2>2. OwnLabels'
    BY <1>3 DEF StartMake
  <2>3. MainAlone'
    BY <1>3 DEF StartMake
  <2>4. WorkerAlone'
    BY <1>3 DEF StartMake
  <2>5. QuietStop'
    BY <1>3 DEF StartMake
  <2> QED
    BY <2>1, <2>2, <2>3, <2>4, <2>5
<1>4. CASE ConnectOk(t)
  BY <1>4 DEF ConnectOk
<1>5. CASE ConnectFails(t)
  BY <1>5 DEF ConnectFails
<1>6. CASE StartOpen(t)
  BY <1>6 DEF StartOpen
<1>7. CASE StartMark(t)
  BY <1>7 DEF StartMark
<1>8. CASE StartFailed(t)
  BY <1>8 DEF StartFailed
<1>9. CASE JoinOk(t)
  BY <1>9 DEF JoinOk
<1>10. CASE JoinFails(t)
  BY <1>10 DEF JoinFails, Close
<1> QED
  BY <1>1, <1>2, <1>3, <1>4, <1>5, <1>6, <1>7, <1>8, <1>9, <1>10 DEF StartStep

\* scheduleReconnect (native_bc_socket.hpp:299-324) keeps IInv, whoever calls
\* it, and so does the end of the join.
LEMMA ReconnectKeeps ==
    ASSUME IInv, FlagsOK', NEW t \in {Main, Dog, Worker}, ReconnectStep(t) \/ Joined(Dog)
    PROVE  IInv'
<1> USE ThreadAssumption
        DEF IInv, TypeOK, OwnLabels, MainAlone, WorkerAlone, QuietStop, Status, Ages,
            Labels, Goto, AfterCall, Spawn, flags, transport, ages, history
<1>1. CASE Schedule(t)
  BY <1>1 DEF Schedule
<1>2. CASE Drop(t)
  <2>1. TypeOK'
    BY <1>2 DEF Drop, Close, Reset
  <2>2. OwnLabels'
    BY <1>2 DEF Drop, Close, Reset
  <2>3. MainAlone'
    BY <1>2 DEF Drop, Close, Reset
  <2>4. WorkerAlone'
    BY <1>2 DEF Drop, Close, Reset
  <2>5. QuietStop'
    BY <1>2 DEF Drop, Close, Reset
  <2> QED
    BY <2>1, <2>2, <2>3, <2>4, <2>5
<1>3. CASE Join(t)
  <2>1. TypeOK'
    BY <1>3 DEF Join
  <2>2. OwnLabels'
    BY <1>3 DEF Join
  <2>3. MainAlone'
    BY <1>3 DEF Join
  <2>4. WorkerAlone'
    BY <1>3 DEF Join
  <2>5. QuietStop'
    BY <1>3 DEF Join
  <2> QED
    BY <2>1, <2>2, <2>3, <2>4, <2>5
<1>4. CASE Joined(Dog)
  <2>1. TypeOK'
    BY <1>4 DEF Joined
  <2>2. OwnLabels'
    BY <1>4 DEF Joined
  <2>3. MainAlone'
    BY <1>4 DEF Joined
  <2>4. WorkerAlone'
    BY <1>4 DEF Joined
  <2>5. QuietStop'
    BY <1>4 DEF Joined
  <2> QED
    BY <2>1, <2>2, <2>3, <2>4, <2>5
<1> QED
  BY <1>1, <1>2, <1>3, <1>4 DEF ReconnectStep

\* The rest of the watchdog and of the worker keeps IInv
\* (native_bc_socket.hpp:256-297, 319-323).
LEMMA WatchKeeps ==
    ASSUME IInv, FlagsOK',
           DogSleeps \/ DogWakes \/ CheckDegraded \/ SetDegraded \/ CheckStale \/ Tick
             \/ WorkerWakes \/ JoinsItself \/ Collides
    PROVE  IInv'
<1> USE ThreadAssumption
        DEF IInv, TypeOK, OwnLabels, MainAlone, WorkerAlone, QuietStop, Status, Ages,
            Labels, Goto, flags, transport, ages, history
<1>1. CASE DogSleeps \/ DogWakes
  BY <1>1 DEF DogSleeps, DogWakes
<1>2. CASE CheckDegraded \/ SetDegraded
  BY <1>2 DEF CheckDegraded, SetDegraded
<1>3. CASE CheckStale
  BY <1>3 DEF CheckStale
<1>4. CASE WorkerWakes
  BY <1>4 DEF WorkerWakes
<1>5. CASE JoinsItself \/ Collides
  BY <1>5, AbortKeeps DEF JoinsItself, Collides
<1>6. CASE Tick
  BY <1>6, AbortKeeps DEF Tick, SendDangling
<1> QED
  BY <1>1, <1>2, <1>3, <1>4, <1>5, <1>6

\* Frames, lost connections and the passing of time keep IInv
\* (native_bc_socket.hpp:188-254).
LEMMA FramesKeep ==
    ASSUME IInv, FlagsOK', NEW t \in {Main, Io},
           Frame(t) \/ ConfirmEnd(t) \/ OnOpen(Main) \/ LinkLost \/ EventAges \/ FrameAges
    PROVE  IInv'
<1> USE ThreadAssumption
        DEF IInv, TypeOK, OwnLabels, MainAlone, WorkerAlone, QuietStop, Status, Ages,
            Labels, Goto, Receives, NoteFrame, flags, transport, ages, history
<1>1. CASE OnEvent(t)
  BY <1>1 DEF OnEvent
<1>2. CASE OnEnd(t)
  BY <1>2 DEF OnEnd
<1>3. CASE OnConnect(t)
  <2>1. TypeOK'
    BY <1>3 DEF OnConnect
  <2>2. OwnLabels'
    BY <1>3 DEF OnConnect
  <2>3. MainAlone'
    BY <1>3 DEF OnConnect
  <2>4. WorkerAlone'
    BY <1>3 DEF OnConnect
  <2>5. QuietStop'
    BY <1>3 DEF OnConnect
  <2> QED
    BY <2>1, <2>2, <2>3, <2>4, <2>5
<1>4. CASE OnClose(t)
  <2>1. TypeOK'
    BY <1>4 DEF OnClose
  <2>2. OwnLabels'
    BY <1>4 DEF OnClose
  <2>3. MainAlone'
    BY <1>4 DEF OnClose
  <2>4. WorkerAlone'
    BY <1>4 DEF OnClose
  <2>5. QuietStop'
    BY <1>4 DEF OnClose
  <2> QED
    BY <2>1, <2>2, <2>3, <2>4, <2>5
<1>5. CASE ConfirmEnd(t)
  BY <1>5 DEF ConfirmEnd
<1>6. CASE OnOpen(Main)
  BY <1>6 DEF OnOpen
<1>8. CASE OnDangling(t)
  BY <1>8, AbortKeeps DEF OnDangling, SendDangling
<1>7. CASE LinkLost \/ EventAges \/ FrameAges
  <2>1. TypeOK'
    BY <1>7 DEF LinkLost, EventAges, FrameAges
  <2>2. OwnLabels'
    BY <1>7 DEF LinkLost, EventAges, FrameAges
  <2>3. MainAlone'
    BY <1>7 DEF LinkLost, EventAges, FrameAges
  <2>4. WorkerAlone'
    BY <1>7 DEF LinkLost, EventAges, FrameAges
  <2>5. QuietStop'
    BY <1>7 DEF LinkLost, EventAges, FrameAges
  <2> QED
    BY <2>1, <2>2, <2>3, <2>4, <2>5
<1> QED
  BY <1>1, <1>2, <1>3, <1>4, <1>5, <1>6, <1>7, <1>8 DEF Frame

\* The application's calls (application.hpp:464, 483), the destructor and stop
\* (native_bc_socket.hpp:93, 135-143) keep IInv.
LEMMA StopKeeps ==
    ASSUME IInv, FlagsOK', CallStart \/ CallStop \/ Destroy \/ StopStep
    PROVE  IInv'
<1> USE ThreadAssumption
        DEF IInv, TypeOK, OwnLabels, MainAlone, WorkerAlone, QuietStop, Status, Ages,
            Labels, Goto, flags, transport, ages, history
<1>1. CASE CallStart
  BY <1>1 DEF CallStart
<1>2. CASE CallStop
  BY <1>2 DEF CallStop, ReconnectUnderWay
<1>3. CASE StopWatchdog
  <2>1. TypeOK'
    BY <1>3 DEF StopWatchdog
  <2>2. OwnLabels'
    BY <1>3 DEF StopWatchdog
  <2>3. MainAlone'
    BY <1>3 DEF StopWatchdog
  <2>4. WorkerAlone'
    BY <1>3 DEF StopWatchdog
  <2>5. QuietStop'
    BY <1>3 DEF StopWatchdog
  <2> QED
    BY <2>1, <2>2, <2>3, <2>4, <2>5
<1>4. CASE JoinWatchdog
  BY <1>4 DEF JoinWatchdog
<1>5. CASE StopClient
  <2>1. TypeOK'
    BY <1>5 DEF StopClient, Close, Reset
  <2>2. OwnLabels'
    BY <1>5 DEF StopClient, Close, Reset
  <2>3. MainAlone'
    BY <1>5 DEF StopClient, Close, Reset
  <2>4. WorkerAlone'
    BY <1>5 DEF StopClient, Close, Reset
  <2>5. QuietStop'
    BY <1>5 DEF StopClient, Close, Reset
  <2> QED
    BY <2>1, <2>2, <2>3, <2>4, <2>5
<1>6. CASE Halt
  BY <1>6 DEF Halt
<1>7. CASE Destroy
  BY <1>7 DEF Destroy
<1>8. CASE AwaitWorker
  BY <1>8 DEF AwaitWorker
<1> QED
  BY <1>1, <1>2, <1>3, <1>4, <1>5, <1>6, <1>7, <1>8 DEF StopStep

LEMMA Inductive == Spec => []IInv
<1>1. IInv /\ [Next]_vars => IInv'
  <2> SUFFICES ASSUME IInv, [Next]_vars
               PROVE  IInv'
    OBVIOUS
  <2>0. FlagsOK'
    BY FlagsKeep DEF IInv, TypeOK
  <2>1. CASE UNCHANGED vars
    BY <2>0, <2>1 DEF vars, flags, transport, ages, history, IInv, TypeOK, OwnLabels, MainAlone,
                WorkerAlone, QuietStop
  <2>2. CASE Next
    BY <2>0, <2>2, StartKeeps, ReconnectKeeps, WatchKeeps, FramesKeep, StopKeeps
       DEF Next, DogStep, WorkerStep
  <2> QED
    BY <2>1, <2>2
<1> QED
  BY InitInv, <1>1, PTL DEF Spec

-----------------------------------------------------------------------------

\* The socket's state keeps its type.
THEOREM TypeCorrect == Spec => []TypeOK
<1>1. IInv => TypeOK
  BY DEF IInv
<1> QED
  BY Inductive, <1>1, PTL

\* client_ is used by one thread at a time, because start proceeds only in
\* the status Stopped (native_bc_socket.hpp:96), until the destructor stops a
\* socket again whose stop overlapped with a reconnect.
THEOREM ClientUsedByOne == Spec => []ClientOneThread
<1>1. IInv => ClientOneThread
  BY ThreadAssumption
     DEF IInv, OwnLabels, MainAlone, WorkerAlone, QuietStop, ClientOneThread, UsesClient
<1> QED
  BY Inductive, <1>1, PTL

\* A stop that met no reconnect is final (native_bc_socket.hpp:135-143), and so is the destructor's.
THEOREM StopIsFinal == Spec => []StopFinal
<1>1. IInv => StopFinal
  BY DEF IInv, OwnLabels, QuietStop, StopFinal
<1> QED
  BY Inductive, <1>1, PTL

-----------------------------------------------------------------------------
(* The poll worker.                                                        *)

(* A round at the end of a sequence.                                       *)
LEMMA RoundAdded ==
    ASSUME NEW s \in Seq(Int), NEW r \in Int
    PROVE  /\ Append(s, r) \in Seq(Int) /\ Append(s, r) # <<>>
           /\ Hist!ToSet(Append(s, r)) = Hist!ToSet(s) \cup {r}
           /\ Hist!Repeated(Append(s, r)) \subseteq Hist!Repeated(s) \cup (Hist!ToSet(s) \cap {r})
<1> DEFINE n == Len(s)
<1>1. n \in Nat /\ DOMAIN s = 1 .. n
  BY LenProperties
<1>2. Append(s, r) \in Seq(Int) /\ Len(Append(s, r)) = n + 1 /\ DOMAIN Append(s, r) = 1 .. n + 1
  BY <1>1, AppendProperties
<1>3. \A i \in 1 .. n + 1 : Append(s, r)[i] = IF i <= n THEN s[i] ELSE r
  BY <1>1, AppendProperties
<1>4. Hist!ToSet(Append(s, r)) = Hist!ToSet(s) \cup {r}
  <2>1. \A i \in 1 .. n : i \in 1 .. n + 1 /\ Append(s, r)[i] = s[i]
    BY <1>1, <1>3
  <2>2. n + 1 \in 1 .. n + 1 /\ Append(s, r)[n + 1] = r
    BY <1>1, <1>3
  <2>3. \A i \in 1 .. n + 1 : i \in 1 .. n \/ i = n + 1
    BY <1>1
  <2> QED
    BY <1>1, <1>2, <2>1, <2>2, <2>3 DEF Hist!ToSet
<1>5. ASSUME NEW x \in Hist!Repeated(Append(s, r)) PROVE x \in Hist!Repeated(s) \cup (Hist!ToSet(s) \cap {r})
  <2>1. PICK k \in 1 .. n + 1, j \in 1 .. n + 1 : k < j /\ Append(s, r)[j] = Append(s, r)[k] /\ x = Append(s, r)[k]
    BY <1>2, <1>5 DEF Hist!Repeated
  <2>2. k \in 1 .. n /\ x = s[k]
    BY <1>1, <1>3, <2>1
  <2>3. CASE j <= n
    BY <1>1, <1>3, <2>1, <2>2, <2>3 DEF Hist!Repeated
  <2>4. CASE ~(j <= n)
    BY <1>1, <1>3, <2>1, <2>2, <2>4 DEF Hist!ToSet
  <2> QED
    BY <2>3, <2>4
<1> QED
  BY <1>2, <1>4, <1>5

(* The first round of a sequence.                                          *)
LEMMA RoundTaken ==
    ASSUME NEW s \in Seq(Int), s # <<>>
    PROVE  /\ Head(s) \in Int /\ Tail(s) \in Seq(Int)
           /\ Hist!ToSet(s) = Hist!ToSet(Tail(s)) \cup {Head(s)}
           /\ Hist!Repeated(Tail(s)) \subseteq Hist!Repeated(s)
           /\ Head(s) \in Hist!ToSet(Tail(s)) => Head(s) \in Hist!Repeated(s)
<1> DEFINE n == Len(s)
           t == Tail(s)
<1>1. n \in Nat /\ n >= 1 /\ DOMAIN s = 1 .. n
  BY LenProperties, EmptySeq
<1>2. Head(s) = s[1] /\ s[1] \in Int /\ t \in Seq(Int) /\ Len(t) = n - 1 /\ \A i \in 1 .. n - 1 : t[i] = s[i + 1]
  BY <1>1, HeadTailProperties, ElementOfSeq
<1>3. DOMAIN t = 1 .. n - 1
  BY <1>1, <1>2, LenProperties
<1> HIDE DEF t, n
<1>4. \A i \in 1 .. n - 1 : i + 1 \in 1 .. n /\ t[i] = s[i + 1] /\ i \in Int
  BY <1>1, <1>2
<1>5. \A i \in 1 .. n : i = 1 \/ (i - 1 \in 1 .. n - 1 /\ t[i - 1] = s[i])
  BY <1>1, <1>2
<1>6. Hist!ToSet(s) = Hist!ToSet(t) \cup {Head(s)}
  <2>1. Hist!ToSet(s) = {s[i] : i \in 1 .. n} /\ Hist!ToSet(t) = {t[i] : i \in 1 .. n - 1}
    BY <1>1, <1>3 DEF Hist!ToSet
  <2>2. 1 \in 1 .. n
    BY <1>1
  <2>3. \A i \in 1 .. n : i = 1 \/ \E j \in 1 .. n - 1 : t[j] = s[i]
    BY <1>5
  <2>4. \A j \in 1 .. n - 1 : \E i \in 1 .. n : t[j] = s[i]
    BY <1>4
  <2>5. Head(s) \in Hist!ToSet(s) /\ Hist!ToSet(t) \subseteq Hist!ToSet(s)
    BY <1>2, <2>1, <2>2, <2>4, Zenon
  <2>6. ASSUME NEW x \in Hist!ToSet(s) PROVE x \in Hist!ToSet(t) \cup {Head(s)}
    <3>1. PICK i \in 1 .. n : x = s[i]
      BY <2>1, <2>6, Zenon
    <3> QED
      BY <1>2, <2>1, <2>3, <3>1, Zenon
  <2> QED
    BY <2>5, <2>6, Zenon
<1>7. Hist!Repeated(t) \subseteq Hist!Repeated(s)
  <2> SUFFICES ASSUME NEW x \in Hist!Repeated(t) PROVE x \in Hist!Repeated(s)
    OBVIOUS
  <2>1. PICK k \in 1 .. n - 1, j \in 1 .. n - 1 : k < j /\ t[j] = t[k] /\ x = t[k]
    BY <1>3 DEF Hist!Repeated
  <2>2. k + 1 \in 1 .. n /\ j + 1 \in 1 .. n /\ k + 1 < j + 1 /\ s[j + 1] = s[k + 1] /\ x = s[k + 1]
    BY <1>1, <1>4, <2>1
  <2> QED
    BY <1>1, <2>2 DEF Hist!Repeated
<1>8. ASSUME Head(s) \in Hist!ToSet(t) PROVE Head(s) \in Hist!Repeated(s)
  <2>1. PICK i \in 1 .. n - 1 : t[i] = Head(s)
    BY <1>3, <1>8 DEF Hist!ToSet
  <2>2. i + 1 \in 1 .. n /\ 1 \in 1 .. n /\ 1 < i + 1 /\ s[i + 1] = s[1] /\ Head(s) = s[1]
    BY <1>1, <1>2, <1>4, <2>1
  <2> QED
    BY <1>1, <2>2 DEF Hist!Repeated
<1> QED
  BY <1>2, <1>6, <1>7, <1>8 DEF t

LEMMA NoRounds == <<>> \in Seq(Int) /\ Hist!ToSet(<<>>) = {} /\ Hist!Repeated(<<>>) = {}
  BY EmptySeq DEF Hist!ToSet, Hist!Repeated

(* A page is a sequence of rounds.                                         *)
LEMMA PageType ==
    ASSUME ended \in Nat, NEW p \in Nat
    PROVE  Hist!Page(p) \in Seq(Int)
<1> DEFINE f == ended - (p - 1) * PageSize
           n == IF f < 1 THEN 0 ELSE IF f < PageSize THEN f ELSE PageSize
<1>1. f \in Int
  BY PagesAssumption
<1> HIDE DEF f
<1>2. n \in Nat
  BY <1>1, PagesAssumption
<1> HIDE DEF n
<1>3. [i \in 1 .. n |-> f - i + 1] \in [1 .. n -> Int]
  BY <1>1, <1>2
<1>4. [i \in 1 .. n |-> f - i + 1] \in Seq(Int)
  BY <1>2, <1>3, SeqDef
<1>5. Hist!Page(p) = [i \in 1 .. n |-> f - i + 1]
  BY DEF Hist!Page, f, n
<1> QED
  BY <1>4, <1>5

(* RecentRoundCache::put of a round that is not there.                     *)
LEMMA PutNew ==
    ASSUME NEW c \in Seq(Int), NEW r \in Int, Hist!IsNew(c, r)
    PROVE  Hist!Put(c, r) \in Seq(Int) /\ Hist!ToSet(Hist!Put(c, r)) \subseteq Hist!ToSet(c) \cup {r}
<1>1. Append(c, r) \in Seq(Int) /\ Append(c, r) # <<>> /\ Hist!ToSet(Append(c, r)) = Hist!ToSet(c) \cup {r}
  BY RoundAdded
<1>2. /\ Tail(Append(c, r)) \in Seq(Int)
      /\ Hist!ToSet(Append(c, r)) = Hist!ToSet(Tail(Append(c, r))) \cup {Head(Append(c, r))}
  BY <1>1, RoundTaken
<1>3. Hist!Put(c, r) = Append(c, r) \/ Hist!Put(c, r) = Tail(Append(c, r))
  BY DEF Hist!Put, Hist!IsNew
<1> QED
  BY <1>1, <1>2, <1>3

LEMMA HistInit == Hist!Init => Hist!IInv
  BY NoRounds
     DEF Hist!Init, Hist!IInv, Hist!TypeOK, Hist!Phases, Hist!CacheOK, Hist!Known, Hist!BatchOnce,
         Hist!HandledOnce, Hist!FetchedIsHandled, Hist!TwiceOnlyIfEvicted

(* A step of the worker that leaves the rounds alone.                      *)
LEMMA HistQuiet ==
    ASSUME Hist!IInv, UNCHANGED <<cache, seen, evicted, unread, batch, handled>>,
           Hist!Phases', ended' \in Nat, page' \in Nat
    PROVE  Hist!IInv'
  BY DEF Hist!IInv, Hist!TypeOK, Hist!CacheOK, Hist!Known, Hist!BatchOnce,
         Hist!HandledOnce, Hist!FetchedIsHandled, Hist!TwiceOnlyIfEvicted

LEMMA HistFetch ==
    ASSUME Hist!IInv, Hist!FetchOk
    PROVE  Hist!IInv'
<1> USE DEF Hist!FetchOk
<1>1. ended \in Nat /\ page \in Nat
  BY DEF Hist!IInv, Hist!TypeOK
<1>2. Hist!Page(page) \in Seq(Int)
  BY <1>1, PageType
<1>3. /\ UNCHANGED <<cache, evicted, batch, handled, ended, page>>
      /\ unread = <<>> /\ unread' = Hist!Page(page) /\ seen' = seen \cup Hist!ToSet(Hist!Page(page)) /\ histPc' = "parse"
  BY DEF Hist!IInv, Hist!Phases, Hist!site
<1>4. Hist!TypeOK'
  BY <1>2, <1>3 DEF Hist!IInv, Hist!TypeOK
<1>5. Hist!Phases'
  BY <1>3 DEF Hist!Phases
<1>6. Hist!CacheOK' /\ Hist!BatchOnce' /\ Hist!TwiceOnlyIfEvicted'
  BY <1>3 DEF Hist!IInv, Hist!CacheOK, Hist!Known, Hist!BatchOnce, Hist!HandledOnce, Hist!TwiceOnlyIfEvicted
<1>7. Hist!FetchedIsHandled'
  BY <1>3, NoRounds DEF Hist!IInv, Hist!HandledOnce, Hist!FetchedIsHandled
<1> QED
  BY <1>4, <1>5, <1>6, <1>7 DEF Hist!IInv, Hist!HandledOnce

LEMMA HistParse ==
    ASSUME Hist!IInv, Hist!ParseRound
    PROVE  Hist!IInv'
<1> DEFINE r == Head(unread)
<1>1. /\ unread \in Seq(Int) /\ unread # <<>> /\ cache \in Seq(Int) /\ batch \in Seq(Int) /\ histPc = "parse"
      /\ unread' = Tail(unread)
      /\ UNCHANGED <<seen, handled, ended, page, histPc>>
  BY DEF Hist!IInv, Hist!TypeOK, Hist!ParseRound, Hist!site
<1>2. r \in Int /\ Tail(unread) \in Seq(Int) /\ Hist!ToSet(unread) = Hist!ToSet(Tail(unread)) \cup {r}
  BY <1>1, RoundTaken
<1>3. Hist!Phases'
  BY <1>1 DEF Hist!Phases
<1>4. CASE Hist!IsNew(cache, r)
  <2>1. /\ cache' = Hist!Put(cache, r) /\ batch' = Append(batch, r)
        /\ evicted' = evicted \cup ((Hist!ToSet(cache) \cup {r}) \ Hist!ToSet(Hist!Put(cache, r)))
    BY <1>4 DEF Hist!ParseRound
  <2> HIDE DEF r
  <2>2. cache' \in Seq(Int) /\ Hist!ToSet(cache') \subseteq Hist!ToSet(cache) \cup {r}
    BY <1>1, <1>2, <1>4, <2>1, PutNew
  <2>3. /\ batch' \in Seq(Int) /\ Hist!ToSet(batch') = Hist!ToSet(batch) \cup {r}
        /\ Hist!Repeated(batch') \subseteq Hist!Repeated(batch) \cup (Hist!ToSet(batch) \cap {r})
    BY <1>1, <1>2, <2>1, RoundAdded
  <2>4. evicted' = evicted \cup ((Hist!ToSet(cache) \cup {r}) \ Hist!ToSet(cache'))
    BY <2>1
  <2>5. r \in Hist!ToSet(batch) \cup Hist!ToSet(handled) => r \in evicted
    BY <1>4 DEF Hist!IInv, Hist!CacheOK, Hist!Known, Hist!IsNew
  <2>6. Hist!TypeOK'
    BY <1>1, <1>2, <2>2, <2>3 DEF Hist!IInv, Hist!TypeOK
  <2>7. Hist!CacheOK'
    BY <1>1, <2>2, <2>3, <2>4 DEF Hist!IInv, Hist!CacheOK, Hist!Known
  <2>8. Hist!BatchOnce'
    BY <1>1, <2>3, <2>4, <2>5 DEF Hist!IInv, Hist!BatchOnce
  <2>9. Hist!HandledOnce'
    BY <1>1, <1>2, <2>3, <2>4 DEF Hist!IInv, Hist!HandledOnce, Hist!FetchedIsHandled, Hist!TwiceOnlyIfEvicted
  <2> QED
    BY <1>3, <2>6, <2>7, <2>8, <2>9 DEF Hist!IInv
<1>5. CASE ~Hist!IsNew(cache, r)
  <2>1. UNCHANGED <<cache, evicted, batch>>
    BY <1>5 DEF Hist!ParseRound
  <2>2. r \in Hist!ToSet(batch) \cup Hist!ToSet(handled)
    BY <1>5 DEF Hist!IInv, Hist!CacheOK, Hist!Known, Hist!IsNew
  <2> HIDE DEF r
  <2>3. Hist!TypeOK'
    BY <1>1, <1>2, <2>1 DEF Hist!IInv, Hist!TypeOK
  <2>4. Hist!CacheOK' /\ Hist!BatchOnce'
    BY <1>1, <2>1 DEF Hist!IInv, Hist!CacheOK, Hist!Known, Hist!BatchOnce
  <2>5. Hist!HandledOnce'
    BY <1>1, <1>2, <2>1, <2>2 DEF Hist!IInv, Hist!HandledOnce, Hist!FetchedIsHandled, Hist!TwiceOnlyIfEvicted
  <2> QED
    BY <1>3, <2>3, <2>4, <2>5 DEF Hist!IInv
<1> QED
  BY <1>4, <1>5

LEMMA HistHandle ==
    ASSUME Hist!IInv, Hist!Handle
    PROVE  Hist!IInv'
<1> DEFINE r == Head(batch)
<1>1. /\ handled \in Seq(Int) /\ batch \in Seq(Int) /\ batch # <<>> /\ histPc = "handle"
      /\ batch' = Tail(batch) /\ handled' = Append(handled, r)
      /\ UNCHANGED <<cache, evicted, seen, unread, ended, page, histPc>>
  BY DEF Hist!IInv, Hist!TypeOK, Hist!Handle, Hist!MoreToHandle, Hist!site, Hist!client
<1>2. /\ r \in Int /\ Tail(batch) \in Seq(Int) /\ Hist!ToSet(batch) = Hist!ToSet(Tail(batch)) \cup {r}
      /\ Hist!Repeated(Tail(batch)) \subseteq Hist!Repeated(batch)
      /\ r \in Hist!ToSet(Tail(batch)) => r \in Hist!Repeated(batch)
  BY <1>1, RoundTaken
<1> HIDE DEF r
<1>3. /\ handled' \in Seq(Int) /\ Hist!ToSet(handled') = Hist!ToSet(handled) \cup {r}
      /\ Hist!Repeated(handled') \subseteq Hist!Repeated(handled) \cup (Hist!ToSet(handled) \cap {r})
  BY <1>1, <1>2, RoundAdded
<1>4. /\ batch' \in Seq(Int) /\ Hist!ToSet(batch) = Hist!ToSet(batch') \cup {r}
      /\ Hist!Repeated(batch') \subseteq Hist!Repeated(batch)
      /\ r \in Hist!ToSet(batch') => r \in Hist!Repeated(batch)
  BY <1>1, <1>2
<1>5. Hist!TypeOK'
  BY <1>1, <1>3, <1>4 DEF Hist!IInv, Hist!TypeOK
<1>6. Hist!Phases'
  BY <1>1 DEF Hist!IInv, Hist!Phases
<1>7. Hist!CacheOK'
  BY <1>1, <1>3, <1>4 DEF Hist!IInv, Hist!CacheOK, Hist!Known
<1>8. Hist!BatchOnce'
  BY <1>1, <1>3, <1>4 DEF Hist!IInv, Hist!BatchOnce
<1>9. Hist!HandledOnce'
  BY <1>1, <1>3, <1>4 DEF Hist!IInv, Hist!BatchOnce, Hist!HandledOnce, Hist!FetchedIsHandled, Hist!TwiceOnlyIfEvicted
<1> QED
  BY <1>5, <1>6, <1>7, <1>8, <1>9 DEF Hist!IInv

LEMMA HistStep == Hist!IInv /\ [Hist!Next]_(Hist!vars) => Hist!IInv'
<1> SUFFICES ASSUME Hist!IInv, [Hist!Next]_(Hist!vars) PROVE Hist!IInv'
  OBVIOUS
<1>0. ended \in Nat /\ page \in Nat /\ Hist!Phases
  BY DEF Hist!IInv, Hist!TypeOK
<1>1. CASE Hist!RoundEnds \/ Hist!Start \/ Hist!Stop \/ UNCHANGED Hist!vars
  <2>1. UNCHANGED <<cache, seen, evicted, unread, batch, handled>> /\ Hist!Phases' /\ ended' \in Nat /\ page' \in Nat
    BY <1>0, <1>1
       DEF Hist!RoundEnds, Hist!Start, Hist!Stop, Hist!vars, Hist!client, Hist!poller, Hist!site, Hist!Phases
  <2> QED
    BY <2>1, HistQuiet
<1>2. CASE Hist!Loop
  <2>1. UNCHANGED <<cache, seen, evicted, unread, batch, handled>> /\ Hist!Phases' /\ ended' \in Nat /\ page' \in Nat
    BY <1>0, <1>2 DEF Hist!Loop, Hist!client, Hist!site, Hist!Phases
  <2> QED
    BY <2>1, HistQuiet
<1>3. CASE Hist!FetchFails \/ Hist!Parsed \/ Hist!Pulled \/ Hist!PagesDone
  <2>1. UNCHANGED <<cache, seen, evicted, unread, batch, handled>> /\ Hist!Phases' /\ ended' \in Nat /\ page' \in Nat
    BY <1>0, <1>3
       DEF Hist!FetchFails, Hist!Parsed, Hist!Pulled, Hist!PagesDone, Hist!client, Hist!site, Hist!Phases
  <2> QED
    BY <2>1, HistQuiet
<1>4. CASE Hist!Pause \/ Hist!Wake
  <2>1. UNCHANGED <<cache, seen, evicted, unread, batch, handled>> /\ Hist!Phases' /\ ended' \in Nat /\ page' \in Nat
    BY <1>0, <1>4 DEF Hist!Pause, Hist!Wake, Hist!MoreToHandle, Hist!client, Hist!site, Hist!Phases
  <2> QED
    BY <2>1, HistQuiet
<1> QED
  BY <1>1, <1>2, <1>3, <1>4, HistFetch, HistParse, HistHandle DEF Hist!Next, Hist!PollLoop

(* PollWorker::fetchAndIngest hands on every round of every page it has    *)
(* fetched, also after a stop, and a second time only after the round fell *)
(* out of RecentRoundCache: for every page size, every number of pages and *)
(* every capacity of the cache, with rounds ending while pages are read.   *)
THEOREM RoundsHandledOnce == Hist!Spec => []HandledOnce
<1>1. Hist!IInv => HandledOnce
  BY DEF Hist!IInv, HandledOnce
<1> QED
  BY <1>1, HistInit, HistStep, PTL DEF Hist!Spec
=============================================================================
