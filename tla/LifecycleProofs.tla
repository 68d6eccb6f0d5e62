---------------------------- MODULE LifecycleProofs ---------------------------
(***************************************************************************)
(* The proofs about the components of MCLifecycle that are not proved      *)
(* about in PredictionLifecycleProofs: what that module shows of any main  *)
(* loop without a poll thread, for the main loop of the subject alone; and *)
(* the intake of frames, whose inductive invariant (FrameIntake's IInv)    *)
(* has a part for the Ends (router and queue), one for the rounds          *)
(* (DuplicateFilter and registry) and one for the streaks.                 *)
(***************************************************************************)
EXTENDS MCLifecycle, TLAPS, FiniteSetTheorems, SequenceTheorems

AloneP == INSTANCE PredictionLifecycleProofs WITH Predictions <- AlonePredictions,
    Pollers <- {}, RegistryCap <- AloneRegistryCap, Stamps <- AloneStamps,
    MaxFaults <- AloneFaults, MaxFull <- AloneFull, ended <- aloneEnded,
    seen <- aloneSeen, queue <- aloneQueue,
    resolved <- aloneResolved, registry <- aloneRegistry,
    target <- aloneTarget, pending <- alonePending, last <- aloneLast,
    feedback <- aloneFeedback, pc <- alonePc, at <- aloneAt,
    stamp <- aloneStamp, resp <- aloneResp, outcomes <- aloneOutcomes,
    published <- alonePublished, stored <- aloneStored,
    matched <- aloneMatched, applied <- aloneApplied, late <- aloneLate,
    evicted <- aloneEvicted, forgot <- aloneForgot, faults <- aloneFaults,
    full <- aloneFull

\* While only the main thread predicts, the signal of a prediction goes out
\* before that of its outcome unless the outbox has refused one, and a signal
\* that is out and not stored is due to a failure of its own
\* (application.hpp:287-345, 511-523).
THEOREM SignalsAreSafeAlone == Alone!Spec => []AloneSignalsSafe
  <1>1. AloneP!ThreadAssumption /\ AloneP!ResponseAssumption /\ AloneP!BoundAssumption
    BY AloneAssumption, ResponseAssumption, BoundAssumption
    DEF AloneP!ThreadAssumption, AloneP!ResponseAssumption, AloneP!BoundAssumption
  <1>2. AloneP!Spec => []AloneP!SignalsSafe
    BY <1>1, AloneP!SignalsSafeAlone
  <1>3. Alone!Init => AloneP!Init
    BY Zenon
    DEF Alone!Init, AloneP!Init, Alone!Threads, AloneP!Threads, Alone!Targets,
        AloneP!Targets
  <1>4. [Alone!Next]_(Alone!vars) => [AloneP!Next]_(AloneP!vars)
    BY Zenon
    DEF Alone!Cardinality, AloneP!Cardinality, Alone!Range, AloneP!Range, Alone!Next,
        AloneP!Next, Alone!vars, AloneP!vars, Alone!OnGameEnd, AloneP!OnGameEnd,
        Alone!OnRoundEnd, AloneP!OnRoundEnd, Alone!InstallHandlers,
        AloneP!InstallHandlers, Alone!EndRound, AloneP!EndRound, Alone!Route,
        AloneP!Route, Alone!SocketEnd, AloneP!SocketEnd, Alone!EvictKey, AloneP!EvictKey,
        Alone!PollRound, AloneP!PollRound, Alone!AlreadySettled, AloneP!AlreadySettled,
        Alone!RememberRound, AloneP!RememberRound, Alone!PopValidation,
        AloneP!PopValidation, Alone!Outstanding, AloneP!Outstanding, Alone!Taken,
        AloneP!Taken, Alone!MatchRound, AloneP!MatchRound, Alone!NewFeedback,
        AloneP!NewFeedback, Alone!ApplyFeedback, AloneP!ApplyFeedback, Alone!Accept,
        AloneP!Accept, Alone!Refuse, AloneP!Refuse, Alone!SettleOutcome,
        AloneP!SettleOutcome, Alone!Submit, AloneP!Submit, Alone!Enter, AloneP!Enter,
        Alone!Register, AloneP!Register, Alone!PersistPrediction,
        AloneP!PersistPrediction, Alone!PersistFails, AloneP!PersistFails, Alone!Publish,
        AloneP!Publish, Alone!Return, AloneP!Return, Alone!FetchResponse,
        AloneP!FetchResponse, Alone!RegisterAgain, AloneP!RegisterAgain, Alone!Handoff,
        AloneP!Handoff, Alone!PollRoute, AloneP!PollRoute, Alone!ExpirePrediction,
        AloneP!ExpirePrediction, Alone!Goto, AloneP!Goto, Alone!Installed,
        AloneP!Installed, Alone!Threads, AloneP!Threads, Alone!Rounds, AloneP!Rounds,
        Alone!Targets, AloneP!Targets, Alone!router, AloneP!router, Alone!client,
        AloneP!client, Alone!thread, AloneP!thread, Alone!settling, AloneP!settling,
        Alone!database, AloneP!database, Alone!outbox, AloneP!outbox
  <1>5. AloneP!SignalsSafe => AloneSignalsSafe
    BY Zenon
    DEF AloneSignalsSafe, Alone!Cardinality, AloneP!Cardinality, Alone!SignalsSafe,
        AloneP!SignalsSafe, Alone!OrderKept, AloneP!OrderKept,
        Alone!PredictionBeforeOutcome, AloneP!PredictionBeforeOutcome,
        Alone!UnstoredAreFaults, AloneP!UnstoredAreFaults
  <1> QED BY <1>2, <1>3, <1>4, <1>5, PTL DEF Alone!Spec, AloneP!Spec
-----------------------------------------------------------------------------
(***************************************************************************)
(* The intake of frames: lemmas on its sequences and counts.               *)
(***************************************************************************)
\* Cardinality is the same by either name.
LEMMA IntakeCard == \A S : Intake!Cardinality(S) = Cardinality(S)
  BY DEF Intake!Cardinality, Cardinality

\* The elements of a sequence with one more at its end.
LEMMA InAppended ==
    ASSUME NEW S, NEW s \in Seq(S), NEW x \in S
    PROVE  Intake!ToSet(Append(s, x)) = Intake!ToSet(s) \cup {x}
<1>1. /\ Append(s, x) \in Seq(S) /\ Len(Append(s, x)) = Len(s) + 1
      /\ \A i \in 1 .. Len(s) : Append(s, x)[i] = s[i]
      /\ Append(s, x)[Len(s) + 1] = x
  BY AppendProperties
<1>2. DOMAIN s = 1 .. Len(s) /\ DOMAIN Append(s, x) = 1 .. Len(s) + 1 /\ Len(s) \in Nat
  BY <1>1, LenProperties
<1>3. ASSUME NEW y \in Intake!ToSet(Append(s, x)) PROVE y \in Intake!ToSet(s) \cup {x}
  <2>1. PICK i \in 1 .. Len(s) + 1 : y = Append(s, x)[i]
    BY <1>2, <1>3 DEF Intake!ToSet
  <2>2. i \in 1 .. Len(s) \/ i = Len(s) + 1
    BY <1>2
  <2> QED BY <1>1, <1>2, <2>1, <2>2 DEF Intake!ToSet
<1>4. ASSUME NEW y \in Intake!ToSet(s) PROVE y \in Intake!ToSet(Append(s, x))
  <2>1. PICK i \in 1 .. Len(s) : y = s[i]
    BY <1>2, <1>4 DEF Intake!ToSet
  <2>2. i \in 1 .. Len(s) + 1
    BY <1>2
  <2> QED BY <1>1, <1>2, <2>1, <2>2 DEF Intake!ToSet
<1>5. x \in Intake!ToSet(Append(s, x))
  <2>1. Len(s) + 1 \in 1 .. Len(s) + 1
    BY <1>2
  <2> QED BY <1>1, <1>2, <2>1 DEF Intake!ToSet
<1> QED BY <1>3, <1>4, <1>5

\* The tail of a sequence has no element of its own.
LEMMA InTail ==
    ASSUME NEW S, NEW s \in Seq(S), s # <<>>
    PROVE  Tail(s) \in Seq(S) /\ Intake!ToSet(Tail(s)) \subseteq Intake!ToSet(s)
<1>1. /\ Tail(s) \in Seq(S) /\ Len(Tail(s)) = Len(s) - 1 /\ Len(s) \in Nat
      /\ \A i \in 1 .. Len(Tail(s)) : Tail(s)[i] = s[i + 1]
  BY HeadTailProperties, LenProperties
<1>2. DOMAIN s = 1 .. Len(s) /\ DOMAIN Tail(s) = 1 .. Len(s) - 1
  BY <1>1, LenProperties
<1>3. ASSUME NEW y \in Intake!ToSet(Tail(s)) PROVE y \in Intake!ToSet(s)
  <2>1. PICK i \in 1 .. Len(s) - 1 : y = Tail(s)[i]
    BY <1>2, <1>3 DEF Intake!ToSet
  <2>2. i + 1 \in 1 .. Len(s) /\ y = s[i + 1]
    BY <1>1, <2>1
  <2> QED BY <1>2, <2>2 DEF Intake!ToSet
<1> QED BY <1>1, <1>3

\* The newest entry is kept, and nothing else is added.
LEMMA RememberKeeps ==
    ASSUME NEW S, NEW s \in Seq(S), NEW x \in S, NEW cap \in Nat \ {0}
    PROVE  /\ Intake!Remember(s, x, cap) \in Seq(S)
           /\ x \in Intake!ToSet(Intake!Remember(s, x, cap))
           /\ Intake!ToSet(Intake!Remember(s, x, cap)) \subseteq Intake!ToSet(s) \cup {x}
<1> DEFINE g == Append(s, x)
<1>1. /\ g \in Seq(S) /\ Len(g) = Len(s) + 1 /\ g[Len(s) + 1] = x /\ Len(s) \in Nat
      /\ Intake!ToSet(g) = Intake!ToSet(s) \cup {x}
  BY AppendProperties, LenProperties, InAppended
<1> HIDE DEF g
<1>2. CASE ~(Len(g) > cap)
  BY <1>1, <1>2 DEF Intake!Remember, g
<1>3. CASE Len(g) > cap
  <2>1. Intake!Remember(s, x, cap) = Tail(g)
    BY <1>3 DEF Intake!Remember, g
  <2>2. g # <<>> /\ Len(s) >= 1
    BY <1>1, <1>3
  <2>3. Tail(g) \in Seq(S) /\ Intake!ToSet(Tail(g)) \subseteq Intake!ToSet(g)
    BY <1>1, <2>2, InTail
  <2>4. /\ Len(Tail(g)) = Len(s) /\ \A i \in 1 .. Len(Tail(g)) : Tail(g)[i] = g[i + 1]
    BY <1>1, <2>2, HeadTailProperties
  <2>5. Tail(g)[Len(s)] = x /\ Len(s) \in DOMAIN Tail(g)
    BY <1>1, <2>2, <2>3, <2>4, LenProperties
  <2>6. x \in Intake!ToSet(Tail(g))
    BY <2>5 DEF Intake!ToSet
  <2> QED BY <1>1, <2>1, <2>3, <2>6
<1> QED BY <1>2, <1>3

\* A known key moves to the end.
LEMMA RefreshedKeeps ==
    ASSUME NEW S, NEW s \in Seq(S), NEW x \in Intake!ToSet(s)
    PROVE  /\ Intake!Refreshed(s, x) \in Seq(S)
           /\ x \in Intake!ToSet(Intake!Refreshed(s, x))
           /\ Intake!ToSet(Intake!Refreshed(s, x)) \subseteq Intake!ToSet(s) \cup {x}
<1> DEFINE i == CHOOSE j \in DOMAIN s : s[j] = x
           n == Len(s)
           a == SubSeq(s, 1, i - 1)
           b == SubSeq(s, i + 1, n)
<1>1. /\ n \in Nat /\ DOMAIN s = 1 .. n /\ \A j \in 1 .. n : s[j] \in S
      /\ i \in 1 .. n /\ s[i] = x
  BY LenProperties, ElementOfSeq DEF Intake!ToSet
<1> HIDE DEF i
<1>2. /\ a \in Seq(S) /\ Len(a) = i - 1 /\ \A j \in 1 .. Len(a) : a[j] = s[j]
  BY <1>1, SubSeqProperties
<1>3. /\ b \in Seq(S) /\ Len(b) = n - i /\ \A j \in 1 .. Len(b) : b[j] = s[i + j]
  <2>1. \A j \in i + 1 .. n : s[j] \in S
    BY <1>1
  <2>2. /\ b \in Seq(S) /\ Len(b) = IF i + 1 <= n THEN n - (i + 1) + 1 ELSE 0
        /\ \A j \in 1 .. n - (i + 1) + 1 : b[j] = s[(i + 1) + j - 1]
    BY <1>1, SubSeqProperties
  <2>3. i \in Int /\ n \in Int /\ i <= n
    BY <1>1
  <2> HIDE DEF b, n
  <2>4. Len(b) = n - i /\ n - (i + 1) + 1 = n - i
    BY <2>2, <2>3
  <2>5. ASSUME NEW j \in 1 .. Len(b) PROVE b[j] = s[i + j]
    <3>1. j \in 1 .. n - (i + 1) + 1 /\ (i + 1) + j - 1 = i + j
      BY <2>3, <2>4
    <3>2. b[j] = s[(i + 1) + j - 1]
      BY <2>2, <3>1
    <3> QED BY <3>1, <3>2
  <2> QED BY <2>2, <2>4, <2>5
<1> DEFINE c == a \o b
<1> HIDE DEF a, b
<1>4. /\ c \in Seq(S) /\ Len(c) = Len(a) + Len(b) /\ Len(a) \in Nat /\ Len(b) \in Nat
      /\ \A j \in 1 .. Len(a) + Len(b) : c[j] = IF j <= Len(a) THEN a[j] ELSE b[j - Len(a)]
  BY <1>2, <1>3, ConcatProperties, LenProperties
<1>5. \A j \in 1 .. Len(c) : \E k \in 1 .. n : c[j] = s[k]
  <2> SUFFICES ASSUME NEW j \in 1 .. Len(c) PROVE \E k \in 1 .. n : c[j] = s[k]
    OBVIOUS
  <2>1. CASE j <= Len(a)
    <3>1. c[j] = s[j] /\ j \in 1 .. n
      BY <1>1, <1>2, <1>4, <2>1
    <3> QED BY <3>1
  <2>2. CASE ~(j <= Len(a))
    <3>1. j - Len(a) \in 1 .. Len(b) /\ c[j] = b[j - Len(a)]
      BY <1>4, <2>2
    <3>2. c[j] = s[i + (j - Len(a))] /\ i + (j - Len(a)) \in 1 .. n
      BY <1>1, <1>2, <1>3, <1>4, <3>1
    <3> QED BY <3>2
  <2> QED BY <2>1, <2>2
<1>6. Intake!ToSet(c) \subseteq Intake!ToSet(s)
  <2> HIDE DEF c
  <2> SUFFICES ASSUME NEW y \in Intake!ToSet(c) PROVE y \in Intake!ToSet(s)
    OBVIOUS
  <2>1. PICK j \in 1 .. Len(c) : y = c[j]
    BY <1>4, LenProperties DEF Intake!ToSet
  <2>2. PICK k \in 1 .. n : y = s[k]
    BY <1>5, <2>1
  <2> QED BY <1>1, <2>2 DEF Intake!ToSet
<1>7. Intake!Refreshed(s, x) = Append(c, x)
  BY DEF Intake!Refreshed, Intake!RemoveAt, a, b, i
<1> HIDE DEF c
<1>8. x \in S
  BY <1>1
<1>9. Append(c, x) \in Seq(S) /\ Intake!ToSet(Append(c, x)) = Intake!ToSet(c) \cup {x}
  BY <1>4, <1>8, InAppended, AppendProperties
<1> QED BY <1>6, <1>7, <1>9

\* How often a round is in a queue.
LEMMA CountFinite ==
    ASSUME NEW S, NEW s \in Seq(S), NEW r
    PROVE  /\ IsFiniteSet({i \in DOMAIN s : s[i] = r})
           /\ Intake!Count(s, r) = Cardinality({i \in DOMAIN s : s[i] = r})
           /\ Intake!Count(s, r) \in Nat
<1>1. IsFiniteSet(1 .. Len(s)) /\ DOMAIN s = 1 .. Len(s)
  BY LenProperties, FS_Interval
<1>2. {i \in DOMAIN s : s[i] = r} \in SUBSET (1 .. Len(s))
  BY <1>1
<1>3. IsFiniteSet({i \in DOMAIN s : s[i] = r})
  BY <1>1, <1>2, FS_Subset
<1>4. Intake!Count(s, r) = Cardinality({i \in DOMAIN s : s[i] = r})
  BY IntakeCard DEF Intake!Count
<1> QED BY <1>3, <1>4, FS_CardinalityType

\* No round is in an empty queue.
LEMMA CountEmpty == \A r : Intake!Count(<<>>, r) = 0
<1> SUFFICES ASSUME NEW r PROVE Intake!Count(<<>>, r) = 0
  OBVIOUS
<1>1. {i \in DOMAIN <<>> : <<>>[i] = r} = {}
  OBVIOUS
<1>2. Intake!Count(<<>>, r) = Cardinality({})
  BY <1>1, IntakeCard DEF Intake!Count
<1> QED BY <1>2, FS_EmptySet

\* One more at the end of a queue.
LEMMA CountAppend ==
    ASSUME NEW S, NEW s \in Seq(S), NEW x \in S, NEW r
    PROVE  Intake!Count(Append(s, x), r) = Intake!Count(s, r) + IF x = r THEN 1 ELSE 0
<1> DEFINE old == {i \in DOMAIN s : s[i] = r}
           new == {i \in DOMAIN Append(s, x) : Append(s, x)[i] = r}
           n == Len(s) + 1
<1>1. /\ Append(s, x) \in Seq(S) /\ Len(Append(s, x)) = n
      /\ \A i \in 1 .. Len(s) : Append(s, x)[i] = s[i]
      /\ Append(s, x)[n] = x
  BY AppendProperties
<1>2. DOMAIN s = 1 .. Len(s) /\ DOMAIN Append(s, x) = 1 .. n /\ Len(s) \in Nat
  BY <1>1, LenProperties
<1>3. /\ IsFiniteSet(old) /\ Intake!Count(s, r) = Cardinality(old)
      /\ Intake!Count(Append(s, x), r) = Cardinality(new)
      /\ Intake!Count(s, r) \in Nat
  BY <1>1, CountFinite
<1>4. n \notin old
  BY <1>2
<1>5. CASE x = r
  <2>1. new = old \cup {n}
    BY <1>1, <1>2, <1>5
  <2> HIDE DEF old, new, n
  <2>2. Cardinality(old \cup {n}) = Cardinality(old) + 1
    BY <1>3, <1>4, FS_AddElement
  <2> QED BY <1>3, <1>5, <2>1, <2>2
<1>6. CASE x # r
  <2>1. new = old
    BY <1>1, <1>2, <1>6
  <2> HIDE DEF old, new, n
  <2> QED BY <1>3, <1>6, <2>1
<1> QED BY <1>5, <1>6

\* One less at its front.
LEMMA CountTail ==
    ASSUME NEW S, NEW s \in Seq(S), s # <<>>, NEW r
    PROVE  Intake!Count(s, r) = Intake!Count(Tail(s), r) + IF Head(s) = r THEN 1 ELSE 0
<1> DEFINE old == {i \in DOMAIN s : s[i] = r}
           new == {i \in DOMAIN Tail(s) : Tail(s)[i] = r}
           f == [i \in new |-> i + 1]
<1>1. /\ Tail(s) \in Seq(S) /\ Len(Tail(s)) = Len(s) - 1 /\ Len(s) \in Nat /\ Len(s) > 0
      /\ \A i \in 1 .. Len(Tail(s)) : Tail(s)[i] = s[i + 1]
      /\ Head(s) = s[1]
  BY HeadTailProperties, LenProperties, EmptySeq
<1>2. DOMAIN s = 1 .. Len(s) /\ DOMAIN Tail(s) = 1 .. Len(s) - 1
  BY <1>1, LenProperties
<1>3. /\ IsFiniteSet(old) /\ Intake!Count(s, r) = Cardinality(old) /\ IsFiniteSet(new)
      /\ Intake!Count(Tail(s), r) = Cardinality(new)
      /\ Intake!Count(s, r) \in Nat /\ Intake!Count(Tail(s), r) \in Nat
  BY <1>1, CountFinite
<1>4. f \in Bijection(new, old \ {1})
  <2>1. \A i \in new : i + 1 \in old \ {1}
    BY <1>1, <1>2
  <2>2. \A j \in old \ {1} : j - 1 \in new /\ (j - 1) + 1 = j
    <3> SUFFICES ASSUME NEW j \in old \ {1} PROVE j - 1 \in new /\ (j - 1) + 1 = j
      OBVIOUS
    <3>1. j \in 2 .. Len(s) /\ s[j] = r
      BY <1>1, <1>2
    <3>2. j - 1 \in 1 .. Len(s) - 1 /\ (j - 1) + 1 = j
      BY <1>1, <3>1
    <3>3. Tail(s)[j - 1] = s[j]
      BY <1>1, <3>2
    <3> QED BY <1>2, <3>1, <3>2, <3>3
  <2>3. \A i \in new : i \in Nat
    BY <1>2
  <2> HIDE DEF old, new
  <2>4. f \in [new -> old \ {1}]
    BY <2>1
  <2>5. \A i, j \in new : f[i] = f[j] => i = j
    BY <2>3
  <2>6. \A j \in old \ {1} : \E i \in new : f[i] = j
    BY <2>2
  <2> HIDE DEF f
  <2> QED BY <2>4, <2>5, <2>6 DEF Bijection, Injection, Surjection, IsInjective
<1>5. ExistsBijection(new, old \ {1})
  BY <1>4 DEF ExistsBijection
<1>6. 1 \in old <=> Head(s) = r
  BY <1>1, <1>2
<1> HIDE DEF old, new, f
<1>7. Cardinality(old \ {1}) = Cardinality(new)
  BY <1>3, <1>5, FS_Bijection
<1>8. Cardinality(old \ {1}) = IF 1 \in old THEN Cardinality(old) - 1 ELSE Cardinality(old)
  BY <1>3, FS_RemoveElement
<1> QED BY <1>3, <1>6, <1>7, <1>8

-----------------------------------------------------------------------------
(* The router and its queue. *)

RouterKeys == Ids \X Intake!Kinds

\* What the decoder makes of the fields of an event.
LEMMA EventFacts ==
    ASSUME NEW ev \in Intake!Events
    PROVE  /\ ev.id \in Ids \cup {0} /\ ev.kind \in Intake!Kinds
           /\ ev.mult \in Nat /\ ev.elapsed \in Nat
           /\ ev.kind = "End" => ev.id \in Ids /\ ev.mult \in Mults /\ ev.elapsed = 0
           /\ ev.kind = "Progress" => ev.id = 0
           /\ ev.id # 0 => ev.kind \in {"Prepare", "Start", "End"} /\ Intake!Valid(ev)
           /\ 0 \notin Ids
<1>0. 0 \notin Ids /\ Mults \subseteq Nat /\ Elapsed \subseteq Nat
  BY IntakeAssumption
<1>1. CASE ev \in [kind : {"Prepare", "Start"}, id : Ids, mult : {0}, elapsed : {0}]
  <2>1. ev.kind \in {"Prepare", "Start"} /\ ev.id \in Ids /\ ev.mult = 0 /\ ev.elapsed = 0
    BY <1>1
  <2>2. ev.id # 0 /\ ev.mult \in Nat
    BY <1>0, <2>1
  <2> QED BY <1>0, <2>1, <2>2 DEF Intake!Kinds, Intake!Valid
<1>2. CASE ev \in [kind : {"End"}, id : Ids, mult : Mults, elapsed : {0}]
  <2>1. ev.kind = "End" /\ ev.id \in Ids /\ ev.mult \in Mults /\ ev.elapsed = 0
    BY <1>2
  <2>2. ev.id # 0 /\ ev.mult \in Nat
    BY <1>0, <2>1
  <2> QED BY <1>0, <2>1, <2>2 DEF Intake!Kinds, Intake!Valid
<1>3. CASE ev \in [kind : {"Progress"}, id : {0}, mult : {0}, elapsed : Elapsed]
  <2>1. ev.kind = "Progress" /\ ev.id = 0 /\ ev.mult = 0 /\ ev.elapsed \in Elapsed
    BY <1>3
  <2>2. ev.elapsed \in Nat
    BY <1>0, <2>1
  <2> QED BY <1>0, <2>1, <2>2 DEF Intake!Kinds, Intake!Valid
<1>4. CASE ev \in [kind : {"Heartbeat", "Connect", "Prepare"}, id : {0}, mult : {0}, elapsed : {0}]
  BY <1>0, <1>4 DEF Intake!Kinds, Intake!Valid
<1> QED BY <1>1, <1>2, <1>3, <1>4 DEF Intake!Events

\* The key of a routed event is kept, and no other is added.
LEMMA RoutedKeeps ==
    ASSUME NEW ev \in Intake!Events, NEW ks \in Seq(RouterKeys)
    PROVE  /\ Intake!Routed(ev, ks) \in Seq(RouterKeys)
           /\ \A k \in Intake!ToSet(Intake!Routed(ev, ks)) :
                k \in Intake!ToSet(ks) \/ (ev.id # 0 /\ k = Intake!RouterKey(ev))
           /\ ev.id # 0 => Intake!RouterKey(ev) \in Intake!ToSet(Intake!Routed(ev, ks))
<1>1. CASE ev.id = 0
  BY <1>1 DEF Intake!Routed
<1>2. CASE ev.id # 0
  <2>1. Intake!Valid(ev) /\ Intake!RouterKey(ev) \in RouterKeys
    BY <1>2, EventFacts DEF Intake!RouterKey, RouterKeys
  <2>2. CASE Intake!RouterKey(ev) \in Intake!ToSet(ks)
    <3>1. Intake!Routed(ev, ks) = Intake!Refreshed(ks, Intake!RouterKey(ev))
      BY <1>2, <2>1, <2>2 DEF Intake!Routed
    <3> QED BY <1>2, <2>1, <2>2, <3>1, RefreshedKeeps
  <2>3. CASE Intake!RouterKey(ev) \notin Intake!ToSet(ks)
    <3>1. Intake!Routed(ev, ks) = Intake!Remember(ks, Intake!RouterKey(ev), RouterCap)
      BY <1>2, <2>1, <2>3 DEF Intake!Routed
    <3> QED BY <1>2, <2>1, <3>1, RememberKeeps, IntakeAssumption
  <2> QED BY <2>2, <2>3
<1> QED BY <1>1, <1>2

Total(r) == intakeSettled[r] + Intake!Waiting(r)
Room == Len(intakeToValidation) < IntakeQueueCap

\* What routing an event does to the keys, the queue and what is lost.
Routing(ev) ==
    /\ intakeKeys' \in Seq(RouterKeys)
    /\ \A k \in Intake!ToSet(intakeKeys') :
        k \in Intake!ToSet(intakeKeys) \/ (ev.id # 0 /\ k = Intake!RouterKey(ev))
    /\ ev.id # 0 => Intake!RouterKey(ev) \in Intake!ToSet(intakeKeys')
    /\ intakeKeyForgot' = intakeKeyForgot \cup Intake!Dropped(intakeKeys, intakeKeys')
    /\ \A r \in Ids :
        Total(r)' = Total(r) + IF Intake!NewEnd(ev, intakeKeys) /\ Room /\ r = ev.id THEN 1 ELSE 0
    /\ intakeLost' = IF Intake!NewEnd(ev, intakeKeys) /\ ~Room THEN intakeLost \cup {ev.id} ELSE intakeLost

\* A key of an End that is there no more is known to be forgotten.
LEMMA KeyKeptOrForgot ==
    ASSUME intakeKeyForgot' = intakeKeyForgot \cup Intake!Dropped(intakeKeys, intakeKeys'),
           NEW r \in Ids, <<r, "End">> \in Intake!ToSet(intakeKeys)
    PROVE  <<r, "End">> \in Intake!ToSet(intakeKeys') \/ r \in intakeKeyForgot'
<1>1. CASE <<r, "End">> \notin Intake!ToSet(intakeKeys')
  <2>1. <<r, "End">> \in {x \in Intake!ToSet(intakeKeys) \ Intake!ToSet(intakeKeys') : x[2] = "End"}
    BY <1>1
  <2>2. <<r, "End">>[1] = r
    OBVIOUS
  <2>3. r \in Intake!Dropped(intakeKeys, intakeKeys')
    BY <2>1, <2>2 DEF Intake!Dropped
  <2> QED BY <2>3
<1> QED BY <1>1

\* The Ends settled and waiting are numbers.
LEMMA TotalType == Intake!TypeOK => \A r \in Ids : Total(r) \in Nat /\ Intake!Waiting(r) \in Nat
<1> SUFFICES ASSUME Intake!TypeOK, NEW r \in Ids
             PROVE  Total(r) \in Nat /\ Intake!Waiting(r) \in Nat
  OBVIOUS
<1>1. intakeToValidation \in Seq(Ids) /\ intakeSettled[r] \in Nat
  BY DEF Intake!TypeOK
<1>2. Intake!Waiting(r) \in Nat
  BY <1>1, CountFinite DEF Intake!Waiting
<1> QED BY <1>1, <1>2 DEF Total

\* An End with a known key was settled, waits, or found no room.
LEMMA RoutingKeeps ==
    ASSUME Intake!IInv, NEW ev \in Intake!Events, Routing(ev)
    PROVE  /\ Intake!QueuedIsKnown'
           /\ Intake!EndOnce'
           /\ \A r \in Ids : <<r, "End">> \in Intake!ToSet(intakeKeys') =>
                Total(r)' > 0 \/ r \in intakeLost'
<1>0. /\ \A r \in Ids : Total(r) \in Nat
      /\ \A r \in Ids : Total(r) > 0 =>
            <<r, "End">> \in Intake!ToSet(intakeKeys) \/ r \in intakeKeyForgot
      /\ \A r \in Ids : Total(r) > 1 => r \in intakeKeyForgot
      /\ \A r \in Ids : <<r, "End">> \in Intake!ToSet(intakeKeys) => Total(r) > 0 \/ r \in intakeLost
  BY TotalType DEF Intake!IInv, Intake!QueuedIsKnown, Intake!EndsSafe, Intake!EndOnce,
     Intake!EndAccountedFor, Total
<1>1. /\ intakeKeyForgot' = intakeKeyForgot \cup Intake!Dropped(intakeKeys, intakeKeys')
      /\ intakeKeyForgot \subseteq intakeKeyForgot' /\ intakeLost \subseteq intakeLost'
  BY DEF Routing
<1> DEFINE new(r) == Intake!NewEnd(ev, intakeKeys) /\ r = ev.id
<1>2. \A r \in Ids : Total(r)' = Total(r) \/ (new(r) /\ Total(r)' = Total(r) + 1)
  BY <1>0 DEF Routing
<1>3. ASSUME NEW r \in Ids, new(r)
      PROVE  /\ <<r, "End">> \notin Intake!ToSet(intakeKeys)
             /\ <<r, "End">> \in Intake!ToSet(intakeKeys')
             /\ Total(r)' > 0 \/ r \in intakeLost'
  <2>1. Intake!RouterKey(ev) = <<r, "End">> /\ ev.id # 0
    BY <1>3 DEF Intake!NewEnd, Intake!RouterKey
  <2>2. Total(r)' > 0 \/ r \in intakeLost'
    BY <1>0, <1>3 DEF Routing
  <2> QED BY <1>3, <2>1, <2>2 DEF Intake!NewEnd, Routing
<1>4. Intake!QueuedIsKnown'
  <2>1. ASSUME NEW r \in Ids, Total(r)' > 0
        PROVE  <<r, "End">> \in Intake!ToSet(intakeKeys') \/ r \in intakeKeyForgot'
    <3>1. CASE new(r)
      BY <1>3, <3>1
    <3>2. CASE ~new(r)
      <4>1. Total(r) > 0
        BY <1>2, <2>1, <3>2
      <4> QED BY <1>0, <1>1, <4>1, KeyKeptOrForgot
    <3> QED BY <3>1, <3>2
  <2> QED BY <2>1 DEF Intake!QueuedIsKnown, Total
<1>5. Intake!EndOnce'
  <2>1. ASSUME NEW r \in Ids, Total(r)' > 1 PROVE r \in intakeKeyForgot'
    <3>1. CASE new(r)
      <4>1. Total(r) > 0
        BY <1>0, <1>2, <2>1
      <4> QED BY <1>0, <1>1, <1>3, <3>1, <4>1
    <3>2. CASE ~new(r)
      <4>1. Total(r) > 1
        BY <1>2, <2>1, <3>2
      <4> QED BY <1>0, <1>1, <4>1
    <3> QED BY <3>1, <3>2
  <2> QED BY <2>1 DEF Intake!EndOnce, Total
<1>6. ASSUME NEW r \in Ids, <<r, "End">> \in Intake!ToSet(intakeKeys')
      PROVE  Total(r)' > 0 \/ r \in intakeLost'
  <2>1. CASE new(r)
    BY <1>3, <2>1
  <2>2. CASE ~new(r)
    <3>1. <<r, "End">> \in Intake!ToSet(intakeKeys)
      <4>1. CASE ev.id # 0 /\ <<r, "End">> = Intake!RouterKey(ev)
        BY <2>2, <4>1 DEF Intake!NewEnd, Intake!RouterKey
      <4> QED BY <1>6, <4>1 DEF Routing
    <3>2. Total(r)' = Total(r)
      BY <1>2, <2>2
    <3> QED BY <1>0, <1>1, <3>1, <3>2
  <2> QED BY <2>1, <2>2
<1> QED BY <1>4, <1>5, <1>6

\* EventRouter::route.
LEMMA RouteIsRouting ==
    ASSUME Intake!IInv, NEW ev \in Intake!Events, Intake!Route(ev, intakeKeys),
           UNCHANGED intakeSettled
    PROVE  /\ Routing(ev)
           /\ intakeToValidation' \in Seq(Ids)
           /\ ~Intake!NewEnd(ev, intakeKeys) => intakeToValidation' = intakeToValidation
<1>1. intakeKeys \in Seq(RouterKeys) /\ intakeToValidation \in Seq(Ids) /\ intakeSettled \in [Ids -> Nat]
  BY DEF Intake!IInv, Intake!TypeOK, RouterKeys
<1> DEFINE new == Intake!NewEnd(ev, intakeKeys)
<1>2. /\ intakeKeys' = Intake!Routed(ev, intakeKeys)
      /\ intakeKeyForgot' = intakeKeyForgot \cup Intake!Dropped(intakeKeys, intakeKeys')
      /\ intakeToValidation' = IF new /\ Room THEN Append(intakeToValidation, ev.id) ELSE intakeToValidation
  BY DEF Intake!Route, Intake!Push, Room
<1>3. intakeLost' = IF new /\ ~Room THEN intakeLost \cup {ev.id} ELSE intakeLost
  <2>1. Len(intakeToValidation) \in Nat /\ IntakeQueueCap \in Nat
    BY <1>1, LenProperties, IntakeAssumption
  <2>2. Len(intakeToValidation) >= IntakeQueueCap <=> ~Room
    BY <2>1 DEF Room
  <2> QED BY <2>2 DEF Intake!Route
<1>4. new => ev.id \in Ids
  BY EventFacts DEF Intake!NewEnd
<1>5. ASSUME NEW r \in Ids PROVE Total(r)' = Total(r) + IF new /\ Room /\ r = ev.id THEN 1 ELSE 0
  <2>1. Intake!Count(intakeToValidation, r) \in Nat /\ intakeSettled[r] \in Nat
    BY <1>1, CountFinite
  <2>2. Intake!Count(intakeToValidation', r) =
            Intake!Count(intakeToValidation, r) + IF new /\ Room /\ r = ev.id THEN 1 ELSE 0
    <3>1. CASE new /\ Room
      <4>1. Intake!Count(Append(intakeToValidation, ev.id), r) =
                Intake!Count(intakeToValidation, r) + IF ev.id = r THEN 1 ELSE 0
        BY <1>1, <1>4, <3>1, CountAppend
      <4> QED BY <1>2, <3>1, <4>1
    <3>2. CASE ~(new /\ Room)
      BY <1>2, <2>1, <3>2
    <3> QED BY <3>1, <3>2
  <2> QED BY <2>1, <2>2 DEF Total, Intake!Waiting
<1>6. Routing(ev)
  BY <1>1, <1>2, <1>3, <1>5, RoutedKeeps DEF Routing
<1>7. intakeToValidation' \in Seq(Ids)
  BY <1>1, <1>2, <1>4, AppendProperties
<1> QED BY <1>2, <1>6, <1>7

\* PipelineLoop::onFrame from the router on, and injectFrame after it.
LEMMA DrainIsRouting ==
    ASSUME Intake!IInv, NEW ev \in Intake!Events,
           intakeKeys' = Intake!Routed(ev, Intake!Routed(ev, intakeKeys)),
           intakeKeyForgot' = intakeKeyForgot \cup Intake!Dropped(intakeKeys, intakeKeys'),
           Intake!RouteAndDrain(ev, intakeKeys)
    PROVE  /\ Routing(ev)
           /\ intakeToValidation' = <<>>
           /\ intakeSettled' \in [Ids -> Nat]
<1>1. intakeKeys \in Seq(RouterKeys) /\ intakeToValidation \in Seq(Ids) /\ intakeSettled \in [Ids -> Nat]
  BY DEF Intake!IInv, Intake!TypeOK, RouterKeys
<1> DEFINE new == Intake!NewEnd(ev, intakeKeys)
           line == IF new THEN Intake!Push(intakeToValidation, ev.id) ELSE intakeToValidation
           once == Intake!Routed(ev, intakeKeys)
<1>2. new => ev.id \in Ids
  BY EventFacts DEF Intake!NewEnd
<1>3. line = IF new /\ Room THEN Append(intakeToValidation, ev.id) ELSE intakeToValidation
  BY DEF Intake!Push, Room
<1>4. line \in Seq(Ids)
  <2> HIDE DEF line, new
  <2>1. CASE new /\ Room
    BY <1>1, <1>2, <1>3, <2>1, AppendProperties
  <2>2. CASE ~(new /\ Room)
    BY <1>1, <1>3, <2>2
  <2> QED BY <2>1, <2>2
<1>5. intakeSettled' = [r \in Ids |-> intakeSettled[r] + Intake!Count(line, r)]
  BY DEF Intake!RouteAndDrain, Intake!Drained
<1>6. intakeToValidation' = <<>>
  <2>1. intakeToValidation' = SubSeq(line, Len(line) + 1, Len(line))
    BY DEF Intake!RouteAndDrain, Intake!Drained
  <2> HIDE DEF line
  <2>2. Len(line) \in Nat
    BY <1>4, LenProperties
  <2>3. SubSeq(line, Len(line) + 1, Len(line)) = <<>>
    BY <2>2, SubSeqEmpty
  <2> QED BY <2>1, <2>3
<1>7. intakeLost' = IF new /\ ~Room THEN intakeLost \cup {ev.id} ELSE intakeLost
  <2>1. Len(intakeToValidation) \in Nat /\ IntakeQueueCap \in Nat
    BY <1>1, LenProperties, IntakeAssumption
  <2>2. Len(intakeToValidation) >= IntakeQueueCap <=> ~Room
    BY <2>1 DEF Room
  <2> QED BY <2>2 DEF Intake!RouteAndDrain
<1>8. ASSUME NEW r \in Ids PROVE Intake!Count(line, r) =
            Intake!Count(intakeToValidation, r) + IF new /\ Room /\ r = ev.id THEN 1 ELSE 0
  <2>1. Intake!Count(intakeToValidation, r) \in Nat
    BY <1>1, CountFinite
  <2>2. CASE new /\ Room
    <3>1. Intake!Count(Append(intakeToValidation, ev.id), r) =
              Intake!Count(intakeToValidation, r) + IF ev.id = r THEN 1 ELSE 0
      BY <1>1, <1>2, <2>2, CountAppend
    <3> QED BY <1>3, <2>2, <3>1
  <2>3. CASE ~(new /\ Room)
    <3>1. line = intakeToValidation
      BY <1>3, <2>3
    <3> QED BY <2>1, <2>3, <3>1
  <2> QED BY <2>2, <2>3
<1> HIDE DEF line
<1>9. ASSUME NEW r \in Ids
      PROVE  /\ Total(r)' = Total(r) + IF new /\ Room /\ r = ev.id THEN 1 ELSE 0
             /\ intakeSettled[r] + Intake!Count(line, r) \in Nat
  <2>1. /\ Intake!Count(intakeToValidation, r) \in Nat /\ intakeSettled[r] \in Nat
        /\ Intake!Count(line, r) \in Nat
    BY <1>1, <1>4, CountFinite
  <2>2. Intake!Count(intakeToValidation', r) = 0
    BY <1>6, CountEmpty
  <2>3. intakeSettled'[r] = intakeSettled[r] + Intake!Count(line, r)
    BY <1>5
  <2> QED BY <1>8, <2>1, <2>2, <2>3 DEF Total, Intake!Waiting
<1>10. intakeSettled' \in [Ids -> Nat]
  BY <1>5, <1>9
<1>11. /\ once \in Seq(RouterKeys)
       /\ \A k \in Intake!ToSet(once) :
            k \in Intake!ToSet(intakeKeys) \/ (ev.id # 0 /\ k = Intake!RouterKey(ev))
  BY <1>1, RoutedKeeps
<1> HIDE DEF once
<1>12. /\ intakeKeys' \in Seq(RouterKeys)
       /\ \A k \in Intake!ToSet(intakeKeys') :
            k \in Intake!ToSet(once) \/ (ev.id # 0 /\ k = Intake!RouterKey(ev))
       /\ ev.id # 0 => Intake!RouterKey(ev) \in Intake!ToSet(intakeKeys')
  <2>1. intakeKeys' = Intake!Routed(ev, once)
    BY DEF once
  <2> QED BY <1>11, <2>1, RoutedKeeps
<1>13. Routing(ev)
  BY <1>7, <1>9, <1>11, <1>12 DEF Routing
<1> QED BY <1>6, <1>10, <1>13

FilterKeys == (Ids \cup {0}) \X Intake!Kinds \X Nat

\* DuplicateFilter::accept keeps the key of the event it lets through.
LEMMA FilterKeeps ==
    ASSUME Intake!IInv, NEW ev \in Intake!Events
    PROVE  LET after == Intake!Remember(intakeDupes, Intake!DupKey(ev), DupCap)
           IN  /\ after \in Seq(FilterKeys)
               /\ Intake!DupKey(ev) \in Intake!ToSet(after)
               /\ Intake!ToSet(after) \subseteq Intake!ToSet(intakeDupes) \cup {Intake!DupKey(ev)}
<1>1. Intake!DupKey(ev) \in FilterKeys
  BY EventFacts DEF Intake!DupKey, FilterKeys
<1>2. intakeDupes \in Seq(FilterKeys) /\ DupCap \in Nat \ {0}
  BY IntakeAssumption DEF Intake!IInv, Intake!TypeOK, FilterKeys
<1> QED BY <1>1, <1>2, RememberKeeps

\* What is known of the router, its queue and the rounds settled.
EndsInv ==
    /\ intakeMode \in {"engine", "application"}
    /\ intakeKeys \in Seq(RouterKeys) /\ intakeToValidation \in Seq(Ids)
    /\ intakeSettled \in [Ids -> Nat]
    /\ Intake!QueuedIsKnown /\ Intake!EngineIsDrained /\ Intake!EndsSafe

\* Steps that leave the router and the queue alone.
LEMMA EndsSame ==
    ASSUME Intake!IInv,
           UNCHANGED <<intakeMode, intakeDupes, intakeKeys, intakeToValidation,
                       intakeSettled, intakeKeyForgot, intakeLost>>
    PROVE  EndsInv'
<1>1. EndsInv
  BY DEF EndsInv, Intake!IInv, Intake!TypeOK, RouterKeys
<1>2. /\ intakeMode' = intakeMode /\ intakeDupes' = intakeDupes /\ intakeKeys' = intakeKeys
      /\ intakeToValidation' = intakeToValidation /\ intakeSettled' = intakeSettled
      /\ intakeKeyForgot' = intakeKeyForgot /\ intakeLost' = intakeLost
  OBVIOUS
<1> QED BY <1>1, <1>2, Zenon
        DEF EndsInv, Intake!QueuedIsKnown, Intake!EngineIsDrained, Intake!EndsSafe,
            Intake!EndOnce, Intake!EndAccountedFor, Intake!Waiting

\* In the application, the queue may hold Ends, and may be full.
LEMMA EndsApplication ==
    ASSUME Intake!IInv, NEW ev \in Intake!Events, Intake!Route(ev, intakeKeys),
           intakeMode = "application", UNCHANGED <<intakeMode, intakeSettled>>
    PROVE  EndsInv'
<1>1. Routing(ev) /\ intakeToValidation' \in Seq(Ids)
  BY RouteIsRouting
<1>2. intakeSettled' \in [Ids -> Nat] /\ intakeKeys' \in Seq(RouterKeys)
  BY <1>1 DEF Routing, Intake!IInv, Intake!TypeOK
<1>3. intakeMode' = "application"
  OBVIOUS
<1>4. Intake!EngineIsDrained'
  BY <1>3 DEF Intake!EngineIsDrained
<1> QED BY <1>1, <1>2, <1>3, <1>4, RoutingKeeps, Zenon
        DEF EndsInv, Intake!EndsSafe, Intake!EndAccountedFor, Total

\* What the DuplicateFilter stops in the engine, the router knows.
LEMMA EndsFiltered ==
    ASSUME Intake!IInv, NEW ev \in Intake!Events, Intake!Route(ev, intakeKeys),
           ~Intake!Valid(ev) \/ ev.kind \in {"Heartbeat", "Connect"} \/ Intake!Duplicate(ev),
           intakeMode = "engine", UNCHANGED <<intakeMode, intakeDupes, intakeSettled>>
    PROVE  EndsInv'
<1>1. /\ Routing(ev) /\ intakeToValidation' \in Seq(Ids)
      /\ ~Intake!NewEnd(ev, intakeKeys) => intakeToValidation' = intakeToValidation
  BY RouteIsRouting
<1>2. intakeSettled' \in [Ids -> Nat] /\ intakeKeys' \in Seq(RouterKeys) /\ intakeMode' = "engine"
  BY <1>1 DEF Routing, Intake!IInv, Intake!TypeOK
<1>3. ASSUME intakeKeyForgot' = {}
      PROVE  /\ intakeToValidation' = <<>> /\ intakeLost' = {}
             /\ \A r \in Ids : <<r, "End", 0>> \in Intake!ToSet(intakeDupes') =>
                  <<r, "End">> \in Intake!ToSet(intakeKeys')
  <2>1. intakeKeyForgot = {} /\ intakeKeyForgot' = intakeKeyForgot \cup Intake!Dropped(intakeKeys, intakeKeys')
    BY <1>1, <1>3 DEF Routing
  <2>2. /\ intakeToValidation = <<>> /\ intakeLost = {}
        /\ \A r \in Ids : <<r, "End", 0>> \in Intake!ToSet(intakeDupes) =>
             <<r, "End">> \in Intake!ToSet(intakeKeys)
    BY <2>1, Zenon DEF Intake!IInv, Intake!EngineIsDrained, Intake!EndsSafe, Intake!EndAccountedFor
  <2>3. ~Intake!NewEnd(ev, intakeKeys)
    <3> SUFFICES ASSUME ev.kind = "End", ev.id # 0
                 PROVE  Intake!RouterKey(ev) \in Intake!ToSet(intakeKeys)
      BY DEF Intake!NewEnd
    <3>1. ev.id \in Ids /\ ev.elapsed = 0 /\ Intake!Valid(ev)
      BY EventFacts
    <3>2. <<ev.id, "End", 0>> \in Intake!ToSet(intakeDupes)
      BY <3>1 DEF Intake!Duplicate, Intake!DupKey
    <3> QED BY <2>2, <3>1, <3>2 DEF Intake!RouterKey
  <2>4. intakeToValidation' = <<>> /\ intakeLost' = {}
    BY <1>1, <2>2, <2>3 DEF Routing
  <2>5. ASSUME NEW r \in Ids, <<r, "End", 0>> \in Intake!ToSet(intakeDupes')
        PROVE  <<r, "End">> \in Intake!ToSet(intakeKeys')
    <3>1. <<r, "End">> \in Intake!ToSet(intakeKeys)
      BY <2>2, <2>5
    <3> QED BY <1>3, <2>1, <3>1, KeyKeptOrForgot
  <2> QED BY <2>4, <2>5
<1>4. Intake!EngineIsDrained'
  BY <1>3, Zenon DEF Intake!EngineIsDrained
<1> QED BY <1>1, <1>2, <1>3, <1>4, RoutingKeeps, Zenon
        DEF EndsInv, Intake!EndsSafe, Intake!EndAccountedFor, Total

\* PipelineLoop::onFrame leaves nothing in the queue, so the next End has room.
LEMMA EndsDrained ==
    ASSUME Intake!IInv, NEW ev \in Intake!Events,
           intakeKeys' = Intake!Routed(ev, Intake!Routed(ev, intakeKeys)),
           intakeKeyForgot' = intakeKeyForgot \cup Intake!Dropped(intakeKeys, intakeKeys'),
           Intake!RouteAndDrain(ev, intakeKeys),
           intakeDupes' = Intake!Remember(intakeDupes, Intake!DupKey(ev), DupCap),
           intakeMode = "engine", UNCHANGED intakeMode
    PROVE  EndsInv'
<1>1. Routing(ev) /\ intakeToValidation' = <<>> /\ intakeSettled' \in [Ids -> Nat]
  BY DrainIsRouting
<1>2. /\ intakeToValidation' \in Seq(Ids) /\ intakeKeys' \in Seq(RouterKeys) /\ intakeMode' = "engine"
  BY <1>1, EmptySeq DEF Routing
<1>3. ASSUME intakeKeyForgot' = {}
      PROVE  /\ intakeLost' = {}
             /\ \A r \in Ids : <<r, "End", 0>> \in Intake!ToSet(intakeDupes') =>
                  <<r, "End">> \in Intake!ToSet(intakeKeys')
  <2>1. intakeKeyForgot = {} /\ intakeKeyForgot' = intakeKeyForgot \cup Intake!Dropped(intakeKeys, intakeKeys')
    BY <1>1, <1>3 DEF Routing
  <2>2. /\ intakeToValidation = <<>> /\ intakeLost = {}
        /\ \A r \in Ids : <<r, "End", 0>> \in Intake!ToSet(intakeDupes) =>
             <<r, "End">> \in Intake!ToSet(intakeKeys)
    BY <2>1, Zenon DEF Intake!IInv, Intake!EngineIsDrained, Intake!EndsSafe, Intake!EndAccountedFor
  <2>3. Room
    BY <2>2, IntakeAssumption, EmptySeq DEF Room
  <2>4. intakeLost' = {}
    BY <1>1, <2>2, <2>3 DEF Routing
  <2>5. Intake!ToSet(intakeDupes') \subseteq Intake!ToSet(intakeDupes) \cup {Intake!DupKey(ev)}
    BY FilterKeeps
  <2>6. ASSUME NEW r \in Ids, <<r, "End", 0>> \in Intake!ToSet(intakeDupes')
        PROVE  <<r, "End">> \in Intake!ToSet(intakeKeys')
    <3>1. CASE <<r, "End", 0>> = Intake!DupKey(ev)
      <4>1. r = ev.id /\ ev.kind = "End" /\ ev.id # 0
        BY <3>1, EventFacts DEF Intake!DupKey
      <4> QED BY <1>1, <4>1 DEF Routing, Intake!RouterKey
    <3>2. CASE <<r, "End", 0>> \in Intake!ToSet(intakeDupes)
      <4>1. <<r, "End">> \in Intake!ToSet(intakeKeys)
        BY <2>2, <3>2
      <4> QED BY <1>3, <2>1, <4>1, KeyKeptOrForgot
    <3> QED BY <2>5, <2>6, <3>1, <3>2
  <2> QED BY <2>4, <2>6
<1>4. Intake!EngineIsDrained'
  BY <1>1, <1>3, Zenon DEF Intake!EngineIsDrained
<1> QED BY <1>1, <1>2, <1>3, <1>4, RoutingKeeps, Zenon
        DEF EndsInv, Intake!EndsSafe, Intake!EndAccountedFor, Total

\* Application::drainQueues: what is settled was waiting.
LEMMA EndsPopped ==
    ASSUME Intake!IInv, Intake!PopValidation PROVE EndsInv'
<1>1. /\ intakeToValidation \in Seq(Ids) /\ intakeToValidation # <<>>
      /\ intakeSettled \in [Ids -> Nat] /\ intakeKeys \in Seq(RouterKeys)
  BY DEF Intake!IInv, Intake!TypeOK, Intake!PopValidation, RouterKeys
<1>2. /\ intakeToValidation' = Tail(intakeToValidation) /\ intakeKeys' = intakeKeys
      /\ intakeSettled' = [intakeSettled EXCEPT ![Head(intakeToValidation)] = @ + 1]
      /\ intakeKeyForgot' = intakeKeyForgot /\ intakeLost' = intakeLost
      /\ intakeMode' = "application"
  BY DEF Intake!PopValidation, Intake!filters
<1>3. Head(intakeToValidation) \in Ids /\ Tail(intakeToValidation) \in Seq(Ids)
  BY <1>1, HeadTailProperties
<1>4. intakeSettled' \in [Ids -> Nat] /\ intakeToValidation' \in Seq(Ids)
  BY <1>1, <1>2, <1>3
<1>5. \A r \in Ids : Total(r)' = Total(r)
  <2> SUFFICES ASSUME NEW r \in Ids PROVE Total(r)' = Total(r)
    OBVIOUS
  <2>1. Intake!Count(intakeToValidation, r) =
            Intake!Count(Tail(intakeToValidation), r) + IF Head(intakeToValidation) = r THEN 1 ELSE 0
    BY <1>1, CountTail
  <2>2. intakeSettled[r] \in Nat /\ Intake!Count(Tail(intakeToValidation), r) \in Nat
    BY <1>1, <1>3, CountFinite
  <2>3. intakeSettled'[r] = intakeSettled[r] + IF Head(intakeToValidation) = r THEN 1 ELSE 0
    BY <1>1, <1>2, <1>3, <2>2
  <2>4. Intake!Count(intakeToValidation', r) = Intake!Count(Tail(intakeToValidation), r)
    BY <1>2
  <2> QED BY <2>1, <2>2, <2>3, <2>4 DEF Total, Intake!Waiting
<1>6. Intake!QueuedIsKnown'
  <2>1. \A r \in Ids : Total(r) > 0 => <<r, "End">> \in Intake!ToSet(intakeKeys) \/ r \in intakeKeyForgot
    BY Zenon DEF Intake!IInv, Intake!QueuedIsKnown, Total
  <2> QED BY <1>2, <1>5, <2>1, Zenon DEF Intake!QueuedIsKnown, Total
<1>7. Intake!EndOnce'
  <2>1. \A r \in Ids : Total(r) > 1 => r \in intakeKeyForgot
    BY Zenon DEF Intake!IInv, Intake!EndsSafe, Intake!EndOnce, Total
  <2> QED BY <1>2, <1>5, <2>1, Zenon DEF Intake!EndOnce, Total
<1>8. Intake!EndAccountedFor'
  <2>1. \A r \in Ids : <<r, "End">> \in Intake!ToSet(intakeKeys) => Total(r) > 0 \/ r \in intakeLost
    BY Zenon DEF Intake!IInv, Intake!EndsSafe, Intake!EndAccountedFor, Total
  <2> QED BY <1>2, <1>5, <2>1, Zenon DEF Intake!EndAccountedFor, Total
<1>9. Intake!EngineIsDrained'
  BY <1>2 DEF Intake!EngineIsDrained
<1> QED BY <1>1, <1>2, <1>4, <1>6, <1>7, <1>8, <1>9 DEF EndsInv, Intake!EndsSafe

\* Every step keeps what is known of the Ends.
LEMMA EndsStep ==
    ASSUME Intake!IInv, [Intake!Next]_(Intake!vars) PROVE EndsInv'
<1> USE DEF Intake!filters, Intake!queues
<1>1. ASSUME NEW ev \in Intake!Events, Intake!FeedFrame(ev) PROVE EndsInv'
  BY <1>1, EndsApplication DEF Intake!FeedFrame
<1>2. ASSUME NEW ev \in Intake!Events, Intake!OnFrame(ev) PROVE EndsInv'
  <2>1. CASE ~Intake!Valid(ev) \/ ev.kind \in {"Heartbeat", "Connect"} \/ Intake!Duplicate(ev)
    BY <1>2, <2>1, EndsSame DEF Intake!OnFrame
  <2>2. CASE ~(~Intake!Valid(ev) \/ ev.kind \in {"Heartbeat", "Connect"} \/ Intake!Duplicate(ev))
    BY <1>2, <2>2, EndsApplication DEF Intake!OnFrame
  <2> QED BY <2>1, <2>2
<1>3. ASSUME NEW ev \in Intake!Events, Intake!ProcessFrame(ev) PROVE EndsInv'
  <2>1. CASE ~Intake!Valid(ev) \/ ev.kind \in {"Heartbeat", "Connect"} \/ Intake!Duplicate(ev)
    BY <1>3, <2>1, EndsFiltered DEF Intake!ProcessFrame
  <2>2. CASE ~(~Intake!Valid(ev) \/ ev.kind \in {"Heartbeat", "Connect"} \/ Intake!Duplicate(ev))
    BY <1>3, <2>2, EndsDrained DEF Intake!ProcessFrame, Intake!Through
  <2> QED BY <2>1, <2>2
<1>4. CASE Intake!DrainPrediction
  BY <1>4, EndsSame DEF Intake!DrainPrediction
<1>5. CASE Intake!PopPrediction
  BY <1>5, EndsSame DEF Intake!PopPrediction
<1>6. ASSUME NEW r \in Ids, Intake!Prune(r) PROVE EndsInv'
  BY <1>6, EndsSame DEF Intake!Prune
<1>7. CASE UNCHANGED Intake!vars
  BY <1>7, EndsSame DEF Intake!vars
<1> QED BY <1>1, <1>2, <1>3, <1>4, <1>5, <1>6, <1>7, EndsPopped DEF Intake!Next

-----------------------------------------------------------------------------
(* The records of the rounds. *)

RoundStates == [phase : {"None", "Prepare", "Begin", "Progress", "End"},
                mult : Nat, final : Nat, sealed : BOOLEAN]

\* What is known of the DuplicateFilter and the RoundStateRegistry.
RoundsInv ==
    /\ intakeDupes \in Seq(FilterKeys)
    /\ intakeRounds \in [Ids -> RoundStates]
    /\ intakeCurrent \in Ids \cup {0}
    /\ intakeFirst \in [Ids -> Mults \cup {-1}]
    /\ Intake!FirstIsKnown /\ Intake!SealedIsFinal

\* The part of the invariant about rounds.
LEMMA RoundsOfIInv == Intake!IInv => RoundsInv
  BY DEF Intake!IInv, Intake!TypeOK, RoundsInv, RoundStates, FilterKeys

\* Steps that leave the DuplicateFilter and the registry alone.
LEMMA RoundsSame ==
    ASSUME Intake!IInv,
           UNCHANGED <<intakeDupes, intakeDupForgot, Intake!state>>
    PROVE  RoundsInv'
<1>1. RoundsInv
  BY RoundsOfIInv
<1>2. /\ intakeDupes' = intakeDupes /\ intakeDupForgot' = intakeDupForgot
      /\ intakeRounds' = intakeRounds /\ intakeCurrent' = intakeCurrent
      /\ intakeFirst' = intakeFirst /\ intakeReopened' = intakeReopened
  BY DEF Intake!state
<1> QED BY <1>1, <1>2, Zenon DEF RoundsInv, Intake!FirstIsKnown, Intake!SealedIsFinal

\* A pruned round is as one that never was.
LEMMA RoundsPruned ==
    ASSUME Intake!IInv, NEW r \in Ids, Intake!Prune(r) PROVE RoundsInv'
<1>1. RoundsInv
  BY RoundsOfIInv
<1>2. /\ intakeDupes' = intakeDupes /\ intakeDupForgot' = intakeDupForgot
      /\ intakeRounds' = [intakeRounds EXCEPT ![r] = Intake!NoRound]
      /\ intakeCurrent' \in {intakeCurrent, 0}
      /\ intakeFirst' = intakeFirst /\ intakeReopened' = intakeReopened
  BY DEF Intake!Prune, Intake!filters
<1>3. Intake!NoRound \in RoundStates /\ Intake!NoRound.sealed = FALSE
  BY DEF Intake!NoRound, RoundStates
<1>4. /\ intakeRounds' \in [Ids -> RoundStates]
      /\ \A s \in Ids : intakeRounds'[s] = IF s = r THEN Intake!NoRound ELSE intakeRounds[s]
  BY <1>1, <1>2, <1>3 DEF RoundsInv
<1>5. Intake!FirstIsKnown'
  BY <1>1, <1>2, <1>3, <1>4 DEF RoundsInv, Intake!FirstIsKnown
<1>6. Intake!SealedIsFinal'
  BY <1>1, <1>2, <1>3, <1>4 DEF RoundsInv, Intake!SealedIsFinal
<1> QED BY <1>1, <1>2, <1>4, <1>5, <1>6 DEF RoundsInv

\* RoundStateRegistry::apply: an End seals a round with its crash point, and a
\* sealed round is changed by nothing but an End or a new start.
LEMMA AppliedTo ==
    ASSUME NEW ev \in Intake!Events, NEW key, NEW st \in RoundStates
    PROVE  /\ Intake!ApplyTo(ev, key, st) \in RoundStates
           /\ ev.kind = "End" =>
                /\ Intake!ApplyTo(ev, key, st).sealed
                /\ Intake!ApplyTo(ev, key, st).final = ev.mult
                /\ Intake!ApplyTo(ev, key, st).mult = ev.mult
           /\ ev.kind # "End" /\ Intake!ApplyTo(ev, key, st).sealed =>
                Intake!ApplyTo(ev, key, st) = st
<1>1. ev.mult \in Nat /\ ev.elapsed \in Nat /\ ev.kind \in Intake!Kinds
  BY EventFacts
<1>2. CASE ev.kind = "Prepare"
  <2>1. Intake!ApplyTo(ev, key, st) = [Intake!NoRound EXCEPT !.phase = "Prepare"]
    BY <1>2 DEF Intake!ApplyTo
  <2>2. Intake!ApplyTo(ev, key, st) = [phase |-> "Prepare", mult |-> 0, final |-> 0, sealed |-> FALSE]
    BY <2>1 DEF Intake!NoRound
  <2>3. Intake!ApplyTo(ev, key, st) \in RoundStates /\ Intake!ApplyTo(ev, key, st).sealed = FALSE
    BY <2>2 DEF RoundStates
  <2> QED BY <1>2, <2>3
<1>3. CASE ev.kind = "Start"
  <2>1. Intake!ApplyTo(ev, key, st) = [st EXCEPT !.phase = "Begin", !.sealed = FALSE]
    BY <1>3 DEF Intake!ApplyTo
  <2> QED BY <1>3, <2>1 DEF RoundStates
<1>4. CASE ev.kind = "Progress" /\ ~st.sealed
  <2>1. Intake!ApplyTo(ev, key, st) = [st EXCEPT !.phase = "Progress", !.mult = ev.elapsed]
    BY <1>4 DEF Intake!ApplyTo
  <2> QED BY <1>1, <1>4, <2>1 DEF RoundStates
<1>5. CASE ev.kind = "End"
  <2>1. Intake!ApplyTo(ev, key, st) = [phase |-> "End", mult |-> ev.mult, final |-> ev.mult, sealed |-> TRUE]
    BY <1>5 DEF Intake!ApplyTo
  <2> QED BY <1>1, <1>5, <2>1 DEF RoundStates
<1>6. CASE ev.kind \notin {"Prepare", "Start", "End"} /\ ~(ev.kind = "Progress" /\ ~st.sealed)
  <2>1. Intake!ApplyTo(ev, key, st) = st
    BY <1>6 DEF Intake!ApplyTo
  <2> QED BY <1>6, <2>1
<1> QED BY <1>2, <1>3, <1>4, <1>5, <1>6

\* An event the DuplicateFilter let through.
LEMMA RoundsThrough ==
    ASSUME Intake!IInv, NEW ev \in Intake!Events, ~Intake!Duplicate(ev), Intake!Through(ev)
    PROVE  RoundsInv'
<1>1. RoundsInv /\ Mults \subseteq Nat
  BY RoundsOfIInv, IntakeAssumption
<1>2. /\ intakeDupes' \in Seq(FilterKeys)
      /\ Intake!DupKey(ev) \in Intake!ToSet(intakeDupes')
      /\ intakeDupForgot' = intakeDupForgot \cup Intake!Dropped(intakeDupes, intakeDupes')
      /\ Intake!Apply(ev)
  BY FilterKeeps DEF Intake!Through
<1>3. ASSUME NEW r \in Ids, intakeFirst[r] # -1
      PROVE  <<r, "End", 0>> \in Intake!ToSet(intakeDupes') \/ r \in intakeDupForgot'
  <2>1. CASE r \in intakeDupForgot
    BY <1>2, <2>1
  <2>2. CASE <<r, "End", 0>> \in Intake!ToSet(intakeDupes) \ Intake!ToSet(intakeDupes')
    <3>1. <<r, "End", 0>> \in {x \in Intake!ToSet(intakeDupes) \ Intake!ToSet(intakeDupes') : x[2] = "End"}
      BY <2>2
    <3>2. <<r, "End", 0>>[1] = r
      OBVIOUS
    <3>3. r \in Intake!Dropped(intakeDupes, intakeDupes')
      BY <3>1, <3>2 DEF Intake!Dropped
    <3> QED BY <1>2, <3>3
  <2> QED BY <1>1, <1>3, <2>1, <2>2 DEF RoundsInv, Intake!FirstIsKnown
<1> DEFINE key == IF ev.id # 0 THEN ev.id ELSE IF ev.kind = "Progress" THEN intakeCurrent ELSE 0
<1>4. CASE key = 0
  <2>1. /\ intakeRounds' = intakeRounds /\ intakeCurrent' = intakeCurrent
        /\ intakeFirst' = intakeFirst /\ intakeReopened' = intakeReopened
    BY <1>2, <1>4 DEF Intake!Apply, Intake!state
  <2>2. Intake!FirstIsKnown'
    BY <1>1, <1>3, <2>1 DEF RoundsInv, Intake!FirstIsKnown
  <2>3. Intake!SealedIsFinal'
    BY <1>1, <1>2, <2>1 DEF RoundsInv, Intake!SealedIsFinal
  <2> QED BY <1>1, <1>2, <2>1, <2>2, <2>3 DEF RoundsInv
<1>5. CASE key # 0
  <2>1. /\ key \in Ids /\ key \in Ids \cup {0}
        /\ ev.kind = "End" => ev.id = key /\ ev.mult \in Mults /\ ev.elapsed = 0
    BY <1>1, <1>5, EventFacts DEF RoundsInv
  <2>2. /\ intakeRounds' = [intakeRounds EXCEPT ![key] = Intake!ApplyTo(ev, key, @)]
        /\ intakeCurrent' = IF ev.kind \in {"Prepare", "Start"} THEN key ELSE intakeCurrent
        /\ intakeFirst' = IF ev.kind = "End" /\ intakeFirst[key] = -1
                          THEN [intakeFirst EXCEPT ![key] = ev.mult] ELSE intakeFirst
        /\ intakeReopened \subseteq intakeReopened'
    BY <1>2, <1>5 DEF Intake!Apply
  <2> HIDE DEF key
  <2> DEFINE st == intakeRounds[key]
             new == Intake!ApplyTo(ev, key, st)
  <2>3. /\ new \in RoundStates
        /\ ev.kind = "End" => new.sealed /\ new.final = ev.mult /\ new.mult = ev.mult
        /\ ev.kind # "End" /\ new.sealed => new = st
    BY <1>1, <2>1, AppliedTo DEF RoundsInv
  <2>4. /\ intakeRounds' \in [Ids -> RoundStates]
        /\ \A r \in Ids : intakeRounds'[r] = IF r = key THEN new ELSE intakeRounds[r]
    BY <1>1, <2>1, <2>2, <2>3 DEF RoundsInv
  <2> HIDE DEF new
  <2>5. /\ intakeFirst' \in [Ids -> Mults \cup {-1}]
        /\ \A r \in Ids : r # key => intakeFirst'[r] = intakeFirst[r]
        /\ ev.kind # "End" => intakeFirst'[key] = intakeFirst[key]
        /\ ev.kind = "End" => intakeFirst'[key] = IF intakeFirst[key] = -1 THEN ev.mult ELSE intakeFirst[key]
    BY <1>1, <2>1, <2>2 DEF RoundsInv
  <2>6. ev.kind = "End" => Intake!DupKey(ev) = <<key, "End", 0>> /\ ev.mult # -1
    BY <1>1, <2>1 DEF Intake!DupKey
  <2>7. Intake!FirstIsKnown'
    <3> SUFFICES ASSUME NEW r \in Ids
                 PROVE  /\ intakeFirst'[r] # -1 => <<r, "End", 0>> \in Intake!ToSet(intakeDupes') \/ r \in intakeDupForgot'
                        /\ intakeRounds'[r].sealed => intakeFirst'[r] # -1
      BY DEF Intake!FirstIsKnown
    <3>1. CASE r = key /\ ev.kind = "End"
      BY <1>2, <2>4, <2>5, <2>6, <3>1
    <3>2. CASE ~(r = key /\ ev.kind = "End")
      <4>1. intakeFirst'[r] = intakeFirst[r]
        BY <2>5, <3>2
      <4>2. intakeRounds'[r].sealed => intakeRounds[r].sealed
        BY <2>3, <2>4, <3>2
      <4> QED BY <1>1, <1>3, <4>1, <4>2 DEF RoundsInv, Intake!FirstIsKnown
    <3> QED BY <3>1, <3>2
  <2>8. Intake!SealedIsFinal'
    <3> SUFFICES ASSUME NEW r \in Ids, intakeRounds'[r].sealed,
                        r \notin intakeReopened', r \notin intakeDupForgot'
                 PROVE  intakeRounds'[r].final = intakeFirst'[r] /\ intakeRounds'[r].mult = intakeFirst'[r]
      BY DEF Intake!SealedIsFinal
    <3>1. r \notin intakeReopened \cup intakeDupForgot
      BY <1>2, <2>2
    <3>2. CASE r = key /\ ev.kind = "End"
      <4>1. intakeFirst[key] = -1
        <5>1. <<key, "End", 0>> \notin Intake!ToSet(intakeDupes)
          BY <2>6, <3>2 DEF Intake!Duplicate
        <5> QED BY <1>1, <2>1, <3>1, <3>2, <5>1 DEF RoundsInv, Intake!FirstIsKnown
      <4> QED BY <2>3, <2>4, <2>5, <3>2, <4>1
    <3>3. CASE ~(r = key /\ ev.kind = "End")
      <4>1. intakeFirst'[r] = intakeFirst[r]
        BY <2>5, <3>3
      <4>2. intakeRounds'[r] = intakeRounds[r]
        BY <2>3, <2>4, <3>3
      <4> QED BY <1>1, <3>1, <4>1, <4>2 DEF RoundsInv, Intake!SealedIsFinal
    <3> QED BY <3>2, <3>3
  <2>9. intakeCurrent' \in Ids \cup {0}
    BY <1>1, <2>1, <2>2 DEF RoundsInv
  <2> QED BY <1>2, <2>4, <2>5, <2>7, <2>8, <2>9 DEF RoundsInv
<1> QED BY <1>4, <1>5

-----------------------------------------------------------------------------
(* The streaks. *)

\* What is known of the CrashStatsAccumulator.
StreaksInv ==
    /\ intakeValues \in Seq(Nat)
    /\ intakeStreak \in [kind : {"None", "Low", "High"}, count : Nat, maxLow : Nat, maxHigh : Nat]
    /\ intakeValues = <<>> => intakeStreak.kind = "None"
    /\ Intake!StreaksAgree

\* Steps that leave the statistics alone.
LEMMA StreaksSame ==
    ASSUME StreaksInv, UNCHANGED Intake!stats PROVE StreaksInv'
<1>1. intakeValues' = intakeValues /\ intakeStreak' = intakeStreak
  BY DEF Intake!stats
<1> QED BY <1>1, Zenon
        DEF StreaksInv, Intake!StreaksAgree, Intake!Longest, Intake!Current, Intake!Runs, Intake!Run

\* A longest run of one kind, when a value is added that ends a run of c.
LEMMA LongestGrows ==
    ASSUME StreaksInv, NEW n \in Nat, n = Len(intakeValues),
           NEW m \in Nat, intakeValues' = Append(intakeValues, m),
           NEW kind, NEW max \in Nat, NEW c \in Nat \ {0}, Intake!Longest(kind, max),
           Intake!Kind(m) = kind =>
             /\ \A i \in 1 .. n + 1 : Intake!Run(i, n + 1, kind)' => n + 2 - i <= c
             /\ c <= n + 1
             /\ Intake!Run(n + 2 - c, n + 1, kind)',
           NEW best, best = IF Intake!Kind(m) = kind /\ c > max THEN c ELSE max
    PROVE  Intake!Longest(kind, best)'
<1>1. /\ DOMAIN intakeValues = 1 .. n /\ DOMAIN intakeValues' = 1 .. n + 1
      /\ \A k \in 1 .. n : intakeValues'[k] = intakeValues[k]
      /\ intakeValues'[n + 1] = m
  BY AppendProperties, LenProperties DEF StreaksInv
<1>2. \A i, j \in 1 .. n : Intake!Run(i, j, kind)' <=> Intake!Run(i, j, kind)
  BY <1>1 DEF Intake!Run
<1>3. best \in Nat /\ max <= best /\ (Intake!Kind(m) = kind => c <= best)
  OBVIOUS
<1>4. \A i \in 1 .. n + 1 : Intake!Run(i, n + 1, kind)' => Intake!Kind(m) = kind
  <2> SUFFICES ASSUME NEW i \in 1 .. n + 1, Intake!Run(i, n + 1, kind)'
               PROVE  Intake!Kind(m) = kind
    OBVIOUS
  <2>1. n + 1 \in i .. n + 1
    OBVIOUS
  <2> QED BY <1>1, <2>1 DEF Intake!Run
<1>5. ASSUME NEW i \in 1 .. n + 1, NEW j \in 1 .. n + 1, i <= j, Intake!Run(i, j, kind)'
      PROVE  j - i + 1 <= best
  <2>1. CASE j = n + 1
    <3>1. Intake!Kind(m) = kind
      BY <1>4, <1>5, <2>1
    <3>2. n + 2 - i <= c
      BY <1>5, <2>1, <3>1
    <3> QED BY <1>3, <2>1, <3>1, <3>2
  <2>2. CASE j # n + 1
    <3>1. i \in 1 .. n /\ j \in 1 .. n
      BY <1>5, <2>2
    <3>2. Intake!Run(i, j, kind)
      BY <1>2, <1>5, <3>1
    <3>3. <<i, j>> \in Intake!Runs(kind)
      BY <1>1, <1>5, <3>1, <3>2 DEF Intake!Runs
    <3>4. j - i + 1 <= max
      BY <3>3 DEF Intake!Longest
    <3> QED BY <1>3, <3>1, <3>4
  <2> QED BY <2>1, <2>2
<1>6. ASSUME best # 0
      PROVE  \E i, j \in 1 .. n + 1 : i <= j /\ Intake!Run(i, j, kind)' /\ j - i + 1 = best
  <2>1. CASE Intake!Kind(m) = kind /\ c > max
    <3>1. /\ best = c /\ n + 2 - c \in 1 .. n + 1 /\ n + 1 \in 1 .. n + 1
          /\ Intake!Run(n + 2 - c, n + 1, kind)'
      BY <2>1
    <3>2. n + 2 - c <= n + 1 /\ (n + 1) - (n + 2 - c) + 1 = c
      OBVIOUS
    <3> USE <3>1
    <3> WITNESS n + 2 - c \in 1 .. n + 1, n + 1 \in 1 .. n + 1
    <3> QED BY <3>1, <3>2
  <2>2. CASE ~(Intake!Kind(m) = kind /\ c > max)
    <3>1. best = max
      BY <2>2
    <3>2. PICK p \in Intake!Runs(kind) : p[2] - p[1] + 1 = max
      BY <1>6, <3>1 DEF Intake!Longest
    <3>3. p[1] \in 1 .. n /\ p[2] \in 1 .. n /\ p[1] <= p[2] /\ Intake!Run(p[1], p[2], kind)
      BY <1>1, <3>2 DEF Intake!Runs
    <3>4. Intake!Run(p[1], p[2], kind)' /\ p[1] \in 1 .. n + 1 /\ p[2] \in 1 .. n + 1
      BY <1>2, <3>3
    <3> QED BY <3>1, <3>2, <3>3, <3>4
  <2> QED BY <2>1, <2>2
<1>7. ASSUME NEW p \in Intake!Runs(kind)' PROVE p[2] - p[1] + 1 <= best
  <2>1. p[1] \in 1 .. n + 1 /\ p[2] \in 1 .. n + 1 /\ p[1] <= p[2] /\ Intake!Run(p[1], p[2], kind)'
    BY <1>1, <1>7 DEF Intake!Runs
  <2> QED BY <1>5, <2>1
<1>8. ASSUME best # 0 PROVE \E p \in Intake!Runs(kind)' : p[2] - p[1] + 1 = best
  <2>1. PICK i \in 1 .. n + 1, j \in 1 .. n + 1 :
            i <= j /\ Intake!Run(i, j, kind)' /\ j - i + 1 = best
    BY <1>6, <1>8
  <2>2. <<i, j>> \in Intake!Runs(kind)'
    BY <1>1, <2>1 DEF Intake!Runs
  <2> QED BY <2>1, <2>2
<1> QED BY <1>7, <1>8 DEF Intake!Longest

\* CrashStatsAccumulator::addRound.
LEMMA StreaksGrow ==
    ASSUME StreaksInv, NEW m \in Nat, intakeValues' = Append(intakeValues, m),
           intakeStreak' = Intake!NextStreak(m)
    PROVE  StreaksInv'
<1>1. PICK n \in Nat : n = Len(intakeValues)
  BY LenProperties DEF StreaksInv
<1>2. PICK sk \in {"None", "Low", "High"}, sc \in Nat, low \in Nat, high \in Nat :
        /\ intakeStreak.kind = sk /\ intakeStreak.count = sc
        /\ intakeStreak.maxLow = low /\ intakeStreak.maxHigh = high
  BY DEF StreaksInv
<1>3. PICK kind \in {"Low", "High"} : kind = Intake!Kind(m)
  BY DEF Intake!Kind
<1>4. PICK c \in Nat \ {0} : c = IF sk = kind THEN sc + 1 ELSE 1
  OBVIOUS
<1>5. PICK low1 \in Nat, high1 \in Nat :
        /\ low1 = IF kind = "Low" /\ c > low THEN c ELSE low
        /\ high1 = IF kind = "High" /\ c > high THEN c ELSE high
  OBVIOUS
<1>6. intakeStreak' = [kind |-> kind, count |-> c, maxLow |-> low1, maxHigh |-> high1]
  BY <1>2, <1>3, <1>4, <1>5 DEF Intake!NextStreak
<1>7. /\ DOMAIN intakeValues = 1 .. n /\ DOMAIN intakeValues' = 1 .. n + 1
      /\ \A k \in 1 .. n : intakeValues'[k] = intakeValues[k]
      /\ intakeValues'[n + 1] = m /\ Len(intakeValues') = n + 1
      /\ intakeValues' \in Seq(Nat) /\ intakeValues' # <<>>
      /\ intakeValues = <<>> <=> n = 0
  BY <1>1, AppendProperties, LenProperties, EmptySeq DEF StreaksInv
<1>8. n # 0 => sc \in 1 .. n
  BY <1>1, <1>2, <1>7 DEF StreaksInv, Intake!StreaksAgree, Intake!Current
<1>9. n # 0 => /\ \A k \in n - sc + 1 .. n : Intake!Kind(intakeValues[k]) = sk
               /\ sc = n \/ Intake!Kind(intakeValues[n - sc]) # sk
  BY <1>1, <1>2, <1>7 DEF StreaksInv, Intake!StreaksAgree, Intake!Current, Intake!Run
<1>10. n = 0 => sk = "None"
  BY <1>2, <1>7 DEF StreaksInv
<1>11. c <= n + 1
  BY <1>4, <1>8, <1>10
<1>12. ASSUME NEW k \in n + 2 - c .. n + 1 PROVE Intake!Kind(intakeValues'[k]) = kind
  <2>1. CASE k = n + 1
    BY <1>3, <1>7, <2>1
  <2>2. CASE k # n + 1
    <3>1. sk = kind /\ n # 0 /\ c = sc + 1
      BY <1>4, <1>10, <2>2
    <3>2. k \in n - sc + 1 .. n /\ k \in 1 .. n
      BY <1>8, <2>2, <3>1
    <3> QED BY <1>7, <1>9, <3>1, <3>2
  <2> QED BY <2>1, <2>2
<1>13. c = n + 1 \/ Intake!Kind(intakeValues'[n + 1 - c]) # kind
  <2>1. CASE sk = kind
    <3>1. n # 0 /\ c = sc + 1
      BY <1>4, <1>10, <2>1
    <3>2. CASE sc = n
      BY <3>1, <3>2
    <3>3. CASE sc # n
      <4>1. n + 1 - c = n - sc /\ n - sc \in 1 .. n
        BY <1>8, <3>1, <3>3
      <4> QED BY <1>7, <1>9, <2>1, <3>1, <3>3, <4>1
    <3> QED BY <3>2, <3>3
  <2>2. CASE sk # kind /\ n # 0
    <3>1. n + 1 - c = n /\ n \in 1 .. n /\ n \in n - sc + 1 .. n
      BY <1>4, <1>8, <2>2
    <3> QED BY <1>7, <1>9, <2>2, <3>1
  <2>3. CASE sk # kind /\ n = 0
    BY <1>4, <2>3
  <2> QED BY <2>1, <2>2, <2>3
<1>14. ASSUME NEW i \in 1 .. n + 1, \A k \in i .. n + 1 : Intake!Kind(intakeValues'[k]) = kind
       PROVE  n + 2 - i <= c
  <2> SUFFICES ASSUME ~(n + 2 - i <= c) PROVE FALSE
    OBVIOUS
  <2>1. n + 1 - c \in i .. n + 1 /\ c # n + 1
    OBVIOUS
  <2> QED BY <1>13, <1>14, <2>1
<1>15. /\ \A i \in 1 .. n + 1 : Intake!Run(i, n + 1, kind)' => n + 2 - i <= c
       /\ Intake!Run(n + 2 - c, n + 1, kind)'
  BY <1>12, <1>14 DEF Intake!Run
<1>16. Intake!Longest("Low", low1)'
  <2>1. Intake!Longest("Low", low)
    BY <1>2 DEF StreaksInv, Intake!StreaksAgree
  <2> QED BY <1>1, <1>3, <1>5, <1>11, <1>15, <2>1, LongestGrows
<1>17. Intake!Longest("High", high1)'
  <2>1. Intake!Longest("High", high)
    BY <1>2 DEF StreaksInv, Intake!StreaksAgree
  <2> QED BY <1>1, <1>3, <1>5, <1>11, <1>15, <2>1, LongestGrows
<1>18. Intake!Current(c)'
  <2>1. c \in 1 .. n + 1 /\ (n + 1) - c + 1 = n + 2 - c
    BY <1>11
  <2> QED BY <1>6, <1>7, <1>13, <1>15, <2>1 DEF Intake!Current
<1>19. Intake!StreaksAgree'
  <2>1. intakeStreak'.maxLow = low1 /\ intakeStreak'.maxHigh = high1 /\ intakeStreak'.count = c
    BY <1>6
  <2> QED BY <1>16, <1>17, <1>18, <2>1, Zenon DEF Intake!StreaksAgree
<1>20. intakeStreak' \in [kind : {"None", "Low", "High"}, count : Nat, maxLow : Nat, maxHigh : Nat]
  BY <1>6
<1> QED BY <1>7, <1>19, <1>20 DEF StreaksInv

-----------------------------------------------------------------------------

\* The three parts make up the inductive invariant.
LEMMA IntakeParts == Intake!IInv <=> EndsInv /\ RoundsInv /\ StreaksInv
  BY Zenon DEF Intake!IInv, Intake!TypeOK, EndsInv, RoundsInv, StreaksInv, RouterKeys, FilterKeys,
     RoundStates

\* Every step keeps what is known of the rounds.
LEMMA RoundsStep ==
    ASSUME Intake!IInv, [Intake!Next]_(Intake!vars) PROVE RoundsInv'
<1> USE DEF Intake!filters
<1>1. ASSUME NEW ev \in Intake!Events, Intake!FeedFrame(ev) PROVE RoundsInv'
  BY <1>1, RoundsSame DEF Intake!FeedFrame
<1>2. ASSUME NEW ev \in Intake!Events, Intake!OnFrame(ev) PROVE RoundsInv'
  <2>1. CASE ~Intake!Valid(ev) \/ ev.kind \in {"Heartbeat", "Connect"} \/ Intake!Duplicate(ev)
    BY <1>2, <2>1, RoundsSame DEF Intake!OnFrame
  <2>2. CASE ~(~Intake!Valid(ev) \/ ev.kind \in {"Heartbeat", "Connect"} \/ Intake!Duplicate(ev))
    BY <1>2, <2>2, RoundsThrough DEF Intake!OnFrame
  <2> QED BY <2>1, <2>2
<1>3. ASSUME NEW ev \in Intake!Events, Intake!ProcessFrame(ev) PROVE RoundsInv'
  <2>1. CASE ~Intake!Valid(ev) \/ ev.kind \in {"Heartbeat", "Connect"} \/ Intake!Duplicate(ev)
    BY <1>3, <2>1, RoundsSame DEF Intake!ProcessFrame
  <2>2. CASE ~(~Intake!Valid(ev) \/ ev.kind \in {"Heartbeat", "Connect"} \/ Intake!Duplicate(ev))
    BY <1>3, <2>2, RoundsThrough DEF Intake!ProcessFrame
  <2> QED BY <2>1, <2>2
<1>4. CASE Intake!PopValidation
  BY <1>4, RoundsSame DEF Intake!PopValidation
<1>5. CASE Intake!DrainPrediction
  BY <1>5, RoundsSame DEF Intake!DrainPrediction
<1>6. CASE Intake!PopPrediction
  BY <1>6, RoundsSame DEF Intake!PopPrediction
<1>7. CASE UNCHANGED Intake!vars
  BY <1>7, RoundsSame DEF Intake!vars
<1> QED BY <1>1, <1>2, <1>3, <1>4, <1>5, <1>6, <1>7, RoundsPruned DEF Intake!Next

\* Every step keeps what is known of the streaks.
LEMMA StreaksStep ==
    ASSUME Intake!IInv, [Intake!Next]_(Intake!vars) PROVE StreaksInv'
<1>1. StreaksInv
  BY IntakeParts
<1>2. ASSUME NEW ev \in Intake!Events, Intake!AddRound(ev) PROVE StreaksInv'
  BY <1>1, <1>2, EventFacts, StreaksSame, StreaksGrow DEF Intake!AddRound
<1>3. ASSUME NEW ev \in Intake!Events, Intake!FeedFrame(ev) PROVE StreaksInv'
  BY <1>1, <1>3, StreaksSame DEF Intake!FeedFrame
<1>4. ASSUME NEW ev \in Intake!Events, Intake!OnFrame(ev) PROVE StreaksInv'
  BY <1>1, <1>2, <1>4, StreaksSame DEF Intake!OnFrame, Intake!Through
<1>5. ASSUME NEW ev \in Intake!Events, Intake!ProcessFrame(ev) PROVE StreaksInv'
  BY <1>1, <1>2, <1>5, StreaksSame DEF Intake!ProcessFrame, Intake!Through
<1>6. CASE Intake!PopValidation
  BY <1>1, <1>6, StreaksSame DEF Intake!PopValidation
<1>7. CASE Intake!DrainPrediction
  BY <1>1, <1>7, StreaksSame DEF Intake!DrainPrediction
<1>8. CASE Intake!PopPrediction
  BY <1>1, <1>8, StreaksSame DEF Intake!PopPrediction
<1>9. ASSUME NEW r \in Ids, Intake!Prune(r) PROVE StreaksInv'
  BY <1>1, <1>9, StreaksSame DEF Intake!Prune
<1>10. CASE UNCHANGED Intake!vars
  BY <1>1, <1>10, StreaksSame DEF Intake!vars
<1> QED BY <1>3, <1>4, <1>5, <1>6, <1>7, <1>8, <1>9, <1>10 DEF Intake!Next

\* The inductive invariant holds at the start.
LEMMA IntakeStart == Intake!Init => Intake!IInv
<1> SUFFICES ASSUME Intake!Init PROVE EndsInv /\ RoundsInv /\ StreaksInv
  BY IntakeParts
<1>1. /\ intakeMode \in {"engine", "application"}
      /\ intakeDupes = <<>> /\ intakeKeys = <<>> /\ intakeToValidation = <<>>
      /\ intakeValues = <<>>
      /\ intakeSettled = [r \in Ids |-> 0] /\ intakeLost = {} /\ intakeKeyForgot = {}
      /\ intakeRounds = [r \in Ids |-> Intake!NoRound] /\ intakeCurrent = 0
      /\ intakeFirst = [r \in Ids |-> -1]
      /\ intakeStreak = [kind |-> "None", count |-> 0, maxLow |-> 0, maxHigh |-> 0]
  BY DEF Intake!Init
<1>2. \A x : x \notin Intake!ToSet(<<>>)
  BY DEF Intake!ToSet
<1>3. EndsInv
  <2>1. \A r \in Ids : intakeSettled[r] + Intake!Waiting(r) = 0
    BY <1>1, CountEmpty DEF Intake!Waiting
  <2>2. Intake!QueuedIsKnown /\ Intake!EndOnce
    BY <2>1 DEF Intake!QueuedIsKnown, Intake!EndOnce
  <2>3. Intake!EngineIsDrained /\ Intake!EndAccountedFor
    BY <1>1, <1>2 DEF Intake!EngineIsDrained, Intake!EndAccountedFor
  <2>4. intakeKeys \in Seq(RouterKeys) /\ intakeToValidation \in Seq(Ids)
    BY <1>1, EmptySeq
  <2>5. intakeSettled \in [Ids -> Nat]
    BY <1>1
  <2> QED BY <1>1, <2>2, <2>3, <2>4, <2>5 DEF EndsInv, Intake!EndsSafe
<1>4. RoundsInv
  <2>1. Intake!NoRound \in RoundStates /\ Intake!NoRound.sealed = FALSE
    BY DEF Intake!NoRound, RoundStates
  <2>2. /\ intakeRounds \in [Ids -> RoundStates] /\ intakeFirst \in [Ids -> Mults \cup {-1}]
        /\ \A r \in Ids : intakeRounds[r].sealed = FALSE /\ intakeFirst[r] = -1
    BY <1>1, <2>1
  <2>3. intakeDupes \in Seq(FilterKeys)
    BY <1>1, EmptySeq
  <2> QED BY <1>1, <2>2, <2>3 DEF RoundsInv, Intake!FirstIsKnown, Intake!SealedIsFinal
<1>5. StreaksInv
  <2>1. intakeValues \in Seq(Nat) /\ DOMAIN intakeValues = {}
    BY <1>1, EmptySeq
  <2>2. \A kind : Intake!Runs(kind) = {}
    BY <2>1 DEF Intake!Runs
  <2>3. Intake!StreaksAgree
    BY <1>1, <2>2 DEF Intake!StreaksAgree, Intake!Longest
  <2> QED BY <1>1, <2>1, <2>3 DEF StreaksInv
<1> QED BY <1>3, <1>4, <1>5

\* The inductive invariant holds in every state of the intake.
LEMMA IntakeInvariant == Intake!Spec => []Intake!IInv
<1>1. Intake!IInv /\ [Intake!Next]_(Intake!vars) => Intake!IInv'
  <2> SUFFICES ASSUME Intake!IInv, [Intake!Next]_(Intake!vars) PROVE Intake!IInv'
    OBVIOUS
  <2>1. EndsInv' /\ RoundsInv' /\ StreaksInv'
    BY EndsStep, RoundsStep, StreaksStep
  <2> QED BY <2>1, IntakeParts, PTL
<1> QED BY <1>1, IntakeStart, PTL DEF Intake!Spec

\* The End of a round is settled once although the engine routes it twice and
\* the application gets it by two ways, as long as the router remembers its
\* key, and none is lost but to a full queue, for any capacities of the filter,
\* the router and the queue (event_router.hpp:43-76, pipeline_loop.hpp:107-139).
THEOREM EndsAreSafe == Intake!Spec => []EndsSafe
<1>1. Intake!IInv => EndsSafe
  BY DEF Intake!IInv, EndsSafe
<1> QED BY <1>1, IntakeInvariant, PTL

\* The crash point of a sealed round is that of its first End, unless it was
\* started again or its End forgotten, and the streaks are the longest runs
\* and the last run of the crash points recorded
\* (round_state.hpp:86-110, duplicate_filter.hpp:21-37, stats.hpp:70-79).
THEOREM RecordsAreKept == Intake!Spec => []RecordsKept
<1>1. Intake!IInv => RecordsKept
  BY DEF Intake!IInv, RecordsKept, Intake!RecordsKept
<1> QED BY <1>1, IntakeInvariant, PTL
=============================================================================
