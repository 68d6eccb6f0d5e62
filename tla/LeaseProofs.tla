---------------------------- MODULE LeaseProofs -----------------------------
(***************************************************************************)
(* Proofs about LeaseSupervisor, for any set of workers and any limits     *)
(* that satisfy its assumptions, and about the two components that MCLease *)
(* takes beside it: the readiness barrier (Barrier), for any events,       *)
(* threads and buffer, and the ordered start and stop (Orch), for any      *)
(* components and orders.                                                  *)
(***************************************************************************)
EXTENDS MCLease, TLAPS, SequenceTheorems

USE DEF lease, vars

-----------------------------------------------------------------------------

LEMMA InitType == Init => TypeOK
  BY IntervalAssumption, BoundAssumption, SMT DEF Init, TypeOK, Steps

LEMMA TypeStep == TypeOK /\ [Next]_vars => TypeOK'
<1> SUFFICES ASSUME TypeOK, [Next]_vars PROVE TypeOK'
  OBVIOUS
<1> USE IntervalAssumption, BoundAssumption DEF TypeOK, Steps
<1>1. ASSUME NEW w \in Workers, AcquireUpsert(w) PROVE TypeOK'
  BY <1>1 DEF AcquireUpsert
<1>2. ASSUME NEW w \in Workers, AcquireFails(w) PROVE TypeOK'
  BY <1>2 DEF AcquireFails, Acquired, Fault
<1>3. ASSUME NEW w \in Workers, AcquireReadBack(w) PROVE TypeOK'
  BY <1>3 DEF AcquireReadBack, Acquired, Acquiring, Fault, ReadEpoch
<1>4. ASSUME NEW w \in Workers, StopRenewLoop(w) PROVE TypeOK'
  BY <1>4 DEF StopRenewLoop
<1>5. ASSUME NEW w \in Workers, ReleaseDelete(w) PROVE TypeOK'
  BY <1>5 DEF ReleaseDelete, Fault
<1>6. ASSUME NEW w \in Workers, ReleaseLose(w) PROVE TypeOK'
  BY <1>6 DEF ReleaseLose
<1>7. ASSUME NEW w \in Workers, SkipRenew(w) PROVE TypeOK'
  BY <1>7 DEF SkipRenew, Sleeps, Wakes
<1>8. ASSUME NEW w \in Workers, RenewUpdate(w) PROVE TypeOK'
  BY <1>8 DEF RenewUpdate, Wakes
<1>9. ASSUME NEW w \in Workers, RenewVerify(w) PROVE TypeOK'
  BY <1>9 DEF RenewVerify, Sleeps, Verified
<1>10. ASSUME NEW w \in Workers, RenewFails(w) PROVE TypeOK'
  BY <1>10 DEF RenewFails, Sleeps, Fault, Wakes
<1>11. ASSUME NEW w \in Workers, Crash(w) PROVE TypeOK'
  BY <1>11 DEF Crash
<1>12. CASE Tick
  BY <1>12 DEF Tick
<1>13. CASE UNCHANGED vars
  BY <1>13
<1> QED
  BY <1>1, <1>2, <1>3, <1>4, <1>5, <1>6, <1>7, <1>8, <1>9, <1>10, <1>11, <1>12, <1>13
     DEF Next, Main, Renewer

\* The type invariant holds in every reachable state; in particular a worker
\* that releases its lease has joined its renew thread.
THEOREM TypeCorrect == Spec => []TypeOK
  BY InitType, TypeStep, PTL DEF Spec

-----------------------------------------------------------------------------

LEMMA EpochStep == TypeOK /\ OwnerKnowsEpoch /\ [Next]_vars => OwnerKnowsEpoch'
<1> SUFFICES ASSUME TypeOK, OwnerKnowsEpoch, [Next]_vars PROVE OwnerKnowsEpoch'
  OBVIOUS
<1> USE NoWorkerAssumption DEF TypeOK, OwnerKnowsEpoch, Acquiring
<1>1. ASSUME NEW w \in Workers, AcquireUpsert(w) PROVE OwnerKnowsEpoch'
  BY <1>1 DEF AcquireUpsert
<1>2. ASSUME NEW w \in Workers, AcquireFails(w) PROVE OwnerKnowsEpoch'
  BY <1>2 DEF AcquireFails, Fault
<1>3. ASSUME NEW w \in Workers, AcquireReadBack(w) PROVE OwnerKnowsEpoch'
  BY <1>3 DEF AcquireReadBack, Acquired, Fault, ReadEpoch
<1>4. ASSUME NEW w \in Workers, StopRenewLoop(w) PROVE OwnerKnowsEpoch'
  BY <1>4 DEF StopRenewLoop
<1>5. ASSUME NEW w \in Workers, ReleaseDelete(w) PROVE OwnerKnowsEpoch'
  BY <1>5 DEF ReleaseDelete, Fault
<1>6. ASSUME NEW w \in Workers, ReleaseLose(w) PROVE OwnerKnowsEpoch'
  BY <1>6 DEF ReleaseLose
<1>7. ASSUME NEW w \in Workers, Renewer(w) PROVE OwnerKnowsEpoch'
  BY <1>7 DEF Renewer, SkipRenew, RenewUpdate, RenewVerify, RenewFails, Fault
<1>8. ASSUME NEW w \in Workers, Crash(w) PROVE OwnerKnowsEpoch'
  BY <1>8 DEF Crash
<1>9. CASE Tick
  BY <1>9 DEF Tick
<1>10. CASE UNCHANGED vars
  BY <1>10
<1> QED
  BY <1>1, <1>2, <1>3, <1>4, <1>5, <1>6, <1>7, <1>8, <1>9, <1>10 DEF Next, Main

\* Without failed statements the owner of the lease knows its epoch, however
\* the two acquires of its main thread and its renewals interleave.
THEOREM OwnerFindsItsRow == Spec => []OwnerKnowsEpoch
<1>1. Init => OwnerKnowsEpoch
  BY NoWorkerAssumption DEF Init, OwnerKnowsEpoch
<1> QED
  BY <1>1, EpochStep, TypeCorrect, PTL DEF Spec

-----------------------------------------------------------------------------

LEMMA SleepStep == IInv /\ [Next]_vars => LeaseOutlivesSleep'
<1> SUFFICES ASSUME IInv, [Next]_vars, faults' = 0
             PROVE LeaseOutlivesSleep'
  BY DEF LeaseOutlivesSleep
<1>0. faults = 0
  BY BoundAssumption DEF IInv, TypeOK, Next, Main, Renewer, Tick, Crash,
     AcquireUpsert, AcquireFails, AcquireReadBack, StopRenewLoop, ReleaseDelete,
     ReleaseLose, SkipRenew, RenewUpdate, RenewVerify, RenewFails, Fault
<1> USE <1>0, NoWorkerAssumption, IntervalAssumption, TtlCoversInterval
        DEF IInv, TypeOK, LeaseOutlivesSleep, OwnerKnowsEpoch, Acquiring
<1>1. ASSUME NEW w \in Workers, AcquireUpsert(w) PROVE LeaseOutlivesSleep'
  BY <1>1 DEF AcquireUpsert, Takeable
<1>2. ASSUME NEW w \in Workers, AcquireFails(w) PROVE LeaseOutlivesSleep'
  BY <1>2 DEF AcquireFails, Fault
<1>3. ASSUME NEW w \in Workers, AcquireReadBack(w) PROVE LeaseOutlivesSleep'
  BY <1>3 DEF AcquireReadBack, Acquired
<1>4. ASSUME NEW w \in Workers, StopRenewLoop(w) PROVE LeaseOutlivesSleep'
  BY <1>4 DEF StopRenewLoop
<1>5. ASSUME NEW w \in Workers, ReleaseDelete(w) PROVE LeaseOutlivesSleep'
  BY <1>5 DEF ReleaseDelete
<1>6. ASSUME NEW w \in Workers, ReleaseLose(w) PROVE LeaseOutlivesSleep'
  BY <1>6 DEF ReleaseLose
<1>7. ASSUME NEW w \in Workers, SkipRenew(w) PROVE LeaseOutlivesSleep'
  BY <1>7 DEF SkipRenew, Sleeps, Wakes
<1>8. ASSUME NEW w \in Workers, RenewUpdate(w) PROVE LeaseOutlivesSleep'
  BY <1>8 DEF RenewUpdate, RenewMatches, Wakes
<1>9. ASSUME NEW w \in Workers, RenewVerify(w) PROVE LeaseOutlivesSleep'
  BY <1>9 DEF RenewVerify, Sleeps, Verified
<1>10. ASSUME NEW w \in Workers, RenewFails(w) PROVE LeaseOutlivesSleep'
  BY <1>10 DEF RenewFails, Fault
<1>11. ASSUME NEW w \in Workers, Crash(w) PROVE LeaseOutlivesSleep'
  BY <1>11 DEF Crash
<1>12. CASE Tick
  <2> SUFFICES ASSUME NEW w \in Workers, owner' = w, ~delayed'[w]
               PROVE  /\ Acquiring(w)' \/ loop'[w] \in {"matched", "missed"} => ttl' = LeaseTtl
                      /\ auth'[w] /\ loop'[w] # "none" => ttl' >= LeaseTtl - since'[w]
    OBVIOUS
  <2>1. ~delayed[w] /\ ~Urgent(w)
    BY <1>12, Zenon DEF Tick
  <2> QED
    BY <1>12, <2>1 DEF Tick, Urgent, Wakes
<1>13. CASE UNCHANGED vars
  BY <1>13
<1> QED
  BY <1>1, <1>2, <1>3, <1>4, <1>5, <1>6, <1>7, <1>8, <1>9, <1>10, <1>11, <1>12, <1>13
     DEF Next, Main, Renewer

\* The inductive invariant: types, epochs that agree, and a lease that lasts
\* at least until the next renewal.
THEOREM InductiveInvariant == Spec => []IInv
<1>1. Init => IInv
  BY InitType, NoWorkerAssumption DEF Init, IInv, OwnerKnowsEpoch, LeaseOutlivesSleep
<1>2. IInv /\ [Next]_vars => IInv'
  BY TypeStep, EpochStep, SleepStep DEF IInv
<1> QED
  BY <1>1, <1>2, PTL DEF Spec

\* No other worker takes the lease from a worker that has authority and
\* renews on time.
THEOREM RenewedLeaseIsKept == Spec => LeaseKept
<1> DEFINE Kept(w) ==
      /\ ~delayed[w] /\ faults = 0
      /\ owner = w /\ auth[w] /\ loop[w] # "none" /\ loop'[w] # "none"
      => owner' = w
<1>1. ASSUME IInv, [Next]_vars, NEW w \in Workers PROVE Kept(w)
  <2> SUFFICES ASSUME ~delayed[w], faults = 0, owner = w, auth[w],
                      loop[w] # "none", loop'[w] # "none"
               PROVE owner' = w
    OBVIOUS
  <2> USE NoWorkerAssumption, IntervalAssumption, TtlCoversInterval
  <2>1. ttl >= 0
    BY <1>1 DEF IInv, TypeOK, LeaseOutlivesSleep
  <2>2. ASSUME NEW v \in Workers, AcquireUpsert(v) PROVE owner' = w
    BY <1>1, <2>1, <2>2 DEF IInv, TypeOK, AcquireUpsert, Takeable
  <2>3. ASSUME NEW v \in Workers, ReleaseDelete(v) PROVE owner' = w
    BY <1>1, <2>3 DEF IInv, TypeOK, ReleaseDelete
  <2> QED
    BY <1>1, <2>2, <2>3 DEF Next, Main, Renewer, Tick, Crash, AcquireFails,
       AcquireReadBack, StopRenewLoop, ReleaseLose, SkipRenew, RenewUpdate,
       RenewVerify, RenewFails
<1>2. IInv /\ [Next]_vars => [\A w \in Workers : Kept(w)]_vars
  BY <1>1
<1> QED
  BY <1>2, InductiveInvariant, PTL DEF Spec, LeaseKept

-----------------------------------------------------------------------------

\* The readiness barrier: an event is in one place at a time.

\* The elements of a sequence of different elements, as it grows and shrinks.
LEMMA EventAppended ==
    ASSUME NEW S, NEW s \in Seq(S), NEW e \in S
    PROVE  /\ Append(s, e) \in Seq(S)
           /\ Barrier!ToSet(Append(s, e)) = Barrier!ToSet(s) \cup {e}
           /\ Barrier!IsInjective(s) /\ e \notin Barrier!ToSet(s) => Barrier!IsInjective(Append(s, e))
<1> DEFINE n == Len(s)
<1>1. n \in Nat /\ DOMAIN s = 1 .. n
  OBVIOUS
<1>2. /\ Append(s, e) \in Seq(S) /\ DOMAIN Append(s, e) = 1 .. n + 1
      /\ \A i \in 1 .. n : Append(s, e)[i] = s[i]
      /\ Append(s, e)[n + 1] = e
  OBVIOUS
<1> HIDE DEF n
<1>3. \A i \in 1 .. n + 1 : i \in 1 .. n \/ i = n + 1
  BY <1>1
<1>4. n + 1 \in 1 .. n + 1 /\ \A i \in 1 .. n : i \in 1 .. n + 1
  BY <1>1
<1>5. Barrier!ToSet(Append(s, e)) = Barrier!ToSet(s) \cup {e}
  BY <1>1, <1>2, <1>3, <1>4 DEF Barrier!ToSet
<1>6. ASSUME Barrier!IsInjective(s), e \notin Barrier!ToSet(s)
      PROVE  Barrier!IsInjective(Append(s, e))
  BY <1>1, <1>2, <1>3, <1>6 DEF Barrier!ToSet, Barrier!IsInjective
<1> QED
  BY <1>2, <1>5, <1>6

LEMMA EventRemoved ==
    ASSUME NEW S, NEW s \in Seq(S), s # <<>>
    PROVE  /\ Head(s) \in S /\ Tail(s) \in Seq(S)
           /\ Barrier!ToSet(s) = Barrier!ToSet(Tail(s)) \cup {Head(s)}
           /\ Barrier!IsInjective(s) =>
                Barrier!IsInjective(Tail(s)) /\ Head(s) \notin Barrier!ToSet(Tail(s))
<1> DEFINE n == Len(s)
           t == Tail(s)
<1>1. Head(s) \in S /\ t \in Seq(S)
  OBVIOUS
<1>2. n \in Nat /\ n > 0 /\ DOMAIN s = 1 .. n /\ Head(s) = s[1]
  OBVIOUS
<1>3. DOMAIN t = 1 .. n - 1 /\ \A i \in 1 .. n - 1 : t[i] = s[i + 1]
  BY HeadTailProperties
<1> HIDE DEF n, t
<1>4. \A i \in 1 .. n : i = 1 \/ \E j \in 1 .. n - 1 : i = j + 1
  <2> TAKE i \in 1 .. n
  <2>1. i = 1 \/ (i - 1 \in 1 .. n - 1 /\ i = (i - 1) + 1)
    BY <1>2
  <2> QED
    BY <2>1
<1>5. 1 \in 1 .. n /\ \A i \in 1 .. n - 1 : i + 1 \in 1 .. n /\ i + 1 # 1
  BY <1>2
<1>6. Barrier!ToSet(s) = Barrier!ToSet(t) \cup {Head(s)}
  <2>1. Barrier!ToSet(s) = {s[i] : i \in 1 .. n} /\ Barrier!ToSet(t) = {s[i + 1] : i \in 1 .. n - 1}
    BY <1>2, <1>3 DEF Barrier!ToSet
  <2> QED
    BY <1>2, <1>4, <1>5, <2>1
<1>7. ASSUME Barrier!IsInjective(s)
      PROVE  Barrier!IsInjective(t) /\ Head(s) \notin Barrier!ToSet(t)
  <2>1. \A i, j \in 1 .. n : s[i] = s[j] => i = j
    BY <1>2, <1>7 DEF Barrier!IsInjective
  <2>2. \A i, j \in 1 .. n - 1 : i + 1 = j + 1 => i = j
    BY <1>2
  <2>3. \A i, j \in 1 .. n - 1 : t[i] = t[j] => i = j
    BY <1>3, <1>5, <2>1, <2>2
  <2>4. \A i \in 1 .. n - 1 : t[i] # Head(s)
    BY <1>2, <1>3, <1>5, <2>1
  <2> QED
    BY <1>3, <2>3, <2>4 DEF Barrier!ToSet, Barrier!IsInjective
<1> QED
  BY <1>1, <1>6, <1>7 DEF t

\* The empty sequence.
LEMMA NoEvents == Barrier!ToSet(<<>>) = {} /\ Barrier!IsInjective(<<>>)
  BY DEF Barrier!ToSet, Barrier!IsInjective

LEMMA BarrierInit == Barrier!Init => Barrier!IInv
<1> SUFFICES ASSUME Barrier!Init PROVE Barrier!IInv
  OBVIOUS
<1> USE NoEvents, BarrierAssumption DEF Barrier!Init, Barrier!NoEvent
<1>1. Barrier!TypeOK
  BY DEF Barrier!TypeOK, Barrier!Booting, Barrier!FullHydrationReady
<1>2. Barrier!InAdmit = {}
  BY DEF Barrier!InAdmit
<1>3. Barrier!OnePlace
  BY DEF Barrier!OnePlace
<1>4. Barrier!Apart /\ Barrier!EventsAccountedFor /\ Barrier!LateOnly /\ Barrier!BatchHanded
  BY <1>2 DEF Barrier!BatchHanded,  Barrier!Apart, Barrier!EventsAccountedFor, Barrier!LateOnly, Barrier!Gone
<1>5. Barrier!NoneYet /\ Barrier!NotYet
  BY DEF Barrier!NoneYet, Barrier!NotYet
<1> QED
  BY <1>1, <1>3, <1>4, <1>5 DEF Barrier!IInv

\* What the threads have in their hands, when one of them takes or gives an event.
LEMMA InAdmitTakes ==
    ASSUME Barrier!TypeOK, Barrier!OnePlace, NEW a \in Admitters, NEW e \in Events, NEW l,
           admit[a].pc = "idle", l # "idle", e \notin Barrier!InAdmit,
           admit' = [admit EXCEPT ![a] = [pc |-> l, event |-> e]]
    PROVE  /\ Barrier!InAdmit' = Barrier!InAdmit \cup {e}
           /\ \A b \in Admitters : admit'[b].pc = "idle" <=> admit'[b].event = 0
           /\ \A b, c \in Admitters : b # c /\ admit'[b].event # 0 => admit'[b].event # admit'[c].event
  BY BarrierAssumption DEF Barrier!TypeOK, Barrier!OnePlace, Barrier!InAdmit, Barrier!NoEvent
LEMMA InAdmitGives ==
    ASSUME Barrier!TypeOK, Barrier!OnePlace, NEW a \in Admitters, admit[a].pc # "idle",
           admit' = [admit EXCEPT ![a] = [pc |-> "idle", event |-> 0]]
    PROVE  /\ admit[a].event \in Events /\ admit[a].event \in Barrier!InAdmit
           /\ Barrier!InAdmit' = Barrier!InAdmit \ {admit[a].event}
           /\ \A b \in Admitters : admit'[b].pc = "idle" <=> admit'[b].event = 0
           /\ \A b, c \in Admitters : b # c /\ admit'[b].event # 0 => admit'[b].event # admit'[c].event
  BY BarrierAssumption DEF Barrier!TypeOK, Barrier!OnePlace, Barrier!InAdmit, Barrier!NoEvent

LEMMA BarrierStep == Barrier!IInv /\ [Barrier!Next]_(Barrier!vars) => Barrier!IInv'
<1> SUFFICES ASSUME Barrier!IInv, [Barrier!Next]_(Barrier!vars) PROVE Barrier!IInv'
  OBVIOUS
<1> USE BarrierAssumption DEF Barrier!IInv, Barrier!NoEvent, Barrier!BatchHanded, Barrier!NoneYet, Barrier!NotYet
<1>1. ASSUME NEW a \in Admitters, NEW e \in Events, Barrier!Arrive(a, e) PROVE Barrier!IInv'
  <2>1. /\ admit[a].pc = "idle" /\ e \in fresh /\ fresh' = fresh \ {e}
        /\ UNCHANGED <<stage, held, boot, batch, handler, released, dropped, discarded, ignored, late>>
    BY <1>1 DEF Barrier!Arrive
  <2>2. PICK l \in {"direct", "hold"} : admit' = [admit EXCEPT ![a] = [pc |-> l, event |-> e]]
    BY <1>1 DEF Barrier!Arrive
  <2>3. e \notin Barrier!InAdmit
    BY <2>1 DEF Barrier!Apart
  <2>4. /\ Barrier!InAdmit' = Barrier!InAdmit \cup {e}
        /\ \A b \in Admitters : admit'[b].pc = "idle" <=> admit'[b].event = 0
        /\ \A b, c \in Admitters : b # c /\ admit'[b].event # 0 => admit'[b].event # admit'[c].event
    BY <2>1, <2>2, <2>3, InAdmitTakes
  <2>5. Barrier!TypeOK'
    BY <2>1, <2>2 DEF Barrier!TypeOK
  <2>6. Barrier!OnePlace'
    BY <2>1, <2>4 DEF Barrier!OnePlace
  <2>7. Barrier!Apart' /\ Barrier!EventsAccountedFor'
    BY <2>1, <2>4 DEF Barrier!Apart, Barrier!EventsAccountedFor, Barrier!TypeOK, Barrier!Gone
  <2>8. Barrier!LateOnly'
    BY <2>1 DEF Barrier!LateOnly, Barrier!LastDrainOver
  <2> QED
    BY <2>1, <2>5, <2>6, <2>7, <2>8
<1>2. ASSUME NEW a \in Admitters, Barrier!Direct(a) PROVE Barrier!IInv'
  <2> DEFINE e == admit[a].event
  <2>1. /\ admit[a].pc = "direct"
        /\ \/ released' = Append(released, e) /\ ignored' = ignored
           \/ released' = released /\ ignored' = ignored \cup {e}
        /\ admit' = [admit EXCEPT ![a] = [pc |-> "idle", event |-> 0]]
        /\ UNCHANGED <<stage, held, boot, batch, handler, fresh, dropped, discarded, late>>
    BY <1>2 DEF Barrier!Direct
  <2>2. /\ e \in Events /\ e \in Barrier!InAdmit
        /\ Barrier!InAdmit' = Barrier!InAdmit \ {e}
        /\ \A b \in Admitters : admit'[b].pc = "idle" <=> admit'[b].event = 0
        /\ \A b, c \in Admitters : b # c /\ admit'[b].event # 0 => admit'[b].event # admit'[c].event
    BY <2>1, InAdmitGives
  <2>3. released \in Seq(Events) /\ Barrier!IsInjective(released) /\ e \notin Barrier!ToSet(released)
    BY <2>2 DEF Barrier!TypeOK, Barrier!OnePlace, Barrier!Apart
  <2>9. admit' \in [Admitters -> [pc : {"idle", "direct", "hold"}, event : Events \cup {0}]]
    BY <2>1 DEF Barrier!TypeOK
  <2> HIDE DEF e
  <2>4. /\ released' \in Seq(Events) /\ Barrier!IsInjective(released')
        /\ ignored' \subseteq Events
        /\ \/ Barrier!ToSet(released') = Barrier!ToSet(released) \cup {e} /\ Barrier!Gone' = Barrier!Gone
           \/ Barrier!ToSet(released') = Barrier!ToSet(released) /\ Barrier!Gone' = Barrier!Gone \cup {e}
    <3>1. CASE released' = Append(released, e) /\ ignored' = ignored
      BY <2>1, <2>2, <2>3, <3>1, EventAppended DEF Barrier!Gone, Barrier!TypeOK
    <3>2. CASE released' = released /\ ignored' = ignored \cup {e}
      BY <2>1, <2>2, <2>3, <3>2 DEF Barrier!Gone, Barrier!TypeOK
    <3> QED
      BY <2>1, <3>1, <3>2
  <2>5. Barrier!TypeOK'
    BY <2>1, <2>4, <2>9 DEF Barrier!TypeOK
  <2>6. Barrier!OnePlace'
    BY <2>1, <2>2, <2>4 DEF Barrier!OnePlace
  <2>7. Barrier!Apart' /\ Barrier!EventsAccountedFor'
    BY <2>1, <2>2, <2>4 DEF Barrier!Apart, Barrier!EventsAccountedFor, Barrier!OnePlace
  <2>8. Barrier!LateOnly'
    BY <2>1 DEF Barrier!LateOnly, Barrier!LastDrainOver
  <2> QED
    BY <2>1, <2>5, <2>6, <2>7, <2>8
<1>3. ASSUME NEW a \in Admitters, Barrier!Hold(a) PROVE Barrier!IInv'
  <2> DEFINE e == admit[a].event
             h == IF Len(held) >= HoldCapacity THEN Tail(held) ELSE held
  <2>1. /\ admit[a].pc = "hold" /\ held' = Append(h, e)
        /\ dropped' = IF Len(held) >= HoldCapacity THEN dropped \cup {Head(held)} ELSE dropped
        /\ late' = IF Barrier!LastDrainOver THEN late \cup {e} ELSE late
        /\ admit' = [admit EXCEPT ![a] = [pc |-> "idle", event |-> 0]]
        /\ UNCHANGED <<stage, boot, batch, handler, fresh, released, discarded, ignored>>
    BY <1>3 DEF Barrier!Hold, Barrier!Holding
  <2>2. /\ e \in Events /\ e \in Barrier!InAdmit
        /\ Barrier!InAdmit' = Barrier!InAdmit \ {e}
        /\ \A b \in Admitters : admit'[b].pc = "idle" <=> admit'[b].event = 0
        /\ \A b, c \in Admitters : b # c /\ admit'[b].event # 0 => admit'[b].event # admit'[c].event
    BY <2>1, InAdmitGives
  <2>3. held \in Seq(Events) /\ Barrier!IsInjective(held) /\ e \notin Barrier!ToSet(held)
    BY <2>2 DEF Barrier!TypeOK, Barrier!OnePlace, Barrier!Apart
  <2>4. /\ h \in Seq(Events) /\ Barrier!IsInjective(h) /\ Barrier!ToSet(h) \subseteq Barrier!ToSet(held)
        /\ Barrier!ToSet(held) \cup dropped' = Barrier!ToSet(h) \cup dropped'
        /\ dropped \subseteq dropped' /\ dropped' \subseteq dropped \cup Barrier!ToSet(held)
        /\ (dropped' \ dropped) \cap Barrier!ToSet(h) = {}
    <3>1. CASE Len(held) >= HoldCapacity
      <4>1. held # <<>>
        BY <2>3, <3>1
      <4>2. /\ h = Tail(held) /\ dropped' = dropped \cup {Head(held)}
        BY <2>1, <3>1
      <4> QED
        BY <2>3, <4>1, <4>2, EventRemoved
    <3>2. CASE ~(Len(held) >= HoldCapacity)
      BY <2>1, <2>3, <3>2
    <3> QED
      BY <3>1, <3>2
  <2> HIDE DEF e, h
  <2>5. /\ held' \in Seq(Events) /\ Barrier!IsInjective(held')
        /\ Barrier!ToSet(held') = Barrier!ToSet(h) \cup {e}
    BY <2>1, <2>2, <2>3, <2>4, EventAppended
  <2>6. Barrier!TypeOK'
    <3>1. /\ admit' \in [Admitters -> [pc : {"idle", "direct", "hold"}, event : Events \cup {0}]]
      BY <2>1 DEF Barrier!TypeOK
    <3>2. Barrier!ToSet(held) \subseteq Events
      BY <2>3 DEF Barrier!ToSet
    <3>3. dropped' \subseteq Events /\ late' \subseteq Events
      BY <2>1, <2>2, <2>4, <3>2 DEF Barrier!TypeOK
    <3> QED
      BY <2>1, <2>5, <3>1, <3>3 DEF Barrier!TypeOK
  <2>7. Barrier!OnePlace'
    BY <2>1, <2>2, <2>5 DEF Barrier!OnePlace
  <2>8. Barrier!Apart'
    BY <2>1, <2>2, <2>3, <2>4, <2>5 DEF Barrier!Apart, Barrier!Gone
  <2>9. Barrier!EventsAccountedFor'
    BY <2>1, <2>2, <2>4, <2>5 DEF Barrier!Apart, Barrier!EventsAccountedFor, Barrier!Gone
  <2>10. Barrier!LateOnly'
    BY <2>1, <2>4, <2>5 DEF Barrier!LateOnly, Barrier!LastDrainOver
  <2> QED
    BY <2>1, <2>6, <2>7, <2>8, <2>9, <2>10
<1>4. CASE Barrier!Advance
  <2>1. /\ boot = "advance" /\ stage \in 0 .. 4 /\ stage < 4 /\ stage' = stage + 1
        /\ boot' = IF stage + 1 >= 3 THEN "drain" ELSE "advance"
        /\ UNCHANGED <<held, batch, handler, admit, fresh, released, dropped, discarded, ignored, late>>
    BY <1>4 DEF Barrier!Advance, Barrier!TypeOK, Barrier!Drains, Barrier!LiveN1Ready,
                Barrier!Booting, Barrier!FullHydrationReady
  <2>2. Barrier!TypeOK'
    BY <2>1 DEF Barrier!TypeOK, Barrier!Booting, Barrier!FullHydrationReady
  <2>3. Barrier!OnePlace' /\ Barrier!Apart' /\ Barrier!EventsAccountedFor'
    BY <2>1 DEF Barrier!OnePlace, Barrier!Apart, Barrier!EventsAccountedFor, Barrier!InAdmit, Barrier!Gone
  <2>5. (Barrier!IsLive(stage) => Barrier!IsLive(stage')) /\ (boot' = "drain" => Barrier!IsLive(stage'))
    BY <2>1 DEF Barrier!IsLive, Barrier!LiveN1Ready
  <2>6. Barrier!NoneYet' /\ Barrier!NotYet'
    BY <2>1, <2>5
  <2>4. Barrier!LateOnly'
    BY <2>1 DEF Barrier!LateOnly, Barrier!LastDrainOver, Barrier!FullHydrationReady
  <2> QED
    BY <2>1, <2>2, <2>3, <2>4, <2>6
<1>5. CASE Barrier!Drain
  <2>1. /\ held' = <<>> /\ boot = "drain" /\ boot' = "hand"
        /\ \/ handler = "none" /\ batch' = <<>> /\ discarded' = discarded \cup Barrier!ToSet(held)
           \/ handler # "none" /\ batch' = held /\ discarded' = discarded
        /\ UNCHANGED <<stage, handler, admit, fresh, released, dropped, ignored, late>>
    BY <1>5 DEF Barrier!Drain, Barrier!Cleared
  <2>2. batch = <<>> /\ Barrier!IsLive(stage)
    BY <2>1 DEF Barrier!BatchHanded
  <2>3. Barrier!ToSet(held) \subseteq Events
    BY DEF Barrier!TypeOK, Barrier!ToSet
  <2>4. Barrier!TypeOK'
    BY <2>1, <2>3 DEF Barrier!TypeOK
  <2>5. Barrier!InAdmit' = Barrier!InAdmit
    BY <2>1 DEF Barrier!InAdmit
  <2>6. /\ Barrier!IsInjective(batch') /\ Barrier!ToSet(held') = {}
        /\ \/ Barrier!ToSet(batch') = {} /\ Barrier!Gone' = Barrier!Gone \cup Barrier!ToSet(held)
           \/ Barrier!ToSet(batch') = Barrier!ToSet(held) /\ Barrier!Gone' = Barrier!Gone
    BY <2>1, NoEvents DEF Barrier!OnePlace, Barrier!Gone
  <2>7. Barrier!OnePlace' /\ Barrier!LateOnly'
    BY <2>1, <2>6, NoEvents DEF Barrier!OnePlace, Barrier!LateOnly
  <2>8. Barrier!Apart' /\ Barrier!EventsAccountedFor'
    BY <2>1, <2>2, <2>5, <2>6, NoEvents DEF Barrier!Apart, Barrier!EventsAccountedFor
  <2>9. Barrier!NoneYet' /\ Barrier!NotYet'
    BY <2>1, <2>2
  <2> QED
    BY <2>1, <2>4, <2>7, <2>8, <2>9
<1>6. CASE Barrier!Hand
  <2> DEFINE e == Head(batch)
  <2>1. /\ batch # <<>> /\ released' = Append(released, e) /\ batch' = Tail(batch)
        /\ UNCHANGED <<stage, held, boot, handler, admit, fresh, dropped, discarded, ignored, late>> /\ boot = "hand"
    BY <1>6 DEF Barrier!Hand
  <2>2. /\ batch \in Seq(Events) /\ Barrier!IsInjective(batch)
        /\ released \in Seq(Events) /\ Barrier!IsInjective(released)
    BY DEF Barrier!TypeOK, Barrier!OnePlace
  <2>3. /\ e \in Events /\ batch' \in Seq(Events) /\ Barrier!IsInjective(batch')
        /\ Barrier!ToSet(batch) = Barrier!ToSet(batch') \cup {e} /\ e \notin Barrier!ToSet(batch')
    BY <2>1, <2>2, EventRemoved
  <2>4. e \notin Barrier!ToSet(released)
    BY <2>3 DEF Barrier!Apart
  <2>5. /\ released' \in Seq(Events) /\ Barrier!IsInjective(released')
        /\ Barrier!ToSet(released') = Barrier!ToSet(released) \cup {e}
    BY <2>1, <2>2, <2>3, <2>4, EventAppended
  <2> HIDE DEF e
  <2>6. Barrier!TypeOK'
    BY <2>1, <2>3, <2>5 DEF Barrier!TypeOK
  <2>7. Barrier!OnePlace'
    BY <2>1, <2>3, <2>5 DEF Barrier!OnePlace
  <2>8. Barrier!InAdmit' = Barrier!InAdmit
    BY <2>1 DEF Barrier!InAdmit
  <2>9. Barrier!Apart' /\ Barrier!EventsAccountedFor'
    BY <2>1, <2>3, <2>5, <2>8 DEF Barrier!Apart, Barrier!EventsAccountedFor, Barrier!Gone
  <2>10. Barrier!LateOnly' /\ Barrier!BatchHanded'
    BY <2>1 DEF Barrier!LateOnly, Barrier!LastDrainOver
  <2> QED
    BY <2>1, <2>6, <2>7, <2>9, <2>10
<1>7. CASE Barrier!Handed \/ Barrier!Ends
  <2>1. /\ boot # "drain" /\ boot' \in {"advance", "ended"} /\ batch = <<>>
        /\ UNCHANGED <<stage, held, batch, handler, admit, fresh, released, dropped, discarded, ignored, late>>
    BY <1>7 DEF Barrier!Handed, Barrier!Ends
  <2> QED
    BY <2>1 DEF Barrier!TypeOK, Barrier!OnePlace, Barrier!Apart, Barrier!EventsAccountedFor,
                Barrier!InAdmit, Barrier!Gone, Barrier!LateOnly, Barrier!LastDrainOver
<1>8. CASE Barrier!SetDrainHandler
  <2>1. /\ handler' \in {"none", IF Barrier!IsLive(stage) THEN "late" ELSE "early"}
        /\ UNCHANGED <<stage, held, boot, batch, admit, fresh, released, dropped, discarded, ignored, late>>
    BY <1>8 DEF Barrier!SetDrainHandler
  <2>2. Barrier!NoneYet' /\ Barrier!NotYet'
    BY <2>1
  <2> QED
    BY <2>1, <2>2 DEF Barrier!TypeOK, Barrier!OnePlace, Barrier!Apart, Barrier!EventsAccountedFor,
                Barrier!InAdmit, Barrier!Gone, Barrier!LateOnly, Barrier!LastDrainOver
<1>9. CASE UNCHANGED Barrier!vars
  BY <1>9 DEF Barrier!vars, Barrier!TypeOK, Barrier!OnePlace, Barrier!Apart, Barrier!Gone,
              Barrier!EventsAccountedFor, Barrier!InAdmit, Barrier!LateOnly, Barrier!LastDrainOver
<1> QED
  BY <1>1, <1>2, <1>3, <1>4, <1>5, <1>6, <1>7, <1>8, <1>9 DEF Barrier!Next, Barrier!Run

(* Every event that has arrived at the barrier is handed on once, on its   *)
(* way, held, dropped from a full buffer or gone for want of a handler; it *)
(* stays held after the last drain only if it came late, and no drain      *)
(* discards it if a drain handler was set before the barrier was live      *)
(* (ReadinessBarrier::admit, setDrainHandler, drainHeld).                  *)
THEOREM NoEventForgotten == Barrier!Spec => []NoneForgotten
<1>1. Barrier!IInv => NoneForgotten
  BY DEF Barrier!IInv, Barrier!LateOnly, Barrier!LastDrainOver, NoneForgotten,
         Barrier!NoneForgotten, Barrier!HeldOnlyIfLate, Barrier!KeptByHandler, Barrier!NoneYet
<1> QED
  BY <1>1, BarrierInit, BarrierStep, PTL DEF Barrier!Spec

-----------------------------------------------------------------------------

\* Ordered start and stop: the books agree with what is up.

\* What Append, Tail and Front do, index by index.
LEMMA AppendFacts ==
    ASSUME NEW S, NEW s \in Seq(S), NEW e \in S
    PROVE  /\ Append(s, e) \in Seq(S)
           /\ Len(Append(s, e)) = Len(s) + 1
           /\ \A i \in 1 .. Len(s) : Append(s, e)[i] = s[i]
           /\ Append(s, e)[Len(s) + 1] = e
           /\ {Append(s, e)[i] : i \in 1 .. Len(s) + 1} = {s[i] : i \in 1 .. Len(s)} \cup {e}
<1>1. /\ Append(s, e) \in Seq(S) /\ Len(Append(s, e)) = Len(s) + 1
      /\ \A i \in 1 .. Len(s) : Append(s, e)[i] = s[i]
      /\ Append(s, e)[Len(s) + 1] = e
  OBVIOUS
<1>2. Len(s) \in Nat
  OBVIOUS
<1>3. 1 .. Len(s) + 1 = (1 .. Len(s)) \cup {Len(s) + 1}
  BY <1>2
<1> QED
  BY <1>1, <1>3

LEMMA FrontFacts ==
    ASSUME NEW S, NEW s \in Seq(S), s # <<>>
    PROVE  /\ Len(s) \in Nat /\ Len(s) > 0 /\ s[Len(s)] \in S
           /\ SubSeq(s, 1, Len(s) - 1) \in Seq(S)
           /\ Len(SubSeq(s, 1, Len(s) - 1)) = Len(s) - 1
           /\ \A i \in 1 .. Len(s) - 1 : SubSeq(s, 1, Len(s) - 1)[i] = s[i]
<1>1. Len(s) \in Nat /\ Len(s) > 0 /\ s[Len(s)] \in S
  OBVIOUS
<1>2. \A i \in 1 .. Len(s) - 1 : s[i] \in S
  BY <1>1
<1> DEFINE m == Len(s)
<1>3. m \in Nat /\ m > 0 /\ \A i \in 1 .. m - 1 : s[i] \in S
  BY <1>1, <1>2
<1> HIDE DEF m
<1>4. m - 1 \in Int /\ (1 <= m - 1 \/ m - 1 = 0) /\ m - 1 - 1 + 1 = m - 1
  BY <1>3
<1>5. /\ SubSeq(s, 1, m - 1) \in Seq(S)
      /\ Len(SubSeq(s, 1, m - 1)) = IF 1 <= m - 1 THEN m - 1 - 1 + 1 ELSE 0
      /\ \A i \in 1 .. m - 1 - 1 + 1 : SubSeq(s, 1, m - 1)[i] = s[1 + i - 1]
  BY <1>3, <1>4, SubSeqProperties
<1>6. \A i \in 1 .. m - 1 : 1 + i - 1 = i
  BY <1>3
<1>7. /\ SubSeq(s, 1, m - 1) \in Seq(S) /\ Len(SubSeq(s, 1, m - 1)) = m - 1
      /\ \A i \in 1 .. m - 1 : SubSeq(s, 1, m - 1)[i] = s[i]
  BY <1>4, <1>5, <1>6
<1> QED
  BY <1>1, <1>7 DEF m

LEMMA OrchInit == Orch!Init => Orch!IInv
<1> SUFFICES ASSUME Orch!Init PROVE Orch!IInv
  OBVIOUS
<1>1. Orch!TypeOK
  <2>1. managed \in BOOLEAN
    BY DEF Orch!Init
  <2>2. /\ pc \in {"idle", "starting", "stopping"} /\ todo \subseteq Components
        /\ up \subseteq Components /\ thrown \subseteq Components /\ started \in Seq(Components)
        /\ state \in [Components -> {"registered", "starting", "running", "failed", "stopped"}]
        /\ runs \in Nat
    BY SMT, EmptySeq DEF Orch!Init
  <2>3. running \in BOOLEAN /\ again \in BOOLEAN
    BY Zenon DEF Orch!Init
  <2> QED
    BY <2>1, <2>2, <2>3 DEF Orch!TypeOK
<1>2. Orch!BooksAgree /\ Orch!BooksKnow
  BY DEF Orch!Init, Orch!BooksAgree, Orch!BooksKnow
<1>3. Orch!Progress /\ Orch!LowerIsUp
  BY DEF Orch!Init, Orch!Progress, Orch!LowerIsUp
<1>4. Orch!Brought
  <2>1. up = {} /\ pc = "idle" /\ ~running
    BY DEF Orch!Init
  <2> QED
    BY <2>1 DEF Orch!Brought
<1> QED
  BY <1>1, <1>2, <1>3, <1>4 DEF Orch!IInv

\* A start that visits c, the lowest of those left.
LEMMA OrchStartOne == ASSUME Orch!IInv, Orch!StartOne PROVE Orch!IInv'
<1> USE OrderAssumption DEF Orch!IInv
<1>1. PICK c \in Orch!Lowest(todo) :
        /\ todo' = todo \ {c} /\ up' = up \cup {c} /\ thrown' = thrown \ {c}
        /\ IF managed THEN state' = [state EXCEPT ![c] = "running"] /\ UNCHANGED started
                      ELSE started' = Append(started, c) /\ UNCHANGED state
  BY DEF Orch!StartOne
<1>2. c \in Components /\ c \in todo /\ \A d \in todo : Order[c] <= Order[d]
  BY <1>1 DEF Orch!Lowest, Orch!TypeOK
<1>3. pc = "starting" /\ UNCHANGED <<managed, pc, running, again, runs>>
  BY DEF Orch!StartOne
<1>4. Orch!TypeOK'
  <2>1. state' \in [Components -> {"registered", "starting", "running", "failed", "stopped"}]
    BY <1>1, <1>2 DEF Orch!TypeOK
  <2>2. started \in Seq(Components)
    BY DEF Orch!TypeOK
  <2>3. started' \in Seq(Components)
    <3>1. CASE managed
      BY <1>1, <2>2, <3>1
    <3>2. CASE ~managed
      <4>1. started' = Append(started, c)
        BY <1>1, <3>2
      <4> QED
        BY <1>2, <2>2, <4>1, AppendFacts
    <3> QED
      BY <3>1, <3>2
  <2> QED
    BY <1>1, <1>2, <1>3, <2>1, <2>3 DEF Orch!TypeOK
<1> DEFINE n == Len(started)
<1>5. ~managed => /\ started \in Seq(Components) /\ n \in Nat /\ Len(started') = n + 1 /\ started'[n + 1] = c
                  /\ \A i \in 1 .. n : started'[i] = started[i]
                  /\ {started'[i] : i \in 1 .. n + 1} = {started[i] : i \in 1 .. n} \cup {c}
  <2> SUFFICES ASSUME ~managed PROVE <1>5!2
    OBVIOUS
  <2>1. started \in Seq(Components) /\ started' = Append(started, c)
    BY <1>1 DEF Orch!TypeOK
  <2> QED
    BY <1>2, <2>1, AppendFacts
<1> HIDE DEF n
<1>6. Orch!BooksKnow'
  <2>1. CASE managed
    <3> SUFFICES ASSUME NEW d \in Components
                 PROVE  /\ state'[d] = "running" => d \in up'
                        /\ d \in up' => state'[d] \in {"running", "failed"} \/ (again' /\ d \in thrown')
      BY <1>3, <2>1 DEF Orch!BooksKnow
    <3>1. state'[d] = IF d = c THEN "running" ELSE state[d]
      BY <1>1, <1>2, <2>1 DEF Orch!TypeOK
    <3> QED
      BY <1>1, <1>3, <2>1, <3>1 DEF Orch!BooksKnow
  <2>2. CASE ~managed
    <3>1. up \subseteq {started[i] : i \in 1 .. n}
      BY <2>2 DEF Orch!BooksKnow, n
    <3> QED
      BY <1>1, <1>3, <1>5, <2>2, <3>1 DEF Orch!BooksKnow
  <2> QED
    BY <2>1, <2>2
<1>7. Orch!Brought'
  BY <1>1, <1>2, <1>3 DEF Orch!Brought, Orch!TypeOK
<1>8. ASSUME ~again' PROVE Orch!BooksAgree' /\ Orch!Progress' /\ Orch!LowerIsUp'
  <2>1. ~again /\ Orch!BooksAgree /\ Orch!Progress /\ Orch!LowerIsUp
    BY <1>3, <1>8
  <2>2. up = Components \ todo /\ \A b \in up, d \in todo : Order[b] <= Order[d]
    BY <1>3, <2>1 DEF Orch!Progress
  <2>3. Orch!BooksAgree'
    <3>1. CASE managed
      BY <1>1, <1>2, <1>3, <2>1, <3>1 DEF Orch!TypeOK, Orch!BooksAgree
    <3>2. CASE ~managed
      <4>1. /\ up = {started[i] : i \in 1 .. n}
            /\ \A i, j \in 1 .. n : i < j => started[i] # started[j] /\ Order[started[i]] <= Order[started[j]]
        BY <2>1, <3>2 DEF Orch!BooksAgree, n
      <4>2. \A i \in 1 .. n : started[i] # c /\ Order[started[i]] <= Order[c]
        BY <1>2, <2>2, <4>1
      <4>3. \A i \in 1 .. n + 1 : i \in 1 .. n \/ i = n + 1
        BY <1>5, <3>2
      <4>4. \A i, j \in 1 .. n + 1 : i < j =>
              started'[i] # started'[j] /\ Order[started'[i]] <= Order[started'[j]]
        BY <1>5, <3>2, <4>1, <4>2, <4>3
      <4>5. up' = {started'[i] : i \in 1 .. n + 1}
        BY <1>1, <1>5, <3>2, <4>1
      <4> QED
        BY <1>3, <1>5, <3>2, <4>4, <4>5 DEF Orch!BooksAgree
    <3> QED
      BY <3>1, <3>2
  <2>4. Orch!Progress'
    BY <1>1, <1>2, <1>3, <2>2 DEF Orch!Progress, Orch!TypeOK
  <2>5. Orch!LowerIsUp'
    BY <1>1, <1>2, <2>1, <2>2 DEF Orch!LowerIsUp, Orch!TypeOK
  <2> QED
    BY <2>3, <2>4, <2>5
<1>9. Orch!LowerIsUp'
  BY <1>8 DEF Orch!LowerIsUp
<1> QED
  BY <1>4, <1>6, <1>7, <1>8, <1>9

\* The next stop.
LEMMA OrchStopOne == ASSUME Orch!IInv, Orch!StopOne PROVE Orch!IInv'
<1> USE OrderAssumption DEF Orch!IInv
<1>1. pc = "stopping" /\ UNCHANGED <<managed, pc, running, thrown, again, runs>>
  BY DEF Orch!StopOne
<1>2. Orch!Brought'
  BY <1>1 DEF Orch!Brought
<1>3. CASE managed
  <2>1. PICK c \in Orch!Highest(todo) :
          /\ up' = up \ {c} /\ todo' = todo \ {c}
          /\ state' = [state EXCEPT ![c] = "stopped"] /\ UNCHANGED started
    BY <1>3 DEF Orch!StopOne
  <2>2. c \in Components /\ \A d \in todo : Order[d] <= Order[c]
    BY <2>1 DEF Orch!Highest, Orch!TypeOK
  <2>3. Orch!TypeOK'
    BY <1>1, <2>1, <2>2 DEF Orch!TypeOK
  <2>4. \A d \in Components : state'[d] = IF d = c THEN "stopped" ELSE state[d]
    BY <2>1, <2>2 DEF Orch!TypeOK
  <2>5. Orch!BooksKnow'
    BY <1>1, <1>3, <2>1, <2>4 DEF Orch!BooksKnow
  <2>6. ASSUME ~again' PROVE Orch!BooksAgree' /\ Orch!Progress' /\ Orch!LowerIsUp'
    <3>1. ~again /\ Orch!BooksAgree /\ Orch!Progress /\ Orch!LowerIsUp /\ up \subseteq todo
      BY <1>1, <1>3, <2>6 DEF Orch!Progress
    <3>2. Orch!BooksAgree' /\ Orch!Progress'
      BY <1>1, <1>3, <2>1, <2>4, <3>1 DEF Orch!BooksAgree, Orch!Progress
    <3>3. Orch!LowerIsUp'
      BY <2>1, <2>2, <3>1 DEF Orch!LowerIsUp, Orch!TypeOK
    <3> QED
      BY <3>2, <3>3
  <2>7. Orch!LowerIsUp'
    BY <2>6 DEF Orch!LowerIsUp
  <2> QED
    BY <1>2, <2>3, <2>5, <2>6, <2>7
<1>4. CASE ~managed
  <2> DEFINE n == Len(started)
             c == started[n]
  <2>1. started # <<>> /\ up' = up \ {c} /\ UNCHANGED <<state, todo>>
        /\ started' = SubSeq(started, 1, n - 1)
    BY <1>4 DEF Orch!StopOne, Orch!FromBack, Orch!Front
  <2>2. started \in Seq(Components) /\ n \in Nat /\ n > 0 /\ c \in Components
    BY <2>1 DEF Orch!TypeOK
  <2>3. /\ started' \in Seq(Components) /\ Len(started') = n - 1
        /\ \A i \in 1 .. n - 1 : started'[i] = started[i]
    BY <2>1, <2>2, FrontFacts
  <2>4. Orch!TypeOK'
    BY <1>1, <2>1, <2>3 DEF Orch!TypeOK
  <2>5. \A i \in 1 .. n : i = n \/ i \in 1 .. n - 1
    BY <2>2
  <2>6. up \subseteq {started[i] : i \in 1 .. n}
    BY <1>4 DEF Orch!BooksKnow
  <2>7. up' \subseteq {started'[i] : i \in 1 .. n - 1}
    <3> SUFFICES ASSUME NEW d \in up, d # c PROVE \E i \in 1 .. n - 1 : started'[i] = d
      BY <2>1
    <3>1. PICK i \in 1 .. n : started[i] = d
      BY <2>6
    <3>2. i \in 1 .. n - 1
      BY <2>5, <3>1
    <3> QED
      BY <2>3, <3>1, <3>2
  <2>8. Orch!BooksKnow'
    BY <1>1, <1>4, <2>3, <2>7 DEF Orch!BooksKnow
  <2>9. ASSUME ~again' PROVE Orch!BooksAgree' /\ Orch!Progress' /\ Orch!LowerIsUp'
    <3>1. ~again /\ Orch!BooksAgree /\ Orch!LowerIsUp
      BY <1>1, <2>9
    <3>2. /\ up = {started[i] : i \in 1 .. n}
          /\ \A i, j \in 1 .. n : i < j => started[i] # started[j] /\ Order[started[i]] <= Order[started[j]]
      BY <1>4, <3>1 DEF Orch!BooksAgree
    <3>3. \A i \in 1 .. n - 1 : i \in 1 .. n /\ i < n /\ started'[i] = started[i]
      BY <2>2, <2>3
    <3>4. n \in 1 .. n /\ \A i \in 1 .. n - 1 : started[i] # c /\ started[i] \in up
      BY <2>2, <3>2, <3>3
    <3>5. {started'[i] : i \in 1 .. n - 1} \subseteq up'
      BY <2>1, <3>3, <3>4
    <3>6. Orch!BooksAgree'
      <4> HIDE DEF n, c
      <4>1. \A i, j \in 1 .. n - 1 : i < j =>
              started'[i] # started'[j] /\ Order[started'[i]] <= Order[started'[j]]
        BY <3>2, <3>3
      <4>2. ~managed' /\ Len(started') = n - 1
        BY <1>1, <1>4, <2>3
      <4>3. up' = {started'[i] : i \in 1 .. n - 1}
        BY <2>7, <3>5
      <4> QED
        BY <4>1, <4>2, <4>3 DEF Orch!BooksAgree
    <3>7. \A d \in up : Order[d] <= Order[c]
      <4>1. \A i \in 1 .. n : i = n \/ i < n
        BY <2>2
      <4> QED
        BY <2>2, <3>2, <3>4, <4>1
    <3>8. Orch!LowerIsUp'
      BY <2>1, <2>2, <3>1, <3>7 DEF Orch!LowerIsUp, Orch!TypeOK
    <3>9. Orch!Progress'
      BY <1>1, <1>4 DEF Orch!Progress
    <3> QED
      BY <3>6, <3>8, <3>9
  <2>10. Orch!LowerIsUp'
    BY <2>9 DEF Orch!LowerIsUp
  <2> QED
    BY <1>2, <2>4, <2>8, <2>9, <2>10
<1> QED
  BY <1>3, <1>4

LEMMA OrchStep == Orch!IInv /\ [Orch!Next]_(Orch!vars) => Orch!IInv'
<1> SUFFICES ASSUME Orch!IInv, [Orch!Next]_(Orch!vars) PROVE Orch!IInv'
  OBVIOUS
<1> USE OrderAssumption DEF Orch!IInv
<1>1. CASE Orch!StartAll
  <2>0. /\ pc = "idle" /\ pc' = "starting" /\ todo' = Components /\ again' = (again \/ up # {})
        /\ runs' = runs + 1 /\ UNCHANGED <<managed, started, running, state, up, thrown>>
    BY <1>1 DEF Orch!StartAll
  <2>1. Orch!TypeOK'
    <3>1. again' \in BOOLEAN
      BY <2>0, Zenon
    <3> QED
      BY <2>0, <3>1 DEF Orch!TypeOK
  <2>2. Orch!BooksKnow' /\ Orch!Brought'
    BY <2>0 DEF Orch!BooksKnow, Orch!Brought, Orch!TypeOK
  <2>3. ASSUME ~again' PROVE Orch!BooksAgree' /\ Orch!Progress' /\ Orch!LowerIsUp'
    <3>1. ~again /\ up = {} /\ Orch!BooksAgree
      BY <2>0, <2>3
    <3> QED
      BY <2>0, <3>1 DEF Orch!BooksAgree, Orch!Progress, Orch!LowerIsUp
  <2>4. Orch!LowerIsUp'
    BY <2>3 DEF Orch!LowerIsUp
  <2> QED
    BY <2>1, <2>2, <2>3, <2>4
<1>2. CASE Orch!StartOne
  BY <1>2, OrchStartOne
<1>3. CASE Orch!StartFails \/ Orch!StartThrows
  <2>1. PICK c \in Orch!Lowest(todo), x \in {"failed", "starting"} :
          /\ state' = IF managed THEN [state EXCEPT ![c] = x] ELSE state
          /\ \/ x = "failed" /\ thrown' = thrown \ {c} /\ pc' = IF managed THEN "idle" ELSE "stopping"
             \/ x = "starting" /\ thrown' = thrown \cup {c} /\ pc' = "idle"
    BY <1>3 DEF Orch!StartFails, Orch!StartThrows, Orch!AfterFailure
  <2>2. pc = "starting" /\ todo' = {} /\ UNCHANGED <<managed, started, running, up, again, runs>>
    BY <1>3 DEF Orch!StartFails, Orch!StartThrows
  <2>3. c \in Components /\ c \in todo
    BY <2>1 DEF Orch!Lowest, Orch!TypeOK
  <2>4. Orch!TypeOK'
    BY <2>1, <2>2, <2>3 DEF Orch!TypeOK
  <2>5. managed => \A d \in Components : state'[d] = IF d = c THEN x ELSE state[d]
    BY <2>1, <2>3 DEF Orch!TypeOK
  <2>6. c \in up => again
    BY <2>2, <2>3 DEF Orch!Progress
  <2>7. Orch!BooksKnow'
    BY <2>1, <2>2, <2>5, <2>6 DEF Orch!BooksKnow
  <2>8. Orch!Brought'
    BY <2>1, <2>2, <2>3 DEF Orch!Brought
  <2>9. ~again' => Orch!BooksAgree' /\ Orch!Progress'
    BY <2>1, <2>2, <2>5, <2>6 DEF Orch!BooksAgree, Orch!Progress
  <2>10. Orch!LowerIsUp'
    BY <2>2 DEF Orch!LowerIsUp
  <2> QED
    BY <2>4, <2>7, <2>8, <2>9, <2>10
<1>4. CASE Orch!AllStarted
  <2>1. /\ pc = "starting" /\ todo = {} /\ pc' = "idle" /\ running' = (running \/ ~managed)
        /\ UNCHANGED <<managed, todo, started, state, up, thrown, again, runs>>
    BY <1>4 DEF Orch!AllStarted
  <2>2. Orch!TypeOK'
    <3>1. running' \in BOOLEAN
      BY <2>1, Zenon
    <3> QED
      BY <2>1, <3>1 DEF Orch!TypeOK
  <2>3. up = Components
    BY <2>1 DEF Orch!Brought, Orch!TypeOK
  <2>4. Orch!BooksKnow' /\ Orch!Brought' /\ Orch!LowerIsUp'
    BY <2>1, <2>3 DEF Orch!BooksKnow, Orch!Brought, Orch!LowerIsUp
  <2>5. ~again' => Orch!BooksAgree' /\ Orch!Progress'
    BY <2>1 DEF Orch!BooksAgree, Orch!Progress
  <2> QED
    BY <2>2, <2>4, <2>5
<1>5. CASE Orch!StopAll
  <2>0. /\ pc = "idle" /\ pc' = "stopping"
        /\ todo' = IF managed THEN {c \in Components : state[c] \in {"running", "failed"}} ELSE {}
        /\ UNCHANGED <<managed, started, running, state, up, thrown, again, runs>>
    BY <1>5 DEF Orch!StopAll
  <2>1. Orch!TypeOK' /\ Orch!BooksKnow' /\ Orch!Brought' /\ Orch!LowerIsUp'
    BY <2>0 DEF Orch!TypeOK, Orch!BooksKnow, Orch!Brought, Orch!LowerIsUp
  <2>2. ~again' => Orch!BooksAgree' /\ Orch!Progress'
    BY <2>0 DEF Orch!TypeOK, Orch!BooksAgree, Orch!Progress
  <2> QED
    BY <2>1, <2>2
<1>6. CASE Orch!StopOne
  BY <1>6, OrchStopOne
<1>7. CASE Orch!AllStopped
  <2>1. /\ pc = "stopping" /\ pc' = "idle" /\ running' = FALSE
        /\ thrown' = (IF managed THEN thrown ELSE {}) /\ again' = (again /\ up # {})
        /\ UNCHANGED <<managed, todo, started, state, up, runs>>
        /\ ~managed => started = <<>>
    BY <1>7 DEF Orch!AllStopped
  <2>2. ~managed => up = {}
    BY <2>1 DEF Orch!BooksKnow
  <2>3. Orch!TypeOK'
    <3>1. running' \in BOOLEAN /\ again' \in BOOLEAN
      BY <2>1, Zenon
    <3> QED
      BY <2>1, <3>1 DEF Orch!TypeOK
  <2>4. Orch!BooksKnow'
    BY <2>1, <2>2 DEF Orch!BooksKnow
  <2>5. Orch!Brought'
    BY <2>1, <2>2 DEF Orch!Brought
  <2>6. ASSUME ~again' PROVE Orch!BooksAgree' /\ Orch!Progress' /\ Orch!LowerIsUp'
    <3>1. CASE up = {}
      BY <2>1, <3>1 DEF Orch!BooksAgree, Orch!Progress, Orch!LowerIsUp
    <3>2. CASE up # {}
      <4>1. ~again /\ Orch!BooksAgree /\ Orch!LowerIsUp
        BY <2>1, <2>6, <3>2
      <4> QED
        BY <2>1, <4>1 DEF Orch!BooksAgree, Orch!Progress, Orch!LowerIsUp
    <3> QED
      BY <3>1, <3>2
  <2>7. Orch!LowerIsUp'
    BY <2>6 DEF Orch!LowerIsUp
  <2> QED
    BY <2>3, <2>4, <2>5, <2>6, <2>7
<1>8. CASE UNCHANGED Orch!vars
  BY <1>8 DEF Orch!vars, Orch!TypeOK, Orch!BooksKnow, Orch!Brought, Orch!BooksAgree, Orch!Progress, Orch!LowerIsUp
<1> QED
  BY <1>1, <1>2, <1>3, <1>4, <1>5, <1>6, <1>7, <1>8 DEF Orch!Next

(* At every moment of a start, an undo and a stop, what is up has the      *)
(* components of lower order up beneath it, unless a start was called over *)
(* what was up; between calls all components are up or none, or those a    *)
(* start that threw had reached, and the books know of all that is up      *)
(* (Orchestrator, StartupManager, ShutdownManager).                        *)
THEOREM OrderIsKept == Orch!Spec => []OrderedAndWhole
<1>1. Orch!IInv => OrderedAndWhole
  BY DEF Orch!IInv, Orch!BooksKnow, Orch!Brought, OrderedAndWhole, Orch!OrderedAndWhole, Orch!AllOrNone
<1> QED
  BY <1>1, OrchInit, OrchStep, PTL DEF Orch!Spec
=============================================================================
