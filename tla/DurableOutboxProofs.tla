------------------------- MODULE DurableOutboxProofs ------------------------
(***************************************************************************)
(* Proofs about the durable outbox, for any rows, rounds, drainers and     *)
(* limits with Deadline <= ClaimStale.                                     *)
(***************************************************************************)
EXTENDS DurableOutbox, TLAPS

\* The backoff never exceeds its ceiling (notification_worker.hpp:68-69).
LEMMA RetryDelayBounded == \A n \in Nat : RetryDelay(n) \in 0..MaxRetry
<1> SUFFICES ASSUME NEW n \in Nat PROVE RetryDelay(n) \in 0..MaxRetry
  OBVIOUS
<1>1. Shifted(n) \in Nat
  BY DEF Shifted
<1>2. BaseRetry * Shifted(n) \in Nat
  BY <1>1, LimitAssumption
<1> QED
  BY <1>2, LimitAssumption DEF RetryDelay

\* The initial state is well typed.
LEMMA InitType == Init => TypeOK
  BY LimitAssumption, AgeCapAssumption DEF Init, TypeOK, Statuses

\* Every step keeps the types.
LEMMA TypeStep == TypeOK /\ [Next]_vars => TypeOK'
<1> SUFFICES ASSUME TypeOK, [Next]_vars PROVE TypeOK'
  OBVIOUS
<1> USE LimitAssumption, AgeCapAssumption, NoRowAssumption, TargetAssumption
    DEF TypeOK, Statuses, table, guard, drain
<1>1. ASSUME NEW r \in Rows, Enqueue(r) PROVE TypeOK'
  BY <1>1 DEF Enqueue
<1>2. ASSUME NEW d \in Drainers, Claim(d) PROVE TypeOK'
  BY <1>2 DEF Claim, Available
<1>3. ASSUME NEW d \in Drainers, NEW r \in Rows, Authorize(d, r) PROVE TypeOK'
  BY <1>3 DEF Authorize
<1>4. ASSUME NEW d \in Drainers, SendOk(d) PROVE TypeOK'
  BY <1>4 DEF SendOk
<1>5. ASSUME NEW d \in Drainers, SendFails(d) PROVE TypeOK'
  BY <1>5 DEF SendFails
<1>6. ASSUME NEW d \in Drainers, MarkDelivered(d) PROVE TypeOK'
  BY <1>6 DEF MarkDelivered, NextRow
<1>7. ASSUME NEW d \in Drainers, MarkFailed(d) PROVE TypeOK'
  <2>1. wait' \in [Rows -> 0..MaxRetry]
    BY <1>7, RetryDelayBounded DEF MarkFailed
  <2> QED
    BY <1>7, <2>1 DEF MarkFailed, NextRow
<1>8. ASSUME NEW d \in Drainers, MarkLost(d) PROVE TypeOK'
  BY <1>8 DEF MarkLost, NextRow
<1>9. CASE RecoverStaleClaims
  BY <1>9 DEF RecoverStaleClaims, StaleClaim
<1>10. ASSUME NEW g \in Rounds, NEW lead \in 0..MaxLead, NoteTargetStarted(g, lead) PROVE TypeOK'
  BY <1>10 DEF NoteTargetStarted
<1>11. CASE Crash
  BY <1>11 DEF Crash
<1>12. CASE Tick
  BY <1>12 DEF Tick, Older, Sooner
<1>13. CASE UNCHANGED vars
  BY <1>13 DEF vars
<1> QED
  BY <1>1, <1>2, <1>3, <1>4, <1>5, <1>6, <1>7, <1>8, <1>9, <1>10, <1>11, <1>12, <1>13 DEF Next, DrainBatch

\* Every variable keeps its type; in particular a drainer only works on rows
\* of the batch it has claimed (notification_worker.hpp:59-75).
THEOREM TypeCorrect == Spec => []TypeOK
<1> QED
  BY InitType, TypeStep, PTL DEF Spec

\* The invariant behind ExclusiveSend: while a row is younger than the deadline
\* only one thread can hold it, because claims become stale later, and once it
\* is acknowledged nobody can claim it again (outbox_repository.hpp:49-109,
\* temporal_auth.hpp:79-101).
THEOREM InductiveInvariant == Spec => []IInv
<1>1. Init => IInv
  <2> SUFFICES ASSUME Init PROVE IInv
    OBVIOUS
  <2>1. TypeOK
    BY InitType
  <2> QED
    BY <2>1 DEF Init, IInv, AbsentUnused, ClaimYounger, FreshHeldOnce, FreshAckedSettled,
       ExclusiveSend, Holds, Sending
<1>2. IInv /\ [Next]_vars => IInv'
  <2> SUFFICES ASSUME IInv, [Next]_vars PROVE IInv'
    OBVIOUS
  <2>t. TypeOK /\ TypeOK'
    BY TypeStep DEF IInv
  <2> DEFINE Rest == /\ AbsentUnused /\ ClaimYounger /\ FreshHeldOnce
                     /\ FreshAckedSettled /\ ExclusiveSend
  <2>r. Rest
    BY DEF IInv
  <2> SUFFICES Rest'
    BY <2>t DEF IInv
  <2> USE LimitAssumption, AgeCapAssumption, DeadlineBeforeStale, NoRowAssumption
      DEF TypeOK, table, guard, drain
  <2>1. ASSUME NEW r \in Rows, Enqueue(r) PROVE Rest'
    <3> USE <2>1, <2>t, <2>r DEF Enqueue
    <3>1. AbsentUnused'
      BY DEF AbsentUnused, Holds
    <3>2. ClaimYounger'
      BY DEF ClaimYounger
    <3>3. FreshHeldOnce'
      BY DEF FreshHeldOnce, ClaimYounger, AbsentUnused, Holds, Fresh
    <3>4. FreshAckedSettled'
      BY DEF FreshAckedSettled, FreshHeldOnce, ClaimYounger, AbsentUnused, Holds, Fresh
    <3>5. ExclusiveSend'
      BY DEF ExclusiveSend, FreshHeldOnce, FreshAckedSettled, Holds, Fresh, Sending
    <3> QED
      BY <3>1, <3>2, <3>3, <3>4, <3>5
  <2>2. ASSUME NEW d \in Drainers, Claim(d) PROVE Rest'
    <3> USE <2>2, <2>t, <2>r DEF Claim, Available
    <3>1. AbsentUnused'
      BY DEF AbsentUnused, Holds
    <3>2. ClaimYounger'
      BY DEF ClaimYounger
    <3>3. FreshHeldOnce'
      BY DEF FreshHeldOnce, ClaimYounger, AbsentUnused, Holds, Fresh
    <3>4. FreshAckedSettled'
      BY DEF FreshAckedSettled, FreshHeldOnce, ClaimYounger, AbsentUnused, Holds, Fresh
    <3>5. ExclusiveSend'
      BY DEF ExclusiveSend, FreshHeldOnce, FreshAckedSettled, Holds, Fresh, Sending
    <3> QED
      BY <3>1, <3>2, <3>3, <3>4, <3>5
  <2>3. ASSUME NEW d \in Drainers, NEW r \in Rows, Authorize(d, r) PROVE Rest'
    <3> USE <2>3, <2>t, <2>r DEF Authorize, Allowed
    <3>1. AbsentUnused'
      BY DEF AbsentUnused, Holds
    <3>2. ClaimYounger'
      BY DEF ClaimYounger
    <3>3. FreshHeldOnce'
      BY DEF FreshHeldOnce, ClaimYounger, AbsentUnused, Holds, Fresh
    <3>4. FreshAckedSettled'
      BY DEF FreshAckedSettled, FreshHeldOnce, ClaimYounger, AbsentUnused, Holds, Fresh
    <3>5. ExclusiveSend'
      BY DEF ExclusiveSend, FreshHeldOnce, FreshAckedSettled, Holds, Fresh, Sending
    <3> QED
      BY <3>1, <3>2, <3>3, <3>4, <3>5
  <2>4. ASSUME NEW d \in Drainers, SendOk(d) PROVE Rest'
    <3> USE <2>4, <2>t, <2>r DEF SendOk
    <3>1. AbsentUnused'
      BY DEF AbsentUnused, Holds
    <3>2. ClaimYounger'
      BY DEF ClaimYounger
    <3>3. FreshHeldOnce'
      BY DEF FreshHeldOnce, ClaimYounger, AbsentUnused, Holds, Fresh
    <3>4. FreshAckedSettled'
      BY DEF FreshAckedSettled, FreshHeldOnce, ClaimYounger, AbsentUnused, Holds, Fresh
    <3>5. ExclusiveSend'
      BY DEF ExclusiveSend, FreshHeldOnce, FreshAckedSettled, Holds, Fresh, Sending
    <3> QED
      BY <3>1, <3>2, <3>3, <3>4, <3>5
  <2>5. ASSUME NEW d \in Drainers, SendFails(d) PROVE Rest'
    <3> USE <2>5, <2>t, <2>r DEF SendFails
    <3>1. AbsentUnused'
      BY DEF AbsentUnused, Holds
    <3>2. ClaimYounger'
      BY DEF ClaimYounger
    <3>3. FreshHeldOnce'
      BY DEF FreshHeldOnce, ClaimYounger, AbsentUnused, Holds, Fresh
    <3>4. FreshAckedSettled'
      BY DEF FreshAckedSettled, FreshHeldOnce, ClaimYounger, AbsentUnused, Holds, Fresh
    <3>5. ExclusiveSend'
      BY DEF ExclusiveSend, FreshHeldOnce, FreshAckedSettled, Holds, Fresh, Sending
    <3> QED
      BY <3>1, <3>2, <3>3, <3>4, <3>5
  <2>6. ASSUME NEW d \in Drainers, MarkDelivered(d) PROVE Rest'
    <3> USE <2>6, <2>t, <2>r DEF MarkDelivered, NextRow
    <3>1. AbsentUnused'
      BY DEF AbsentUnused, Holds
    <3>2. ClaimYounger'
      BY DEF ClaimYounger
    <3>3. FreshHeldOnce'
      BY DEF FreshHeldOnce, ClaimYounger, AbsentUnused, Holds, Fresh
    <3>4. FreshAckedSettled'
      BY DEF FreshAckedSettled, FreshHeldOnce, ClaimYounger, AbsentUnused, Holds, Fresh
    <3>5. ExclusiveSend'
      BY DEF ExclusiveSend, FreshHeldOnce, FreshAckedSettled, Holds, Fresh, Sending
    <3> QED
      BY <3>1, <3>2, <3>3, <3>4, <3>5
  <2>7. ASSUME NEW d \in Drainers, MarkFailed(d) PROVE Rest'
    <3> USE <2>7, <2>t, <2>r DEF MarkFailed, NextRow
    <3>1. AbsentUnused'
      BY DEF AbsentUnused, Holds
    <3>2. ClaimYounger'
      BY DEF ClaimYounger
    <3>3. FreshHeldOnce'
      BY DEF FreshHeldOnce, ClaimYounger, AbsentUnused, Holds, Fresh
    <3>4. FreshAckedSettled'
      BY DEF FreshAckedSettled, FreshHeldOnce, ClaimYounger, AbsentUnused, Holds, Fresh
    <3>5. ExclusiveSend'
      BY DEF ExclusiveSend, FreshHeldOnce, FreshAckedSettled, Holds, Fresh, Sending
    <3> QED
      BY <3>1, <3>2, <3>3, <3>4, <3>5
  <2>8. ASSUME NEW d \in Drainers, MarkLost(d) PROVE Rest'
    <3> USE <2>8, <2>t, <2>r DEF MarkLost, NextRow
    <3>1. AbsentUnused'
      BY DEF AbsentUnused, Holds
    <3>2. ClaimYounger'
      BY DEF ClaimYounger
    <3>3. FreshHeldOnce'
      BY DEF FreshHeldOnce, ClaimYounger, AbsentUnused, Holds, Fresh
    <3>4. FreshAckedSettled'
      BY DEF FreshAckedSettled, FreshHeldOnce, ClaimYounger, AbsentUnused, Holds, Fresh
    <3>5. ExclusiveSend'
      BY DEF ExclusiveSend, FreshHeldOnce, FreshAckedSettled, Holds, Fresh, Sending
    <3> QED
      BY <3>1, <3>2, <3>3, <3>4, <3>5
  <2>9. CASE RecoverStaleClaims
    <3> USE <2>9, <2>t, <2>r DEF RecoverStaleClaims, StaleClaim
    <3>1. AbsentUnused'
      BY DEF AbsentUnused, Holds
    <3>2. ClaimYounger'
      BY DEF ClaimYounger
    <3>3. FreshHeldOnce'
      BY DEF FreshHeldOnce, ClaimYounger, AbsentUnused, Holds, Fresh
    <3>4. FreshAckedSettled'
      BY DEF FreshAckedSettled, FreshHeldOnce, ClaimYounger, AbsentUnused, Holds, Fresh
    <3>5. ExclusiveSend'
      BY DEF ExclusiveSend, FreshHeldOnce, FreshAckedSettled, Holds, Fresh, Sending
    <3> QED
      BY <3>1, <3>2, <3>3, <3>4, <3>5
  <2>10. ASSUME NEW g \in Rounds, NEW lead \in 0..MaxLead, NoteTargetStarted(g, lead) PROVE Rest'
    <3> USE <2>10, <2>t, <2>r DEF NoteTargetStarted
    <3>1. AbsentUnused'
      BY DEF AbsentUnused, Holds
    <3>2. ClaimYounger'
      BY DEF ClaimYounger
    <3>3. FreshHeldOnce'
      BY DEF FreshHeldOnce, ClaimYounger, AbsentUnused, Holds, Fresh
    <3>4. FreshAckedSettled'
      BY DEF FreshAckedSettled, FreshHeldOnce, ClaimYounger, AbsentUnused, Holds, Fresh
    <3>5. ExclusiveSend'
      BY DEF ExclusiveSend, FreshHeldOnce, FreshAckedSettled, Holds, Fresh, Sending
    <3> QED
      BY <3>1, <3>2, <3>3, <3>4, <3>5
  <2>11. CASE Crash
    <3> USE <2>11, <2>t, <2>r DEF Crash
    <3>1. AbsentUnused'
      BY DEF AbsentUnused, Holds
    <3>2. ClaimYounger'
      BY DEF ClaimYounger
    <3>3. FreshHeldOnce'
      BY DEF FreshHeldOnce, ClaimYounger, AbsentUnused, Holds, Fresh
    <3>4. FreshAckedSettled'
      BY DEF FreshAckedSettled, FreshHeldOnce, ClaimYounger, AbsentUnused, Holds, Fresh
    <3>5. ExclusiveSend'
      BY DEF ExclusiveSend, FreshHeldOnce, FreshAckedSettled, Holds, Fresh, Sending
    <3> QED
      BY <3>1, <3>2, <3>3, <3>4, <3>5
  <2>12. CASE Tick
    <3> USE <2>12, <2>t, <2>r DEF Tick, Older, Sooner
    <3>1. AbsentUnused'
      BY DEF AbsentUnused, Holds
    <3>2. ClaimYounger'
      BY DEF ClaimYounger
    <3>3. FreshHeldOnce'
      BY DEF FreshHeldOnce, ClaimYounger, AbsentUnused, Holds, Fresh
    <3>4. FreshAckedSettled'
      BY DEF FreshAckedSettled, FreshHeldOnce, ClaimYounger, AbsentUnused, Holds, Fresh
    <3>5. ExclusiveSend'
      BY DEF ExclusiveSend, FreshHeldOnce, FreshAckedSettled, Holds, Fresh, Sending
    <3> QED
      BY <3>1, <3>2, <3>3, <3>4, <3>5
  <2>13. CASE UNCHANGED vars
    BY <2>13, <2>r DEF vars, AbsentUnused, ClaimYounger, FreshHeldOnce,
       FreshAckedSettled, ExclusiveSend, Holds, Fresh, Sending
  <2> QED
    BY <2>1, <2>2, <2>3, <2>4, <2>5, <2>6, <2>7, <2>8, <2>9, <2>10, <2>11, <2>12, <2>13 DEF Next, DrainBatch
<1>3. QED
  BY <1>1, <1>2, PTL DEF Spec

\* No row is sent by two threads at once or sent again after it was
\* acknowledged, for every number of rows and drainers, every crash and lost
\* update, and all limits with Deadline <= ClaimStale.
THEOREM NoDoubleSend == Spec => []ExclusiveSend
<1> QED
  BY InductiveInvariant, PTL DEF IInv
=============================================================================
