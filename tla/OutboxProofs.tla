---------------------------- MODULE OutboxProofs ----------------------------
(***************************************************************************)
(* Proofs about the in-memory outbox, for any number of keys, publishers   *)
(* and workers and any capacity, and about its claims under leases         *)
(* (Leased), for any keys, capacity and number of attempts and finitely    *)
(* many workers, and about the database connection (Conn), for any threads *)
(* and any number of migrations and faults, and about the attempts of      *)
(* prediction requests (Att), for any targets, threads and ring.           *)
(***************************************************************************)
EXTENDS MCOutbox, TLAPS, FiniteSetTheorems, SequenceTheorems

(* Outbox and its worker.                                                  *)

\* What Append does to the items of a queue.
LEMMA AppendFacts ==
    ASSUME NEW s \in Seq(Items), NEW e \in Items
    PROVE  /\ Append(s, e) \in Seq(Items)
           /\ Len(Append(s, e)) = Len(s) + 1
           /\ DOMAIN Append(s, e) = DOMAIN s \cup {Len(s) + 1}
           /\ \A i \in DOMAIN s : Append(s, e)[i] = s[i] /\ i # Len(s) + 1
           /\ Append(s, e)[Len(s) + 1] = e
  OBVIOUS

\* What Head and Tail do to the items of a non-empty queue.
LEMMA TailFacts ==
    ASSUME NEW s \in Seq(Items), s # <<>>
    PROVE  /\ Head(s) \in Items
           /\ Head(s) = s[1]
           /\ 1 \in DOMAIN s
           /\ Tail(s) \in Seq(Items)
           /\ Len(Tail(s)) = Len(s) - 1
           /\ \A i \in DOMAIN Tail(s) :
                 i + 1 \in DOMAIN s /\ i + 1 # 1 /\ Tail(s)[i] = s[i + 1]
  OBVIOUS

\* The initial state is well typed.
LEMMA InitType == Init => TypeOK
<1> SUFFICES ASSUME Init PROVE TypeOK
  OBVIOUS
<1>1. queue \in Seq(Items) /\ Len(queue) <= Capacity
  BY CapacityAssumption DEF Init
<1>2. /\ pubPc \in [Publishers -> {"idle", "reserved", "full"}]
      /\ pubKey \in [Publishers -> Keys \cup {NoKey}]
      /\ \A p \in Publishers : pubPc[p] = "idle" <=> pubKey[p] = NoKey
  BY DEF Init
<1>3. /\ wrkPc \in [Workers -> {"idle", "inflight", "ok", "failed"}]
      /\ wrkItem \in [Workers -> Items \cup {NoItem}]
      /\ \A w \in Workers : wrkPc[w] = "idle" <=> wrkItem[w] = NoItem
  BY DEF Init
<1> QED
  BY <1>1, <1>2, <1>3 DEF Init, TypeOK

\* Every step of a publisher or a worker keeps the types.
LEMMA TypeStep == TypeOK /\ [Next]_vars => TypeOK'
<1> SUFFICES ASSUME TypeOK, [Next]_vars PROVE TypeOK'
  OBVIOUS
<1> USE CapacityAssumption, AttemptsAssumption, NoKeyAssumption, NoItemAssumption
    DEF TypeOK
<1>1. ASSUME NEW p \in Publishers, NEW k \in Keys, Reserve(p, k) PROVE TypeOK'
  BY <1>1 DEF Reserve
<1>2. ASSUME NEW p \in Publishers, NEW k \in Keys, RefuseDuplicate(p, k) PROVE TypeOK'
  BY <1>2 DEF RefuseDuplicate, vars
<1>3. ASSUME NEW p \in Publishers, Enqueue(p) PROVE TypeOK'
  <2> DEFINE item == [key |-> pubKey[p], attempts |-> 0]
  <2>1. item \in Items
    BY <1>3 DEF Enqueue, Items
  <2>2. queue' \in Seq(Items) /\ Len(queue') <= Capacity
    <3>1. CASE HasRoom
      <4>1. queue' = Append(queue, item)
        BY <1>3, <3>1 DEF Enqueue
      <4> HIDE DEF item
      <4> QED
        BY <2>1, <3>1, <4>1, AppendFacts DEF HasRoom
    <3>2. CASE ~HasRoom
      BY <1>3, <3>2 DEF Enqueue
    <3> QED
      BY <3>1, <3>2
  <2> QED
    BY <1>3, <2>2 DEF Enqueue
<1>4. ASSUME NEW p \in Publishers, Unreserve(p) PROVE TypeOK'
  BY <1>4 DEF Unreserve
<1>5. ASSUME NEW w \in Workers, Claim(w) PROVE TypeOK'
  <2>1. Head(queue) \in Items /\ queue' \in Seq(Items) /\ Len(queue') <= Capacity
    BY <1>5, TailFacts DEF Claim
  <2>2. Head(queue) # NoItem
    BY <2>1 DEF Items
  <2> QED
    BY <1>5, <2>1, <2>2 DEF Claim
<1>6. ASSUME NEW w \in Workers, DeliverOk(w) PROVE TypeOK'
  <2>1. acked' \in [Keys -> Nat]
    BY <1>6 DEF DeliverOk, Items, OneMore
  <2> QED
    BY <1>6, <2>1 DEF DeliverOk
<1>7. ASSUME NEW w \in Workers, DeliverFails(w) PROVE TypeOK'
  BY <1>7 DEF DeliverFails
<1>8. ASSUME NEW w \in Workers, MarkDelivered(w) PROVE TypeOK'
  BY <1>8 DEF MarkDelivered, Finish, Items
<1>9. ASSUME NEW w \in Workers, MarkFailed(w) PROVE TypeOK'
  <2> DEFINE item == [key |-> wrkItem[w].key, attempts |-> wrkItem[w].attempts + 1]
  <2>1. wrkItem[w] \in Items
    BY <1>9 DEF MarkFailed
  <2>2. queue' \in Seq(Items) /\ Len(queue') <= Capacity
    <3>1. CASE item.attempts >= MaxAttempts
      BY <1>9, <3>1 DEF MarkFailed, AttemptsAfterFailure
    <3>2. CASE ~(item.attempts >= MaxAttempts)
      <4>1. item \in Items
        BY <2>1, <3>2 DEF Items
      <4>2. \/ HasRoom /\ queue' = Append(queue, item)
            \/ queue' = queue
        BY <1>9, <3>2 DEF MarkFailed, AttemptsAfterFailure
      <4> HIDE DEF item
      <4>3. CASE HasRoom /\ queue' = Append(queue, item)
        BY <4>1, <4>3, AppendFacts DEF HasRoom
      <4>4. CASE queue' = queue
        BY <4>4
      <4> QED
        BY <4>2, <4>3, <4>4
    <3> QED
      BY <3>1, <3>2
  <2>3. pending_keys' \subseteq Keys
    BY <1>9 DEF MarkFailed, DeadLetter
  <2>4. dropped' \subseteq Keys
    BY <1>9, <2>1 DEF MarkFailed, Items
  <2> QED
    BY <1>9, <2>2, <2>3, <2>4 DEF MarkFailed, Finish
<1>10. CASE UNCHANGED vars
  BY <1>10 DEF vars
<1> QED
  BY <1>1, <1>2, <1>3, <1>4, <1>5, <1>6, <1>7, <1>8, <1>9, <1>10
  DEF Next, Publish, Run

\* The variables keep their types through every step of a publisher or a
\* worker; in particular the queue never exceeds its capacity and an item
\* that is queued again has attempts left (outbox.hpp:70-84).
THEOREM TypeCorrect == Spec => []TypeOK
<1> QED
  BY InitType, TypeStep, PTL DEF Spec

\* Facts of a well-typed state about the items that exist.
LEMMA ItemFacts ==
    ASSUME TypeOK
    PROVE  /\ \A p \in Publishers : pubPc[p] # "idle" => pubKey[p] \in Keys
           /\ \A p \in Publishers : pubKey[p] \in Keys => pubPc[p] # "idle"
           /\ \A i \in DOMAIN queue : queue[i] \in Items /\ queue[i].key \in Keys
           /\ \A w \in Workers : wrkPc[w] # "idle" =>
                 wrkItem[w] \in Items /\ wrkItem[w].key \in Keys
<1>1. \A p \in Publishers : pubPc[p] # "idle" <=> pubKey[p] \in Keys
  BY NoKeyAssumption DEF TypeOK
<1>2. \A i \in DOMAIN queue : queue[i] \in Items
  BY DEF TypeOK
<1>3. \A w \in Workers : wrkPc[w] # "idle" => wrkItem[w] \in Items
  BY DEF TypeOK
<1>4. \A i \in Items : i.key \in Keys
  BY DEF Items
<1> QED
  BY <1>1, <1>2, <1>3, <1>4

\* The invariant behind OneCopyPerKey and DeliveredOnce: copies are covered by
\* reservations, a key has one copy, no key is both reserved and delivered, and
\* successful deliveries are remembered (outbox.hpp:23-84).
THEOREM InductiveInvariant == Spec => []IInv
<1>1. Init => IInv
  <2> SUFFICES ASSUME Init PROVE IInv
    OBVIOUS
  <2>1. TypeOK
    BY InitType
  <2> QED
    BY <2>1, NoKeyAssumption DEF IInv, Init, CopiesReserved, OneCopyPerKey, ReservedNotDelivered,
       DeliveriesRemembered, Live, Publishing, Queued, Holding
<1>2. IInv /\ [Next]_vars => IInv'
  <2> SUFFICES ASSUME IInv, [Next]_vars PROVE IInv'
    OBVIOUS
  <2>t. TypeOK /\ TypeOK'
    BY TypeStep DEF IInv
  <2>f. /\ \A p \in Publishers : pubPc[p] # "idle" => pubKey[p] \in Keys
        /\ \A p \in Publishers : pubKey[p] \in Keys => pubPc[p] # "idle"
        /\ \A i \in DOMAIN queue : queue[i] \in Items /\ queue[i].key \in Keys
        /\ \A w \in Workers : wrkPc[w] # "idle" =>
                 wrkItem[w] \in Items /\ wrkItem[w].key \in Keys
    BY <2>t, ItemFacts
  <2> DEFINE Rest == CopiesReserved /\ OneCopyPerKey /\ ReservedNotDelivered /\ DeliveriesRemembered
  <2>r. Rest
    BY DEF IInv
  <2> SUFFICES Rest'
    BY <2>t DEF IInv
  <2>1. ASSUME NEW p \in Publishers, NEW k \in Keys, Reserve(p, k) PROVE Rest'
    <3> USE <2>1, <2>t, <2>f, <2>r DEF Reserve, Refused, TypeOK
    <3>1. ~Live(k)
      BY DEF CopiesReserved
    <3>2. CopiesReserved'
      BY DEF CopiesReserved, Live, Publishing, Queued, Holding
    <3>3. OneCopyPerKey'
      BY <3>1 DEF OneCopyPerKey, Live, Publishing, Queued, Holding
    <3>4. ReservedNotDelivered'
      BY DEF ReservedNotDelivered
    <3>5. DeliveriesRemembered'
      BY DEF DeliveriesRemembered, Holding
    <3> QED
      BY <3>2, <3>3, <3>4, <3>5
  <2>2. ASSUME NEW p \in Publishers, NEW k \in Keys, RefuseDuplicate(p, k) PROVE Rest'
    <3>1. UNCHANGED vars
      BY <2>2 DEF RefuseDuplicate
    <3> QED
      BY <3>1, <2>r DEF vars, CopiesReserved, OneCopyPerKey, ReservedNotDelivered,
         DeliveriesRemembered, Live, Publishing, Queued, Holding
  <2>3. ASSUME NEW p \in Publishers, Enqueue(p) PROVE Rest'
    <3> USE <2>r
    <3>1. CASE HasRoom
      <4> DEFINE item == [key |-> pubKey[p], attempts |-> 0]
                 n == Len(queue) + 1
      <4>1. pubKey[p] \in Keys /\ item \in Items /\ item.key = pubKey[p]
        BY <2>3, <2>f, AttemptsAssumption DEF Enqueue, Items
      <4>2. queue' = Append(queue, item)
        BY <2>3, <3>1 DEF Enqueue
      <4>3. /\ DOMAIN queue' = DOMAIN queue \cup {n}
            /\ \A i \in DOMAIN queue : queue'[i] = queue[i] /\ i # n
            /\ queue'[n] = item
        <5> HIDE DEF item
        <5> QED
          BY <4>1, <4>2, <2>t, AppendFacts DEF TypeOK
      <4>4. /\ pubKey' = [pubKey EXCEPT ![p] = NoKey]
            /\ UNCHANGED <<pending_keys, delivered_keys, wrkPc, wrkItem, acked, forgotten>>
        BY <2>3, <3>1 DEF Enqueue
      <4> HIDE DEF item, n
      <4> USE <4>1, <4>3, <4>4, <2>t, NoKeyAssumption DEF TypeOK
      <4>5. CopiesReserved'
        BY DEF CopiesReserved, Live, Publishing, Queued, Holding
      <4>6. OneCopyPerKey'
        BY DEF OneCopyPerKey, Publishing, Queued, Holding
      <4>7. ReservedNotDelivered'
        BY DEF ReservedNotDelivered
      <4>8. DeliveriesRemembered'
        BY DEF DeliveriesRemembered, Holding
      <4> QED
        BY <4>5, <4>6, <4>7, <4>8
    <3>2. CASE ~HasRoom
      <4>1. UNCHANGED <<queue, pubKey, pending_keys, delivered_keys, wrkPc, wrkItem, acked, forgotten>>
        BY <2>3, <3>2 DEF Enqueue
      <4> QED
        BY <4>1 DEF CopiesReserved, OneCopyPerKey, ReservedNotDelivered,
           DeliveriesRemembered, Live, Publishing, Queued, Holding
    <3> QED
      BY <3>1, <3>2
  <2>4. ASSUME NEW p \in Publishers, Unreserve(p) PROVE Rest'
    <3> USE <2>4, <2>t, <2>f, <2>r, NoKeyAssumption DEF Unreserve, TypeOK
    <3>1. CopiesReserved'
      BY DEF CopiesReserved, OneCopyPerKey, Live, Publishing, Queued, Holding
    <3>2. OneCopyPerKey'
      BY DEF OneCopyPerKey, Publishing, Queued, Holding
    <3>3. ReservedNotDelivered'
      BY DEF ReservedNotDelivered
    <3>4. DeliveriesRemembered'
      BY DEF DeliveriesRemembered, Holding
    <3> QED
      BY <3>1, <3>2, <3>3, <3>4
  <2>5. ASSUME NEW w \in Workers, Claim(w) PROVE Rest'
    <3>1. /\ Head(queue) = queue[1]
          /\ 1 \in DOMAIN queue
          /\ \A i \in DOMAIN queue' :
                i + 1 \in DOMAIN queue /\ i + 1 # 1 /\ queue'[i] = queue[i + 1]
      BY <2>5, <2>t, TailFacts DEF Claim, TypeOK
    <3>2. \A i, j \in DOMAIN queue' : i + 1 = j + 1 => i = j
      BY <2>t DEF TypeOK
    <3>3. \A v \in Workers, k \in Keys :
            Holding(v, k)' <=> (IF v = w THEN Queued(1, k) ELSE Holding(v, k))
      BY <2>5, <2>t, <3>1 DEF Claim, TypeOK, Holding, Queued
    <3>4. \A i \in DOMAIN queue', k \in Keys : Queued(i, k)' <=> Queued(i + 1, k)
      BY <3>1 DEF Queued
    <3>5. /\ \A q \in Publishers, k \in Keys : Publishing(q, k)' <=> Publishing(q, k)
          /\ UNCHANGED <<pending_keys, delivered_keys, acked, forgotten>>
      BY <2>5 DEF Claim, Publishing
    <3>6. CopiesReserved'
      BY <2>r, <3>1, <3>3, <3>4, <3>5 DEF CopiesReserved, Live
    <3>7. OneCopyPerKey'
      BY <2>r, <3>1, <3>2, <3>3, <3>4, <3>5 DEF OneCopyPerKey
    <3>8. ReservedNotDelivered'
      BY <2>r, <3>5 DEF ReservedNotDelivered
    <3>9. DeliveriesRemembered'
      <4>1. \A v \in Workers : wrkPc'[v] = "ok" <=> wrkPc[v] = "ok"
        BY <2>5, <2>t DEF Claim, TypeOK
      <4>2. \A v \in Workers : wrkPc[v] = "ok" => v # w
        BY <2>5 DEF Claim
      <4> QED
        BY <2>r, <3>3, <3>5, <4>1, <4>2 DEF DeliveriesRemembered
    <3> QED
      BY <3>6, <3>7, <3>8, <3>9
  <2>6. ASSUME NEW w \in Workers, DeliverOk(w) PROVE Rest'
    <3> DEFINE key == wrkItem[w].key
    <3>1. key \in Keys /\ Holding(w, key)
      BY <2>6, <2>f DEF DeliverOk, Holding
    <3>2. /\ \A v \in Workers, k \in Keys : Holding(v, k)' <=> Holding(v, k)
          /\ \A v \in Workers : wrkPc'[v] = "ok" <=> (v = w \/ wrkPc[v] = "ok")
          /\ wrkPc[w] # "ok"
          /\ acked' = [acked EXCEPT ![key] = OneMore(@)]
          /\ UNCHANGED <<queue, pubKey, pending_keys, delivered_keys, forgotten>>
      BY <2>6, <2>t DEF DeliverOk, Holding, TypeOK
    <3> HIDE DEF key
    <3>3. CopiesReserved' /\ OneCopyPerKey' /\ ReservedNotDelivered'
      BY <2>r, <3>2 DEF CopiesReserved, OneCopyPerKey, ReservedNotDelivered,
         Live, Publishing, Queued
    <3>4. key \notin delivered_keys /\ \A v \in Workers : Holding(v, key) => v = w
      BY <2>r, <3>1 DEF CopiesReserved, OneCopyPerKey, ReservedNotDelivered, Live
    <3>5. DeliveriesRemembered'
      <4> SUFFICES ASSUME ~forgotten, NEW k \in Keys
                   PROVE  acked'[k] = IF \/ k \in delivered_keys'
                                         \/ \E v \in Workers : wrkPc'[v] = "ok" /\ Holding(v, k)'
                                      THEN 1 ELSE 0
        BY <3>2 DEF DeliveriesRemembered
      <4>1. acked[k] = IF \/ k \in delivered_keys
                          \/ \E v \in Workers : wrkPc[v] = "ok" /\ Holding(v, k)
                       THEN 1 ELSE 0
        BY <2>r DEF DeliveriesRemembered
      <4>2. CASE k = key
        <5>1. acked[k] = 0
          BY <3>2, <3>4, <4>1, <4>2
        <5>2. acked'[k] = 1
          BY <2>t, <3>2, <4>2, <5>1 DEF TypeOK, OneMore
        <5> QED
          BY <3>1, <3>2, <4>2, <5>2
      <4>3. CASE k # key
        <5>1. acked'[k] = acked[k]
          BY <2>t, <3>2, <4>3 DEF TypeOK
        <5>2. ~Holding(w, k)
          BY <4>3 DEF Holding, key
        <5> QED
          BY <3>2, <4>1, <5>1, <5>2
      <4> QED
        BY <4>2, <4>3
    <3> QED
      BY <3>3, <3>5
  <2>7. ASSUME NEW w \in Workers, DeliverFails(w) PROVE Rest'
    <3>1. /\ \A v \in Workers, k \in Keys : Holding(v, k)' <=> Holding(v, k)
          /\ \A v \in Workers : wrkPc'[v] = "ok" <=> wrkPc[v] = "ok"
          /\ UNCHANGED <<queue, pubKey, pending_keys, delivered_keys, acked, forgotten>>
      BY <2>7, <2>t DEF DeliverFails, Holding, TypeOK
    <3> QED
      BY <2>r, <3>1 DEF CopiesReserved, OneCopyPerKey, ReservedNotDelivered,
         DeliveriesRemembered, Live, Publishing, Queued
  <2>8. ASSUME NEW w \in Workers, MarkDelivered(w) PROVE Rest'
    <3> DEFINE key == wrkItem[w].key
    <3>1. key \in Keys /\ Holding(w, key) /\ wrkPc[w] = "ok"
      BY <2>8, <2>f DEF MarkDelivered, Holding
    <3>2. /\ \A v \in Workers, k \in Keys : Holding(v, k)' <=> (v # w /\ Holding(v, k))
          /\ \A v \in Workers : v # w => wrkPc'[v] = wrkPc[v]
          /\ pending_keys' = pending_keys \ {key}
          /\ UNCHANGED <<queue, pubKey, acked>>
      BY <2>8, <2>t DEF MarkDelivered, Finish, Holding, TypeOK
    <3>3. \/ delivered_keys' = delivered_keys \cup {key} /\ forgotten' = forgotten
          \/ delivered_keys' = {} /\ forgotten'
      BY <2>8, <2>t DEF MarkDelivered, TypeOK
    <3>4. \A k \in Keys : Holding(w, k) => k = key
      BY DEF Holding
    <3> HIDE DEF key
    <3>5. CopiesReserved'
      BY <2>r, <3>1, <3>2, <3>4 DEF CopiesReserved, OneCopyPerKey, Live, Publishing, Queued
    <3>6. OneCopyPerKey'
      BY <2>r, <3>2 DEF OneCopyPerKey, Publishing, Queued
    <3>7. ReservedNotDelivered'
      BY <2>r, <3>2, <3>3 DEF ReservedNotDelivered
    <3>8. DeliveriesRemembered'
      BY <2>r, <3>1, <3>2, <3>3, <3>4 DEF DeliveriesRemembered, OneCopyPerKey
    <3> QED
      BY <3>5, <3>6, <3>7, <3>8
  <2>9. ASSUME NEW w \in Workers, MarkFailed(w) PROVE Rest'
    <3> DEFINE key == wrkItem[w].key
               item == [key |-> key, attempts |-> wrkItem[w].attempts + 1]
               n == Len(queue) + 1
    <3>1. key \in Keys /\ Holding(w, key) /\ wrkPc[w] = "failed"
      BY <2>9, <2>f DEF MarkFailed, Holding
    <3>2. /\ \A v \in Workers, k \in Keys : Holding(v, k)' <=> (v # w /\ Holding(v, k))
          /\ \A v \in Workers : wrkPc'[v] = "ok" <=> wrkPc[v] = "ok"
          /\ wrkPc[w] # "ok"
          /\ UNCHANGED <<pubKey, delivered_keys, acked, forgotten>>
      BY <2>9, <2>t DEF MarkFailed, Finish, Holding, TypeOK
    <3>3. \A k \in Keys : Holding(w, k) => k = key
      BY DEF Holding
    <3>4. \/ queue' = queue /\ pending_keys' = pending_keys \ {key}
          \/ queue' = queue /\ pending_keys' = pending_keys
          \/ /\ item \in Items
             /\ queue' = Append(queue, item)
             /\ pending_keys' = pending_keys
      BY <2>9, <2>t, <2>f, AttemptsAssumption
      DEF MarkFailed, AttemptsAfterFailure, DeadLetter, HasRoom, TypeOK, Items
    <3>5. DeliveriesRemembered'
      BY <2>r, <3>2 DEF DeliveriesRemembered
    <3>6. ReservedNotDelivered'
      BY <2>r, <3>2, <3>4 DEF ReservedNotDelivered
    <3>7. CASE queue' = queue
      <4> HIDE DEF key, item
      <4>1. CopiesReserved'
        BY <2>r, <3>1, <3>2, <3>3, <3>4, <3>7
        DEF CopiesReserved, OneCopyPerKey, Live, Publishing, Queued
      <4>2. OneCopyPerKey'
        BY <2>r, <3>2, <3>7 DEF OneCopyPerKey, Publishing, Queued
      <4> QED
        BY <3>5, <3>6, <4>1, <4>2
    <3>8. CASE /\ item \in Items
               /\ queue' = Append(queue, item)
               /\ pending_keys' = pending_keys
      <4>1. item.key = key
        OBVIOUS
      <4> HIDE DEF item, key, n
      <4>2. /\ DOMAIN queue' = DOMAIN queue \cup {n}
            /\ \A i \in DOMAIN queue : queue'[i] = queue[i] /\ i # n
            /\ queue'[n] = item
        BY <3>8, <2>t, AppendFacts DEF TypeOK, n
      <4>3. CopiesReserved'
        BY <2>r, <3>1, <3>2, <3>8, <4>1, <4>2
        DEF CopiesReserved, Live, Publishing, Queued
      <4>4. OneCopyPerKey'
        BY <2>r, <3>1, <3>2, <4>1, <4>2 DEF OneCopyPerKey, Publishing, Queued
      <4> QED
        BY <3>5, <3>6, <4>3, <4>4
    <3> QED
      BY <3>4, <3>7, <3>8
  <2>10. CASE UNCHANGED vars
    BY <2>10, <2>r DEF vars, CopiesReserved, OneCopyPerKey, ReservedNotDelivered,
       DeliveriesRemembered, Live, Publishing, Queued, Holding
  <2> QED
    BY <2>1, <2>2, <2>3, <2>4, <2>5, <2>6, <2>7, <2>8, <2>9, <2>10
    DEF Next, Publish, Run
<1>3. QED
  BY <1>1, <1>2, PTL DEF Spec

\* Whatever the publishers and the workers interleave, a key has at most one
\* copy (Outbox::publish, markDelivered and markFailed, outbox.hpp:23-84).
THEOREM OneCopy == Spec => []OneCopyPerKey
<1> QED
  BY InductiveInvariant, PTL DEF IInv

\* A notification is delivered successfully at most once, until delivered_keys_
\* is cleared at its limit (outbox.hpp:60-68).
THEOREM AtMostOnce == Spec => []DeliveredOnce
<1>1. IInv => DeliveredOnce
  BY DEF IInv, DeliveriesRemembered, DeliveredOnce
<1> QED
  BY <1>1, InductiveInvariant, PTL

-----------------------------------------------------------------------------

(* OutboxLifecycle.                                                        *)

\* The worker w has gone to p, with its item; of the other workers nothing changes.
Becomes(w, p, leased, late) ==
    /\ worker' \in [LeasedWorkers ->
           [pc : {"idle", "claimed", "sending", "ok", "failed", "marked"}, key : LeasedKeys \cup {""},
            attempts : Nat, leased : BOOLEAN, late : BOOLEAN]]
    /\ \A v \in LeasedWorkers : v # w => worker'[v] = worker[v]
    /\ worker'[w].pc = p /\ worker'[w].key = worker[w].key
    /\ worker'[w].leased = leased /\ worker'[w].late = late

LEMMA LeasedMoves ==
    ASSUME Leased!TypeOK, NEW w \in LeasedWorkers
    PROVE  /\ Leased!Lease(w) => Becomes(w, "sending", TRUE, worker[w].late)
           /\ \A ok \in BOOLEAN : Leased!Send(w, ok) =>
                  Becomes(w, IF ok THEN "ok" ELSE "failed", worker[w].leased, worker[w].late)
           /\ Leased!MarkOk(w) \/ Leased!MarkBad(w) => Becomes(w, "marked", worker[w].leased, worker[w].late)
           /\ Leased!Expires(w) => Becomes(w, worker[w].pc, worker[w].leased, TRUE)
<1> DEFINE W == [LeasedWorkers -> [pc : {"idle", "claimed", "sending", "ok", "failed", "marked"},
               key : LeasedKeys \cup {""}, attempts : Nat, leased : BOOLEAN, late : BOOLEAN]]
<1>0. worker \in W
  BY DEF Leased!TypeOK
<1>1. ASSUME Leased!Lease(w) PROVE Becomes(w, "sending", TRUE, worker[w].late)
  <2>1. worker' = [worker EXCEPT ![w].pc = "sending", ![w].leased = TRUE]
    BY <1>1 DEF Leased!Lease
  <2>2. worker' \in W
    BY <1>0, <2>1, ZenonT(60)
  <2>3. worker'[w].leased = TRUE
    BY <1>0, <2>1
  <2>4. worker'[w].pc = "sending" /\ worker'[w].key = worker[w].key /\ worker'[w].late = worker[w].late
    BY <1>0, <2>1
  <2>5. \A v \in LeasedWorkers : v # w => worker'[v] = worker[v]
    BY <1>0, <2>1
  <2> QED
    BY <2>2, <2>3, <2>4, <2>5, Zenon DEF Becomes
<1>2. ASSUME NEW p \in {"ok", "failed", "marked"}, worker' = [worker EXCEPT ![w].pc = p]
      PROVE  Becomes(w, p, worker[w].leased, worker[w].late)
  <2>1. worker' \in W
    BY <1>0, <1>2
  <2> QED
    BY <1>0, <1>2, <2>1 DEF Becomes
<1>3. ASSUME NEW ok \in BOOLEAN, Leased!Send(w, ok)
      PROVE  Becomes(w, IF ok THEN "ok" ELSE "failed", worker[w].leased, worker[w].late)
  <2>1. CASE ok
    BY <1>2, <1>3, <2>1 DEF Leased!Send
  <2>2. CASE ~ok
    BY <1>2, <1>3, <2>2 DEF Leased!Send
  <2> QED
    BY <2>1, <2>2
<1>4. ASSUME Leased!MarkOk(w) \/ Leased!MarkBad(w)
      PROVE  Becomes(w, "marked", worker[w].leased, worker[w].late)
  BY <1>2, <1>4 DEF Leased!MarkOk, Leased!MarkBad
<1>5. ASSUME Leased!Expires(w) PROVE Becomes(w, worker[w].pc, worker[w].leased, TRUE)
  <2>1. worker' = [worker EXCEPT ![w].late = TRUE]
    BY <1>5 DEF Leased!Expires
  <2>2. worker' \in W
    BY <1>0, <2>1
  <2> QED
    BY <1>0, <2>1, <2>2 DEF Becomes
<1> QED
  BY <1>1, <1>3, <1>4, <1>5

LEMMA LeasedInit == Leased!Init => Leased!IInv
<1> SUFFICES ASSUME Leased!Init PROVE Leased!IInv
  OBVIOUS
<1>1. Leased!TypeOK
  <2>1. Leased!Free \in [pc : {"idle", "claimed", "sending", "ok", "failed", "marked"},
            key : LeasedKeys \cup {""}, attempts : Nat, leased : BOOLEAN, late : BOOLEAN]
    BY DEF Leased!Free
  <2>2. leasedAcked \in [LeasedKeys -> 0 .. 2] /\ leasedQueue \in Seq(Leased!Items) /\ requeue \in Seq(Leased!Items)
    BY DEF Leased!Init
  <2> QED
    BY <2>1, <2>2 DEF Leased!Init, Leased!TypeOK
<1>2. \A w \in LeasedWorkers : worker[w].pc = "idle" /\ worker[w].leased = FALSE /\ worker[w].late = FALSE
  BY DEF Leased!Init, Leased!Free
<1>3. Leased!Leases
  BY <1>2 DEF Leased!Init, Leased!Leases
<1>4. \A k \in LeasedKeys : Leased!OneCopy(k)
  <2>1. \A k \in LeasedKeys : leasedAcked[k] = 0
    BY DEF Leased!Init
  <2> QED
    BY <1>2 DEF Leased!Init, Leased!OneCopy, Leased!Queued, Leased!With
<1> QED
  BY <1>1, <1>3, <1>4 DEF Leased!IInv, Leased!Init

\* Nothing but the state of the worker, and perhaps acked, changes.
LEMMA LeasedLease ==
    ASSUME Leased!IInv, NEW w \in LeasedWorkers, Leased!Lease(w)
    PROVE  Leased!IInv'
<1>1. /\ worker[w].pc = "claimed" /\ worker[w].key \in LeasedKeys
      /\ UNCHANGED <<leasedQueue, pending, delivered, requeue, leasedAcked, expired, leasedDropped, published>>
  BY DEF Leased!Lease, Leased!IInv, Leased!Leases
<1>2. Becomes(w, "sending", TRUE, worker[w].late)
  BY LeasedMoves DEF Leased!IInv
<1>3. Leased!TypeOK'
  BY <1>1, <1>2 DEF Leased!IInv, Leased!TypeOK, Becomes
<1>4. Leased!Leases'
  BY <1>1, <1>2 DEF Leased!IInv, Leased!Leases, Becomes
<1>5. \A k : /\ \A v \in LeasedWorkers : Leased!With(v, k)' <=> Leased!With(v, k)
             /\ \A v \in LeasedWorkers : Leased!Holds(v, k)' <=> Leased!Holds(v, k)
  <2> TAKE k
  <2>1. Leased!With(w, k) <=> worker[w].key = k
    BY <1>1 DEF Leased!With
  <2>2. Leased!Holds(w, k) <=> worker[w].key = k
    BY <1>1 DEF Leased!With, Leased!Holds
  <2> QED
    BY <1>1, <1>2, <2>1, <2>2 DEF Becomes, Leased!With, Leased!Holds
<1>6. \A k, i : Leased!Queued(i, k)' <=> Leased!Queued(i, k)
  BY <1>1 DEF Leased!Queued
<1>7. ASSUME NEW k \in pending PROVE Leased!HasCopy(k)'
  BY <1>1, <1>5, <1>6 DEF Leased!IInv, Leased!HasCopy, Leased!Returning
<1>8. ASSUME NEW k \in LeasedKeys PROVE Leased!OneCopy(k)'
  <2>1. Leased!OneCopy(k)
    BY DEF Leased!IInv
  <2>2. \A v \in LeasedWorkers : worker'[v].pc = "ok" <=> worker[v].pc = "ok"
    BY <1>1, <1>2 DEF Becomes
  <2> QED
    BY <1>1, <1>5, <1>6, <2>1, <2>2 DEF Leased!OneCopy
<1> QED
  BY <1>1, <1>3, <1>4, <1>7, <1>8 DEF Leased!IInv

LEMMA LeasedSend ==
    ASSUME Leased!IInv, NEW w \in LeasedWorkers, NEW ok \in BOOLEAN, Leased!Send(w, ok)
    PROVE  Leased!IInv'
<1>0. worker[w].pc = "sending" /\ worker[w].key \in LeasedKeys
  BY DEF Leased!Send, Leased!IInv, Leased!Leases
<1> PICK d \in LeasedKeys : d = worker[w].key
  BY <1>0
<1> DEFINE p == IF ok THEN "ok" ELSE "failed"
<1>1. /\ worker[w].pc = "sending" /\ d = worker[w].key
      /\ UNCHANGED <<leasedQueue, pending, delivered, requeue, expired, leasedDropped, published>>
      /\ leasedAcked' = IF ok /\ leasedAcked[d] < 2 THEN [leasedAcked EXCEPT ![d] = leasedAcked[d] + 1]
                                                    ELSE leasedAcked
  BY <1>0 DEF Leased!Send
<1>2. Becomes(w, p, worker[w].leased, worker[w].late)
  BY LeasedMoves DEF Leased!IInv
<1>3. /\ leasedAcked' \in [LeasedKeys -> 0 .. 2]
      /\ \A k \in LeasedKeys : k # d => leasedAcked'[k] = leasedAcked[k]
      /\ leasedAcked'[d] = IF ok /\ leasedAcked[d] < 2 THEN leasedAcked[d] + 1 ELSE leasedAcked[d]
  <2>1. leasedAcked \in [LeasedKeys -> 0 .. 2]
    BY DEF Leased!IInv, Leased!TypeOK
  <2>2. CASE ok /\ leasedAcked[d] < 2
    BY <1>1, <2>1, <2>2
  <2>3. CASE ~(ok /\ leasedAcked[d] < 2)
    BY <1>1, <2>1, <2>3
  <2> QED
    BY <2>2, <2>3
<1>4. Leased!TypeOK'
  BY <1>1, <1>2, <1>3 DEF Leased!IInv, Leased!TypeOK, Becomes
<1>5. Leased!Leases'
  BY <1>1, <1>2 DEF Leased!IInv, Leased!Leases, Becomes
<1>6. \A k : /\ \A v \in LeasedWorkers : Leased!With(v, k)' <=> Leased!With(v, k)
             /\ \A v \in LeasedWorkers : Leased!Holds(v, k)' <=> Leased!Holds(v, k)
  <2> TAKE k
  <2>1. Leased!With(w, k) <=> d = k
    BY <1>1 DEF Leased!With
  <2>2. Leased!Holds(w, k) <=> d = k /\ worker[w].leased
    BY <1>1 DEF Leased!With, Leased!Holds
  <2>3. p \notin {"idle", "marked"} /\ p # "claimed"
    OBVIOUS
  <2> QED
    BY <1>1, <1>2, <2>1, <2>2, <2>3 DEF Becomes, Leased!With, Leased!Holds
<1>7. \A k, i : Leased!Queued(i, k)' <=> Leased!Queued(i, k)
  BY <1>1 DEF Leased!Queued
<1>8. ASSUME NEW k \in pending PROVE Leased!HasCopy(k)'
  BY <1>1, <1>6, <1>7 DEF Leased!IInv, Leased!HasCopy, Leased!Returning
<1>9. ASSUME NEW k \in LeasedKeys PROVE Leased!OneCopy(k)'
  <2>0. Leased!OneCopy(k)
    BY DEF Leased!IInv
  <2>1. CASE k # d
    <3>1. \A v \in LeasedWorkers : Leased!With(v, k)' => worker'[v] = worker[v]
      BY <1>2, <2>1 DEF Becomes, Leased!With
    <3> QED
      BY <1>1, <1>3, <1>6, <1>7, <2>0, <2>1, <3>1 DEF Leased!OneCopy
  <2>2. CASE k = d
    <3> SUFFICES ASSUME d \notin expired PROVE Leased!OneCopy(d)'
      BY <1>1, <2>2 DEF Leased!OneCopy
    <3>1. Leased!With(w, d) /\ leasedAcked[d] = 0 /\ d \in published
      BY <1>1, <2>0, <2>2 DEF Leased!OneCopy, Leased!With
    <3>2. \A v \in LeasedWorkers : Leased!With(v, d) => v = w
      BY <2>0, <2>2, <3>1 DEF Leased!OneCopy
    <3>3. \A i \in Nat : ~Leased!Queued(i, d)
      BY <2>0, <2>2, <3>1 DEF Leased!OneCopy
    <3>4. worker'[w].pc = p /\ worker'[w].key = d
      BY <1>2 DEF Becomes
    <3>5. leasedAcked'[k] = IF ok THEN 1 ELSE 0
      BY <1>3, <2>2, <3>1
    <3>6. worker'[w].pc = "ok" <=> ok
      BY <3>4
    <3>7. /\ \A v \in LeasedWorkers : Leased!With(v, k)' => v = w
          /\ \A i \in Nat : ~Leased!Queued(i, k)'
      BY <1>6, <1>7, <2>2, <3>2, <3>3
    <3>8. Leased!OneCopy(k)'
      BY <1>1, <2>2, <3>1, <3>5, <3>6, <3>7 DEF Leased!OneCopy
    <3> QED
      BY <2>2, <3>8
  <2> QED
    BY <2>1, <2>2
<1> QED
  BY <1>1, <1>4, <1>5, <1>8, <1>9 DEF Leased!IInv

\* An item more at the end of the queue.
LEMMA LeasedAppend ==
    ASSUME leasedQueue \in Seq(Leased!Items), NEW d \in LeasedKeys, NEW a \in Nat,
           leasedQueue' = Append(leasedQueue, [key |-> d, attempts |-> a])
    PROVE  /\ leasedQueue' \in Seq(Leased!Items)
           /\ \E n \in Nat : \A k \in LeasedKeys, i \in Nat :
                  Leased!Queued(i, k)' <=> Leased!Queued(i, k) \/ (i = n /\ k = d)
<1> DEFINE e == [key |-> d, attempts |-> a]
           n == Len(leasedQueue)
<1>1. e \in Leased!Items /\ e.key = d
  BY DEF Leased!Items
<1> HIDE DEF e
<1>2. /\ leasedQueue' \in Seq(Leased!Items) /\ n \in Nat /\ Len(leasedQueue') = n + 1
      /\ \A i \in 1 .. n : leasedQueue'[i] = leasedQueue[i]
      /\ leasedQueue'[n + 1] = e
  BY <1>1, AppendProperties DEF e
<1>3. DOMAIN leasedQueue' = 1 .. n + 1 /\ DOMAIN leasedQueue = 1 .. n
  BY <1>2
<1> HIDE DEF n
<1>4. ASSUME NEW k \in LeasedKeys, NEW i \in Nat
      PROVE  Leased!Queued(i, k)' <=> Leased!Queued(i, k) \/ (i = n + 1 /\ k = d)
  <2>1. i \in 1 .. n + 1 <=> i \in 1 .. n \/ i = n + 1
    BY <1>2
  <2>2. n + 1 \notin 1 .. n
    BY <1>2
  <2> QED
    BY <1>1, <1>2, <1>3, <2>1, <2>2 DEF Leased!Queued
<1>5. n + 1 \in Nat
  BY <1>2
<1> QED
  BY <1>2, <1>4, <1>5

\* The first item leaves the queue.
LEMMA LeasedHead ==
    ASSUME leasedQueue \in Seq(Leased!Items), leasedQueue # <<>>, leasedQueue' = Tail(leasedQueue)
    PROVE  /\ leasedQueue' \in Seq(Leased!Items) /\ Head(leasedQueue) \in Leased!Items
           /\ \A k \in LeasedKeys : Leased!Queued(1, k) <=> Head(leasedQueue).key = k
           /\ \A k \in LeasedKeys, i \in Nat : Leased!Queued(i, k)' <=> i >= 1 /\ Leased!Queued(i + 1, k)
           /\ \A k \in LeasedKeys, i \in Nat : Leased!Queued(i, k) => i >= 1
<1> DEFINE n == Len(leasedQueue)
<1>1. n \in Nat /\ n >= 1 /\ DOMAIN leasedQueue = 1 .. n
  BY EmptySeq
<1>2. /\ leasedQueue' \in Seq(Leased!Items) /\ Head(leasedQueue) \in Leased!Items
      /\ Head(leasedQueue) = leasedQueue[1] /\ Len(leasedQueue') = n - 1
      /\ \A i \in 1 .. n - 1 : leasedQueue'[i] = leasedQueue[i + 1]
  BY HeadTailProperties
<1>3. DOMAIN leasedQueue' = 1 .. n - 1
  BY <1>1, <1>2
<1> HIDE DEF n
<1>4. \A k \in LeasedKeys : Leased!Queued(1, k) <=> Head(leasedQueue).key = k
  <2>1. 1 \in 1 .. n
    BY <1>1
  <2> QED
    BY <1>1, <1>2, <2>1 DEF Leased!Queued
<1>5. ASSUME NEW k \in LeasedKeys, NEW i \in Nat
      PROVE  /\ Leased!Queued(i, k)' <=> i >= 1 /\ Leased!Queued(i + 1, k)
             /\ Leased!Queued(i, k) => i >= 1
  <2>1. i \in 1 .. n - 1 <=> i >= 1 /\ i + 1 \in 1 .. n
    BY <1>1
  <2>2. i \in 1 .. n => i >= 1
    BY <1>1
  <2> QED
    BY <1>1, <1>2, <1>3, <2>1, <2>2 DEF Leased!Queued
<1> QED
  BY <1>2, <1>4, <1>5

LEMMA LeasedPublish ==
    ASSUME Leased!IInv, NEW d \in LeasedKeys, Leased!Publish(d)
    PROVE  Leased!IInv'
<1>1. /\ d \notin published /\ published' = published \cup {d} /\ pending' = pending \cup {d}
      /\ leasedQueue' = Append(leasedQueue, [key |-> d, attempts |-> 0])
      /\ UNCHANGED <<worker, requeue, leasedAcked, expired, leasedDropped>>
  BY DEF Leased!Publish
<1>2. /\ leasedQueue' \in Seq(Leased!Items)
      /\ \E n \in Nat : \A k \in LeasedKeys, i \in Nat :
             Leased!Queued(i, k)' <=> Leased!Queued(i, k) \/ (i = n /\ k = d)
  BY <1>1, LeasedAppend DEF Leased!IInv, Leased!TypeOK
<1>3. PICK n \in Nat : \A k \in LeasedKeys, i \in Nat :
             Leased!Queued(i, k)' <=> Leased!Queued(i, k) \/ (i = n /\ k = d)
  BY <1>2
<1>4. Leased!TypeOK' /\ Leased!Leases'
  BY <1>1, <1>2 DEF Leased!IInv, Leased!TypeOK, Leased!Leases
<1>5. \A k, v : (Leased!With(v, k)' <=> Leased!With(v, k)) /\ (Leased!Holds(v, k)' <=> Leased!Holds(v, k))
  BY <1>1 DEF Leased!With, Leased!Holds
<1>6. ASSUME NEW k \in pending' PROVE Leased!HasCopy(k)'
  <2>1. k \in LeasedKeys
    BY <1>1 DEF Leased!IInv, Leased!TypeOK
  <2>2. CASE k = d
    BY <1>3, <2>2 DEF Leased!HasCopy
  <2>3. CASE k # d
    BY <1>1, <1>3, <1>5, <2>1, <2>3 DEF Leased!IInv, Leased!HasCopy, Leased!Returning
  <2> QED
    BY <2>2, <2>3
<1>7. ASSUME NEW k \in LeasedKeys PROVE Leased!OneCopy(k)'
  <2>1. Leased!OneCopy(k)
    BY DEF Leased!IInv
  <2>2. CASE k # d
    BY <1>1, <1>3, <1>5, <2>1, <2>2 DEF Leased!OneCopy
  <2>3. CASE k = d
    <3>1. CASE k \in expired
      BY <1>1, <3>1 DEF Leased!OneCopy
    <3>2. CASE k \notin expired
      <4>1. /\ leasedAcked'[k] = 0 /\ k \in published'
            /\ \A i \in Nat : Leased!Queued(i, k)' => i = n
            /\ \A v \in LeasedWorkers : ~Leased!With(v, k)'
        BY <1>1, <1>3, <1>5, <2>1, <2>3, <3>2 DEF Leased!OneCopy
      <4> QED
        BY <4>1 DEF Leased!OneCopy
    <3> QED
      BY <3>1, <3>2
  <2> QED
    BY <2>2, <2>3
<1> QED
  BY <1>4, <1>6, <1>7 DEF Leased!IInv

LEMMA LeasedClaim ==
    ASSUME Leased!IInv, NEW w \in LeasedWorkers, Leased!Claim(w)
    PROVE  Leased!IInv'
<1> DEFINE r == [Leased!Free EXCEPT !.pc = "claimed", !.key = Head(leasedQueue).key,
                 !.attempts = Head(leasedQueue).attempts]
<1>1. /\ worker[w].pc = "idle" /\ leasedQueue # <<>> /\ leasedQueue' = Tail(leasedQueue)
      /\ UNCHANGED <<pending, published, requeue, leasedAcked, expired, leasedDropped>>
  BY DEF Leased!Claim
<1>2. worker' = [worker EXCEPT ![w] = r]
  BY DEF Leased!Claim
<1>3. /\ leasedQueue' \in Seq(Leased!Items) /\ Head(leasedQueue) \in Leased!Items
      /\ \A k \in LeasedKeys : Leased!Queued(1, k) <=> Head(leasedQueue).key = k
      /\ \A k \in LeasedKeys, i \in Nat : Leased!Queued(i, k)' <=> i >= 1 /\ Leased!Queued(i + 1, k)
      /\ \A k \in LeasedKeys, i \in Nat : Leased!Queued(i, k) => i >= 1
  BY <1>1, LeasedHead DEF Leased!IInv, Leased!TypeOK
<1>4. r \in [pc : {"idle", "claimed", "sending", "ok", "failed", "marked"}, key : LeasedKeys \cup {""},
             attempts : Nat, leased : BOOLEAN, late : BOOLEAN]
  BY <1>3 DEF Leased!Items, Leased!Free
<1>5. PICK d \in LeasedKeys : d = Head(leasedQueue).key
  BY <1>3 DEF Leased!Items
<1>6. r.pc = "claimed" /\ r.key = d /\ r.leased = FALSE /\ r.late = FALSE
  BY <1>5 DEF Leased!Free
<1> HIDE DEF r
<1>7. /\ worker' \in [LeasedWorkers ->
            [pc : {"idle", "claimed", "sending", "ok", "failed", "marked"}, key : LeasedKeys \cup {""},
             attempts : Nat, leased : BOOLEAN, late : BOOLEAN]]
      /\ worker'[w] = r
      /\ \A v \in LeasedWorkers : v # w => worker'[v] = worker[v]
  BY <1>2, <1>4 DEF Leased!IInv, Leased!TypeOK
<1>8. Leased!TypeOK'
  BY <1>1, <1>3, <1>7 DEF Leased!IInv, Leased!TypeOK
<1>9. Leased!Leases'
  BY <1>1, <1>6, <1>7 DEF Leased!IInv, Leased!Leases
<1>10. \A k \in LeasedKeys :
           /\ Leased!With(w, k)' <=> k = d
           /\ Leased!Holds(w, k)' <=> k = d
           /\ ~Leased!With(w, k)
           /\ \A v \in LeasedWorkers : v # w => (Leased!With(v, k)' <=> Leased!With(v, k))
           /\ \A v \in LeasedWorkers : v # w => (Leased!Holds(v, k)' <=> Leased!Holds(v, k))
  BY <1>1, <1>6, <1>7 DEF Leased!With, Leased!Holds
<1>11. ASSUME NEW k \in LeasedKeys, NEW i \in Nat, Leased!Queued(i, k), k # d
       PROVE  \E j \in Nat : Leased!Queued(j, k)'
  <2>1. i >= 1 /\ i # 1
    BY <1>3, <1>5, <1>11
  <2>2. i - 1 \in Nat /\ i - 1 >= 1 /\ (i - 1) + 1 = i
    BY <2>1
  <2> QED
    BY <1>3, <1>11, <2>2
<1>12. ASSUME NEW k \in pending' PROVE Leased!HasCopy(k)'
  <2>1. k \in LeasedKeys /\ Leased!HasCopy(k)
    BY <1>1 DEF Leased!IInv, Leased!TypeOK
  <2>2. CASE k = d
    BY <1>10, <2>2 DEF Leased!HasCopy
  <2>3. CASE k # d
    <3>1. \A v \in LeasedWorkers : Leased!Holds(v, k) => Leased!Holds(v, k)'
      <4>1. ~Leased!Holds(w, k)
        BY <1>10, <2>1 DEF Leased!Holds
      <4> QED
        BY <1>10, <2>1, <4>1
    <3> QED
      BY <1>1, <1>11, <2>1, <2>3, <3>1 DEF Leased!HasCopy, Leased!Returning
  <2> QED
    BY <2>2, <2>3
<1>13. ASSUME NEW k \in LeasedKeys PROVE Leased!OneCopy(k)'
  <2>0. Leased!OneCopy(k)
    BY DEF Leased!IInv
  <2> SUFFICES ASSUME k \notin expired PROVE Leased!OneCopy(k)'
    BY <1>1 DEF Leased!OneCopy
  <2>1. CASE k = d
    <3>1. Leased!Queued(1, k)
      BY <1>3, <1>5, <2>1
    <3>2. \A i \in Nat : ~Leased!Queued(i, k)'
      <4>1. \A i \in Nat : Leased!Queued(i, k) => i = 1
        BY <2>0, <3>1 DEF Leased!OneCopy
      <4> QED
        BY <1>3, <4>1
    <3>3. \A v \in LeasedWorkers : Leased!With(v, k)' => v = w
      BY <1>10, <2>0, <3>1 DEF Leased!OneCopy
    <3>4. k \in published' /\ leasedAcked'[k] = 0 /\ worker'[w].pc # "ok"
      BY <1>1, <1>6, <1>7, <2>0, <3>1 DEF Leased!OneCopy
    <3> QED
      BY <3>2, <3>3, <3>4 DEF Leased!OneCopy
  <2>2. CASE k # d
    <3>1. \A i \in Nat : Leased!Queued(i, k)' => i + 1 \in Nat /\ Leased!Queued(i + 1, k)
      BY <1>3
    <3>2. \A i, j \in Nat : Leased!Queued(i, k)' /\ Leased!Queued(j, k)' => i = j
      <4> TAKE i \in Nat, j \in Nat
      <4>1. i + 1 = j + 1 => i = j
        OBVIOUS
      <4> QED
        BY <2>0, <3>1, <4>1 DEF Leased!OneCopy
    <3>3. \A v \in LeasedWorkers : Leased!With(v, k)' => Leased!With(v, k) /\ worker'[v] = worker[v]
      BY <1>7, <1>10, <2>2
    <3>4. \A i \in Nat : Leased!Queued(i, k)' => \E j \in Nat : Leased!Queued(j, k)
      BY <3>1
    <3> QED
      BY <1>1, <2>0, <3>2, <3>3, <3>4 DEF Leased!OneCopy
  <2> QED
    BY <2>1, <2>2
<1> QED
  BY <1>8, <1>9, <1>12, <1>13 DEF Leased!IInv

\* markFailed queues a copy, drops it at a full queue, or gives the key up.
LEMMA LeasedFailed ==
    ASSUME Leased!TypeOK, NEW d \in LeasedKeys, NEW a \in Nat, Leased!MarkFailed(d, a)
    PROVE  /\ leasedQueue' \in Seq(Leased!Items)
           /\ pending' \in SUBSET pending
           /\ leasedDropped' \in SUBSET LeasedKeys /\ leasedDropped \in SUBSET leasedDropped'
           /\ \E G \in SUBSET Nat :
                  /\ \A i, j \in G : i = j
                  /\ \A k \in LeasedKeys, i \in Nat :
                         Leased!Queued(i, k)' <=> Leased!Queued(i, k) \/ (i \in G /\ k = d)
                  /\ d \in pending' => G # {} \/ d \in leasedDropped'
<1>0. a + 1 \in Nat /\ leasedQueue \in Seq(Leased!Items) /\ leasedDropped \in SUBSET LeasedKeys
  <2>1. a + 1 \in Nat
    OBVIOUS
  <2> QED
    BY <2>1, Zenon DEF Leased!TypeOK
<1>1. CASE leasedQueue' = leasedQueue
  <2>1. /\ pending' \in SUBSET pending /\ leasedDropped' \in SUBSET LeasedKeys
        /\ leasedDropped \in SUBSET leasedDropped' /\ leasedQueue' \in Seq(Leased!Items)
    BY <1>0, <1>1 DEF Leased!MarkFailed
  <2>2. \A k \in LeasedKeys, i \in Nat : Leased!Queued(i, k)' <=> Leased!Queued(i, k)
    BY <1>1 DEF Leased!Queued
  <2>3. d \in pending' => d \in leasedDropped'
    <3> SUFFICES ASSUME d \in pending', d \notin leasedDropped' PROVE FALSE
      OBVIOUS
    <3>1. leasedQueue' = Append(leasedQueue, [key |-> d, attempts |-> a + 1])
      BY DEF Leased!MarkFailed
    <3>2. [key |-> d, attempts |-> a + 1] \in Leased!Items
      BY <1>0 DEF Leased!Items
    <3>3. Len(leasedQueue') = Len(leasedQueue) + 1
      BY <1>0, <3>1, <3>2, AppendProperties
    <3> QED
      BY <1>0, <1>1, <3>3
  <2> DEFINE G == {}
  <2>4. /\ G \in SUBSET Nat /\ \A i, j \in G : i = j
        /\ \A k \in LeasedKeys, i \in Nat :
                         Leased!Queued(i, k)' <=> Leased!Queued(i, k) \/ (i \in G /\ k = d)
        /\ d \in pending' => G # {} \/ d \in leasedDropped'
    BY <2>2, <2>3
  <2> HIDE DEF G
  <2> QED
    BY <2>1, <2>4
<1>2. CASE leasedQueue' = Append(leasedQueue, [key |-> d, attempts |-> a + 1]) /\ UNCHANGED <<pending, leasedDropped>>
  <2>1. /\ leasedQueue' \in Seq(Leased!Items)
        /\ \E n \in Nat : \A k \in LeasedKeys, i \in Nat :
               Leased!Queued(i, k)' <=> Leased!Queued(i, k) \/ (i = n /\ k = d)
    BY <1>0, <1>2, LeasedAppend
  <2>2. PICK n \in Nat : \A k \in LeasedKeys, i \in Nat :
               Leased!Queued(i, k)' <=> Leased!Queued(i, k) \/ (i = n /\ k = d)
    BY <2>1
  <2> DEFINE G == {n}
  <2>3. /\ G \in SUBSET Nat /\ \A i, j \in G : i = j
        /\ \A k \in LeasedKeys, i \in Nat :
                         Leased!Queued(i, k)' <=> Leased!Queued(i, k) \/ (i \in G /\ k = d)
        /\ d \in pending' => G # {} \/ d \in leasedDropped'
    BY <2>2
  <2> HIDE DEF G
  <2> QED
    BY <1>0, <1>2, <2>1, <2>3
<1>3. \/ leasedQueue' = leasedQueue
      \/ leasedQueue' = Append(leasedQueue, [key |-> d, attempts |-> a + 1]) /\ UNCHANGED <<pending, leasedDropped>>
  BY DEF Leased!MarkFailed
<1> QED
  BY <1>1, <1>2, <1>3

LEMMA LeasedMarkBad ==
    ASSUME Leased!IInv, NEW w \in LeasedWorkers, Leased!MarkBad(w)
    PROVE  Leased!IInv'
<1>0. /\ worker[w].pc = "failed" /\ worker[w].key \in LeasedKeys /\ worker[w].attempts \in Nat
      /\ Leased!TypeOK
  BY DEF Leased!MarkBad, Leased!IInv, Leased!Leases, Leased!TypeOK
<1>1. PICK d \in LeasedKeys : d = worker[w].key
  BY <1>0
<1>2. Leased!MarkFailed(d, worker[w].attempts) /\ UNCHANGED <<requeue, leasedAcked, expired, published>>
  BY <1>1 DEF Leased!MarkBad
<1>3. Becomes(w, "marked", worker[w].leased, worker[w].late)
  BY <1>0, LeasedMoves
<1>4. /\ leasedQueue' \in Seq(Leased!Items) /\ pending' \in SUBSET pending
      /\ leasedDropped' \in SUBSET LeasedKeys /\ leasedDropped \in SUBSET leasedDropped'
  BY <1>0, <1>2, LeasedFailed
<1>5. PICK G \in SUBSET Nat :
         /\ \A i, j \in G : i = j
         /\ \A k \in LeasedKeys, i \in Nat :
                Leased!Queued(i, k)' <=> Leased!Queued(i, k) \/ (i \in G /\ k = d)
         /\ d \in pending' => G # {} \/ d \in leasedDropped'
  BY <1>0, <1>2, LeasedFailed
<1>6. Leased!TypeOK'
  BY <1>0, <1>2, <1>3, <1>4 DEF Leased!TypeOK, Becomes
<1>7. Leased!Leases'
  BY <1>0, <1>2, <1>3 DEF Leased!IInv, Leased!Leases, Becomes
<1>8. \A k \in LeasedKeys :
         /\ ~Leased!With(w, k)' /\ (Leased!With(w, k) <=> k = d)
         /\ \A v \in LeasedWorkers : v # w => (Leased!With(v, k)' <=> Leased!With(v, k)) /\ worker'[v] = worker[v]
         /\ \A v \in LeasedWorkers : v # w => (Leased!Holds(v, k)' <=> Leased!Holds(v, k))
  BY <1>0, <1>1, <1>3 DEF Becomes, Leased!With, Leased!Holds
<1>9. ASSUME NEW k \in pending' PROVE Leased!HasCopy(k)'
  <2>0. k \in LeasedKeys /\ Leased!HasCopy(k)
    BY <1>4 DEF Leased!IInv, Leased!TypeOK
  <2>1. CASE k = d
    BY <1>5, <2>1 DEF Leased!HasCopy
  <2>2. CASE k # d
    <3>1. \A v \in LeasedWorkers : Leased!Holds(v, k) => Leased!Holds(v, k)'
      <4>1. ~Leased!Holds(w, k)
        BY <1>8, <2>0, <2>2 DEF Leased!Holds
      <4> QED
        BY <1>8, <2>0, <4>1
    <3> QED
      BY <1>2, <1>4, <1>5, <2>0, <3>1 DEF Leased!HasCopy, Leased!Returning
  <2> QED
    BY <2>1, <2>2
<1>10. ASSUME NEW k \in LeasedKeys PROVE Leased!OneCopy(k)'
  <2>0. Leased!OneCopy(k)
    BY DEF Leased!IInv
  <2> SUFFICES ASSUME k \notin expired PROVE Leased!OneCopy(k)'
    BY <1>2 DEF Leased!OneCopy
  <2>1. CASE k = d
    <3>1. Leased!With(w, k)
      BY <1>8, <2>1
    <3>2. \A v \in LeasedWorkers : ~Leased!With(v, k)'
      BY <1>8, <2>0, <3>1 DEF Leased!OneCopy
    <3>3. \A i \in Nat : Leased!Queued(i, k)' => i \in G
      BY <1>5, <2>0, <3>1 DEF Leased!OneCopy
    <3>4. k \in published' /\ leasedAcked'[k] = 0
      BY <1>0, <1>2, <2>0, <3>1 DEF Leased!OneCopy
    <3> QED
      BY <1>5, <3>2, <3>3, <3>4 DEF Leased!OneCopy
  <2>2. CASE k # d
    <3>1. /\ \A v \in LeasedWorkers : Leased!With(v, k)' => Leased!With(v, k) /\ worker'[v] = worker[v]
          /\ \A i \in Nat : Leased!Queued(i, k)' <=> Leased!Queued(i, k)
      BY <1>5, <1>8, <2>2
    <3> QED
      BY <1>2, <2>0, <3>1 DEF Leased!OneCopy
  <2> QED
    BY <2>1, <2>2
<1> QED
  BY <1>6, <1>7, <1>9, <1>10 DEF Leased!IInv

LEMMA LeasedMarkOk ==
    ASSUME Leased!IInv, NEW w \in LeasedWorkers, Leased!MarkOk(w)
    PROVE  Leased!IInv'
<1>0. worker[w].pc = "ok" /\ worker[w].key \in LeasedKeys /\ Leased!TypeOK
  BY DEF Leased!MarkOk, Leased!IInv, Leased!Leases
<1>1. PICK d \in LeasedKeys : d = worker[w].key
  BY <1>0
<1>2. /\ pending' = pending \ {d}
      /\ UNCHANGED <<leasedQueue, leasedDropped, requeue, leasedAcked, expired, published>>
  BY <1>1 DEF Leased!MarkOk
<1>3. Becomes(w, "marked", worker[w].leased, worker[w].late)
  BY <1>0, LeasedMoves
<1>4. Leased!TypeOK'
  BY <1>0, <1>2, <1>3 DEF Leased!TypeOK, Becomes
<1>5. Leased!Leases'
  BY <1>0, <1>2, <1>3 DEF Leased!IInv, Leased!Leases, Becomes
<1>6. \A k \in LeasedKeys :
         /\ ~Leased!With(w, k)' /\ (Leased!With(w, k) <=> k = d)
         /\ \A v \in LeasedWorkers : v # w => (Leased!With(v, k)' <=> Leased!With(v, k)) /\ worker'[v] = worker[v]
         /\ \A v \in LeasedWorkers : v # w => (Leased!Holds(v, k)' <=> Leased!Holds(v, k))
  BY <1>0, <1>1, <1>3 DEF Becomes, Leased!With, Leased!Holds
<1>7. \A k, i : Leased!Queued(i, k)' <=> Leased!Queued(i, k)
  BY <1>2 DEF Leased!Queued
<1>8. ASSUME NEW k \in pending' PROVE Leased!HasCopy(k)'
  <2>0. k \in LeasedKeys /\ k # d /\ Leased!HasCopy(k)
    BY <1>2 DEF Leased!IInv, Leased!TypeOK
  <2>1. ~Leased!Holds(w, k)
    BY <1>6, <2>0 DEF Leased!Holds
  <2>2. \A v \in LeasedWorkers : Leased!Holds(v, k) => Leased!Holds(v, k)'
    BY <1>6, <2>0, <2>1
  <2> QED
    BY <1>2, <1>7, <2>0, <2>2 DEF Leased!HasCopy, Leased!Returning
<1>9. ASSUME NEW k \in LeasedKeys PROVE Leased!OneCopy(k)'
  <2>0. Leased!OneCopy(k)
    BY DEF Leased!IInv
  <2>1. \A v \in LeasedWorkers : Leased!With(v, k)' => Leased!With(v, k) /\ worker'[v] = worker[v]
    BY <1>6
  <2> QED
    BY <1>2, <1>7, <2>0, <2>1 DEF Leased!OneCopy
<1> QED
  BY <1>4, <1>5, <1>8, <1>9 DEF Leased!IInv

LEMMA LeasedComplete ==
    ASSUME Leased!IInv, NEW w \in LeasedWorkers, Leased!Complete(w)
    PROVE  Leased!IInv'
<1>1. /\ worker[w].pc = "marked" /\ worker' = [worker EXCEPT ![w] = Leased!Free]
      /\ UNCHANGED <<leasedQueue, pending, leasedDropped, requeue, leasedAcked, expired, published>>
  BY DEF Leased!Complete
<1>2. /\ Leased!Free \in [pc : {"idle", "claimed", "sending", "ok", "failed", "marked"},
             key : LeasedKeys \cup {""}, attempts : Nat, leased : BOOLEAN, late : BOOLEAN]
      /\ Leased!Free.pc = "idle" /\ Leased!Free.leased = FALSE /\ Leased!Free.late = FALSE
  BY DEF Leased!Free
<1>3. /\ worker' \in [LeasedWorkers ->
            [pc : {"idle", "claimed", "sending", "ok", "failed", "marked"}, key : LeasedKeys \cup {""},
             attempts : Nat, leased : BOOLEAN, late : BOOLEAN]]
      /\ worker'[w] = Leased!Free
      /\ \A v \in LeasedWorkers : v # w => worker'[v] = worker[v]
  BY <1>1, <1>2 DEF Leased!IInv, Leased!TypeOK
<1>4. Leased!TypeOK'
  BY <1>1, <1>3 DEF Leased!IInv, Leased!TypeOK
<1>5. Leased!Leases'
  BY <1>1, <1>2, <1>3 DEF Leased!IInv, Leased!Leases
<1>6. \A k : \A v \in LeasedWorkers :
          /\ Leased!With(v, k)' <=> Leased!With(v, k)
          /\ Leased!Holds(v, k)' <=> Leased!Holds(v, k)
          /\ Leased!With(v, k)' => worker'[v] = worker[v]
  BY <1>1, <1>2, <1>3 DEF Leased!With, Leased!Holds
<1>7. \A k, i : Leased!Queued(i, k)' <=> Leased!Queued(i, k)
  BY <1>1 DEF Leased!Queued
<1>8. ASSUME NEW k \in pending PROVE Leased!HasCopy(k)'
  BY <1>1, <1>6, <1>7 DEF Leased!IInv, Leased!HasCopy, Leased!Returning
<1>9. ASSUME NEW k \in LeasedKeys PROVE Leased!OneCopy(k)'
  <2>0. Leased!OneCopy(k)
    BY DEF Leased!IInv
  <2> QED
    BY <1>1, <1>6, <1>7, <2>0 DEF Leased!OneCopy
<1> QED
  BY <1>1, <1>4, <1>5, <1>8, <1>9 DEF Leased!IInv

LEMMA LeasedExpires ==
    ASSUME Leased!IInv, NEW w \in LeasedWorkers, Leased!Expires(w)
    PROVE  Leased!IInv'
<1>0. worker[w].leased /\ worker[w].pc \notin {"idle", "claimed"} /\ worker[w].key \in LeasedKeys /\ Leased!TypeOK
  BY DEF Leased!Expires, Leased!IInv, Leased!Leases
<1>1. /\ expired' = expired \cup {worker[w].key}
      /\ UNCHANGED <<leasedQueue, pending, leasedDropped, requeue, leasedAcked, published>>
  BY DEF Leased!Expires
<1>2. Becomes(w, worker[w].pc, worker[w].leased, TRUE)
  BY <1>0, LeasedMoves
<1>3. Leased!TypeOK'
  BY <1>0, <1>1, <1>2 DEF Leased!TypeOK, Becomes
<1>4. Leased!Leases'
  BY <1>0, <1>1, <1>2 DEF Leased!IInv, Leased!Leases, Becomes
<1>5. \A k : \A v \in LeasedWorkers :
          /\ Leased!With(v, k)' <=> Leased!With(v, k)
          /\ Leased!Holds(v, k)' <=> Leased!Holds(v, k)
          /\ worker'[v].pc = worker[v].pc
  BY <1>2 DEF Becomes, Leased!With, Leased!Holds
<1>6. \A k, i : Leased!Queued(i, k)' <=> Leased!Queued(i, k)
  BY <1>1 DEF Leased!Queued
<1>7. ASSUME NEW k \in pending PROVE Leased!HasCopy(k)'
  BY <1>1, <1>5, <1>6 DEF Leased!IInv, Leased!HasCopy, Leased!Returning
<1>8. ASSUME NEW k \in LeasedKeys PROVE Leased!OneCopy(k)'
  <2>0. Leased!OneCopy(k)
    BY DEF Leased!IInv
  <2> QED
    BY <1>1, <1>5, <1>6, <2>0 DEF Leased!OneCopy
<1> QED
  BY <1>1, <1>3, <1>4, <1>7, <1>8 DEF Leased!IInv

LEMMA LeasedCard == \A S : Leased!Cardinality(S) = Cardinality(S)
  BY DEF Leased!Cardinality, Cardinality

\* SetToSeq lists a finite set.
LEMMA SetAsSeq ==
    ASSUME NEW S, IsFiniteSet(S)
    PROVE  /\ Leased!SetToSeq(S) \in Seq(S)
           /\ \A x \in S : \E i \in DOMAIN Leased!SetToSeq(S) : Leased!SetToSeq(S)[i] = x
<1> DEFINE n == Cardinality(S)
           f == Leased!SetToSeq(S)
<1>1. n \in Nat /\ ExistsBijection(1 .. n, S)
  BY FS_CardinalityType
<1>2. \E g \in [1 .. n -> S] : Leased!IsInjective(g)
  BY <1>1 DEF ExistsBijection, Bijection, Injection, IsInjective, Leased!IsInjective
<1>3. f = CHOOSE g \in [1 .. n -> S] : Leased!IsInjective(g)
  BY LeasedCard DEF Leased!SetToSeq
<1> HIDE DEF f
<1>4. f \in [1 .. n -> S] /\ Leased!IsInjective(f)
  BY <1>2, <1>3
<1>5. f \in Injection(1 .. n, S)
  BY <1>4 DEF Injection, IsInjective, Leased!IsInjective
<1>6. IsFiniteSet(1 .. n) /\ Cardinality(1 .. n) = n
  BY <1>1, FS_Interval
<1>7. f \in Surjection(1 .. n, S)
  BY <1>5, <1>6, FS_Injection
<1>8. \A x \in S : \E i \in 1 .. n : f[i] = x
  BY <1>7 DEF Surjection
<1>9. DOMAIN f = 1 .. n /\ f \in Seq(S)
  BY <1>1, <1>4
<1> QED
  BY <1>8, <1>9 DEF f

LEMMA LeasedRecover == ASSUME Leased!IInv, Leased!Recover PROVE Leased!IInv'
<1> DEFINE ws == {w \in LeasedWorkers : worker[w].leased /\ worker[w].late}
           S == {[key |-> worker[w].key, attempts |-> worker[w].attempts + 1] : w \in ws}
<1>1. /\ requeue = <<>> /\ requeue' = Leased!SetToSeq(S)
      /\ worker' = [w \in LeasedWorkers |-> IF w \in ws THEN [worker[w] EXCEPT !.leased = FALSE] ELSE worker[w]]
  BY DEF Leased!Recover, Leased!Overdue, Leased!ToRequeue
<1>0. UNCHANGED <<leasedQueue, pending, leasedAcked, expired, leasedDropped, published>>
  BY DEF Leased!Recover
<1>2. IsFiniteSet(S)
  <2> DEFINE f == [w \in ws |-> [key |-> worker[w].key, attempts |-> worker[w].attempts + 1]]
  <2>1. IsFiniteSet(ws)
    <3>1. ws \in SUBSET LeasedWorkers
      OBVIOUS
    <3> HIDE DEF ws
    <3> QED
      BY <3>1, LeasedAssumption, FS_Subset
  <2> HIDE DEF ws
  <2>2. f \in Surjection(ws, S)
    BY DEF Surjection
  <2> HIDE DEF f, S
  <2> QED
    BY <2>1, <2>2, FS_Surjection
<1>3. \A w \in ws : worker[w].key \in LeasedKeys /\ worker[w].key \in expired /\ worker[w].attempts + 1 \in Nat
  <2>1. \A w \in ws : worker[w].attempts \in Nat
    BY DEF Leased!IInv, Leased!TypeOK
  <2>2. \A w \in ws : worker[w].key \in LeasedKeys /\ worker[w].key \in expired
    BY DEF Leased!IInv, Leased!Leases
  <2> QED
    BY <2>1, <2>2
<1>4. S \in SUBSET Leased!Items /\ \A e \in S : e.key \in expired
  BY <1>3 DEF Leased!Items
<1>5. /\ requeue' \in Seq(S) /\ \A e \in S : \E i \in DOMAIN requeue' : requeue'[i] = e
  BY <1>1, <1>2, SetAsSeq
<1>6. requeue' \in Seq(Leased!Items) /\ \A i \in DOMAIN requeue' : requeue'[i].key \in expired
  <2> HIDE DEF S
  <2>1. requeue' \in Seq(Leased!Items) /\ \A i \in DOMAIN requeue' : requeue'[i] \in S
    BY <1>4, <1>5
  <2> QED
    BY <1>4, <2>1
<1>7. \A w \in ws : \E i \in DOMAIN requeue' : requeue'[i].key = worker[w].key
  <2> TAKE w \in ws
  <2> DEFINE e == [key |-> worker[w].key, attempts |-> worker[w].attempts + 1]
  <2>1. e \in S /\ e.key = worker[w].key
    OBVIOUS
  <2> HIDE DEF e, S
  <2> QED
    BY <1>5, <2>1
<1>8. /\ worker' \in [LeasedWorkers ->
            [pc : {"idle", "claimed", "sending", "ok", "failed", "marked"}, key : LeasedKeys \cup {""},
             attempts : Nat, leased : BOOLEAN, late : BOOLEAN]]
      /\ \A w \in LeasedWorkers : w \notin ws => worker'[w] = worker[w]
      /\ \A w \in LeasedWorkers : worker'[w].pc = worker[w].pc /\ worker'[w].key = worker[w].key
                                  /\ worker'[w].late = worker[w].late
      /\ \A w \in LeasedWorkers : worker'[w].leased => worker[w].leased
  <2>1. worker \in [LeasedWorkers ->
            [pc : {"idle", "claimed", "sending", "ok", "failed", "marked"}, key : LeasedKeys \cup {""},
             attempts : Nat, leased : BOOLEAN, late : BOOLEAN]]
    BY DEF Leased!IInv, Leased!TypeOK
  <2> HIDE DEF ws
  <2>2. \A w \in LeasedWorkers : worker'[w] = IF w \in ws THEN [worker[w] EXCEPT !.leased = FALSE] ELSE worker[w]
    BY <1>1
  <2>3. ASSUME NEW w \in LeasedWorkers
        PROVE  /\ worker'[w].pc = worker[w].pc /\ worker'[w].key = worker[w].key
               /\ worker'[w].late = worker[w].late /\ (worker'[w].leased => worker[w].leased)
               /\ worker'[w] \in [pc : {"idle", "claimed", "sending", "ok", "failed", "marked"}, key : LeasedKeys \cup {""},
                         attempts : Nat, leased : BOOLEAN, late : BOOLEAN]
    <3>1. CASE w \in ws
      <4>1. worker'[w] = [worker[w] EXCEPT !.leased = FALSE]
        BY <2>2, <3>1
      <4> QED
        BY <2>1, <4>1
    <3>2. CASE w \notin ws
      BY <2>1, <2>2, <3>2
    <3> QED
      BY <3>1, <3>2
  <2>4. worker' \in [LeasedWorkers ->
            [pc : {"idle", "claimed", "sending", "ok", "failed", "marked"}, key : LeasedKeys \cup {""},
             attempts : Nat, leased : BOOLEAN, late : BOOLEAN]]
    BY <1>1, <2>3
  <2> QED
    BY <2>2, <2>3, <2>4
<1> HIDE DEF ws, S
<1>9. Leased!TypeOK'
  BY <1>0, <1>6, <1>8 DEF Leased!IInv, Leased!TypeOK
<1>10. Leased!Leases'
  BY <1>0, <1>6, <1>8 DEF Leased!IInv, Leased!Leases
<1>11. \A k : \A v \in LeasedWorkers :
          /\ Leased!With(v, k)' <=> Leased!With(v, k)
          /\ Leased!Holds(v, k) => Leased!Holds(v, k)' \/ Leased!Returning(k)'
  <2> TAKE k
  <2> TAKE v \in LeasedWorkers
  <2>1. Leased!With(v, k)' <=> Leased!With(v, k)
    BY <1>8 DEF Leased!With
  <2>2. CASE v \in ws
    BY <1>7, <2>1, <2>2 DEF Leased!Holds, Leased!Returning, Leased!With
  <2>3. CASE v \notin ws
    BY <1>8, <2>1, <2>3 DEF Leased!Holds, Leased!With
  <2> QED
    BY <2>1, <2>2, <2>3
<1>12. \A k, i : Leased!Queued(i, k)' <=> Leased!Queued(i, k)
  BY <1>0 DEF Leased!Queued
<1>13. ASSUME NEW k \in pending PROVE Leased!HasCopy(k)'
  <2>1. ~Leased!Returning(k)
    BY <1>1 DEF Leased!Returning
  <2> QED
    BY <1>0, <1>11, <1>12, <2>1 DEF Leased!IInv, Leased!HasCopy
<1>14. ASSUME NEW k \in LeasedKeys PROVE Leased!OneCopy(k)'
  <2>0. Leased!OneCopy(k)
    BY DEF Leased!IInv
  <2> QED
    BY <1>0, <1>8, <1>11, <1>12, <2>0 DEF Leased!OneCopy
<1> QED
  BY <1>0, <1>9, <1>10, <1>13, <1>14 DEF Leased!IInv

LEMMA LeasedRecoverOne == ASSUME Leased!IInv, Leased!RecoverOne PROVE Leased!IInv'
<1>0. requeue # <<>> /\ requeue \in Seq(Leased!Items) /\ Leased!TypeOK
  BY DEF Leased!RecoverOne, Leased!IInv, Leased!TypeOK
<1> DEFINE n == Len(requeue)
<1>1. /\ n \in Nat /\ n >= 1 /\ DOMAIN requeue = 1 .. n
      /\ Head(requeue) \in Leased!Items /\ Head(requeue) = requeue[1]
      /\ Tail(requeue) \in Seq(Leased!Items) /\ Len(Tail(requeue)) = n - 1
      /\ \A i \in 1 .. n - 1 : Tail(requeue)[i] = requeue[i + 1]
  BY <1>0, EmptySeq, HeadTailProperties
<1>2. /\ requeue' = Tail(requeue) /\ DOMAIN requeue' = 1 .. n - 1
      /\ Leased!MarkFailed(Head(requeue).key, Head(requeue).attempts)
      /\ UNCHANGED <<worker, leasedAcked, expired, published>>
  BY <1>1 DEF Leased!RecoverOne
<1> HIDE DEF n
<1>3. PICK d \in LeasedKeys : d = Head(requeue).key
  BY <1>1 DEF Leased!Items
<1>4. Head(requeue).attempts \in Nat
  BY <1>1 DEF Leased!Items
<1>5. d \in expired
  BY <1>1, <1>3 DEF Leased!IInv, Leased!Leases
<1>6. /\ leasedQueue' \in Seq(Leased!Items) /\ pending' \in SUBSET pending
      /\ leasedDropped' \in SUBSET LeasedKeys /\ leasedDropped \in SUBSET leasedDropped'
  BY <1>0, <1>2, <1>3, <1>4, LeasedFailed
<1>7. PICK G \in SUBSET Nat :
         /\ \A i, j \in G : i = j
         /\ \A k \in LeasedKeys, i \in Nat :
                Leased!Queued(i, k)' <=> Leased!Queued(i, k) \/ (i \in G /\ k = d)
         /\ d \in pending' => G # {} \/ d \in leasedDropped'
  BY <1>0, <1>2, <1>3, <1>4, LeasedFailed, ZenonT(60)
<1>8. \A i \in 1 .. n - 1 : i + 1 \in 1 .. n /\ requeue'[i] = requeue[i + 1]
  BY <1>1, <1>2
<1>9. \A i \in 1 .. n : i # 1 => i - 1 \in 1 .. n - 1 /\ requeue'[i - 1] = requeue[i]
  <2> TAKE i \in 1 .. n
  <2>1. i # 1 => i - 1 \in 1 .. n - 1 /\ (i - 1) + 1 = i
    BY <1>1
  <2> QED
    BY <1>8, <2>1
<1>10. Leased!TypeOK'
  BY <1>0, <1>1, <1>2, <1>6 DEF Leased!TypeOK
<1>11. Leased!Leases'
  BY <1>1, <1>2, <1>8 DEF Leased!IInv, Leased!Leases
<1>12. \A k : Leased!Returning(k) => Leased!Returning(k)' \/ k = d
  BY <1>1, <1>2, <1>3, <1>9 DEF Leased!Returning
<1>13. \A k, v : (Leased!With(v, k)' <=> Leased!With(v, k)) /\ (Leased!Holds(v, k)' <=> Leased!Holds(v, k))
  BY <1>2 DEF Leased!With, Leased!Holds
<1>14. ASSUME NEW k \in pending' PROVE Leased!HasCopy(k)'
  <2>0. k \in LeasedKeys /\ Leased!HasCopy(k)
    BY <1>6 DEF Leased!IInv, Leased!TypeOK
  <2>1. CASE k = d
    BY <1>7, <2>1 DEF Leased!HasCopy
  <2>2. CASE k # d
    BY <1>6, <1>7, <1>12, <1>13, <2>0, <2>2 DEF Leased!HasCopy
  <2> QED
    BY <2>1, <2>2
<1>15. ASSUME NEW k \in LeasedKeys PROVE Leased!OneCopy(k)'
  <2>0. Leased!OneCopy(k)
    BY DEF Leased!IInv
  <2>1. CASE k = d
    BY <1>2, <1>5, <2>1 DEF Leased!OneCopy
  <2>2. CASE k # d
    <3>1. \A i \in Nat : Leased!Queued(i, k)' <=> Leased!Queued(i, k)
      BY <1>7, <2>2
    <3> QED
      BY <1>2, <1>13, <2>0, <3>1 DEF Leased!OneCopy
  <2> QED
    BY <2>1, <2>2
<1> QED
  BY <1>10, <1>11, <1>14, <1>15 DEF Leased!IInv

LEMMA LeasedUnchanged == Leased!IInv /\ UNCHANGED Leased!vars => Leased!IInv'
<1> SUFFICES ASSUME Leased!IInv, UNCHANGED Leased!vars PROVE Leased!IInv'
  OBVIOUS
<1>1. UNCHANGED leasedVars
  BY DEF Leased!vars, leasedVars
<1>2. Leased!TypeOK' /\ Leased!Leases'
  BY <1>1 DEF leasedVars, Leased!IInv, Leased!TypeOK, Leased!Leases
<1>3. \A k, v : (Leased!With(v, k)' <=> Leased!With(v, k)) /\ (Leased!Holds(v, k)' <=> Leased!Holds(v, k))
  BY <1>1 DEF leasedVars, Leased!With, Leased!Holds
<1>4. \A k, i : Leased!Queued(i, k)' <=> Leased!Queued(i, k)
  BY <1>1 DEF leasedVars, Leased!Queued
<1>5. ASSUME NEW k \in pending' PROVE Leased!HasCopy(k)'
  BY <1>1, <1>3, <1>4 DEF leasedVars, Leased!IInv, Leased!HasCopy, Leased!Returning
<1>6. ASSUME NEW k \in LeasedKeys PROVE Leased!OneCopy(k)'
  BY <1>1, <1>3, <1>4 DEF leasedVars, Leased!IInv, Leased!OneCopy
<1> QED
  BY <1>2, <1>5, <1>6 DEF Leased!IInv

(* OutboxLifecycle keeps a copy of every reserved item in the queue, on    *)
(* its way back or under a lease unless a full queue refused one, and      *)
(* delivers an item twice only if a lease of it expired, for any keys,     *)
(* any finite set of workers, any capacity and any number of attempts.     *)
THEOREM LeasesKeepItems == Leased!Spec => []LeasesSafe
<1>1. Leased!IInv /\ [Leased!Next]_(Leased!vars) => Leased!IInv'
  <2> SUFFICES ASSUME Leased!IInv, [Leased!Next]_(Leased!vars) PROVE Leased!IInv'
    OBVIOUS
  <2>1. ASSUME NEW w \in LeasedWorkers, Leased!WorkerStep(w) \/ Leased!Expires(w) PROVE Leased!IInv'
    BY <2>1, LeasedClaim, LeasedLease, LeasedSend, LeasedMarkOk, LeasedMarkBad, LeasedComplete,
       LeasedExpires DEF Leased!WorkerStep
  <2> QED
    BY <2>1, LeasedPublish, LeasedRecover, LeasedRecoverOne, LeasedUnchanged
       DEF Leased!Next, Leased!RecoverExpiredLeases
<1>2. Leased!IInv => LeasesSafe
  <2> SUFFICES ASSUME Leased!IInv PROVE LeasesSafe
    OBVIOUS
  <2>1. ASSUME NEW k \in pending
        PROVE  k \in {c.key : c \in Leased!Copies} \cup Leased!Leased \cup leasedDropped
    <3>1. Leased!HasCopy(k) /\ leasedQueue \in Seq(Leased!Items) /\ requeue \in Seq(Leased!Items)
      BY DEF Leased!IInv, Leased!TypeOK
    <3>2. ASSUME NEW i \in Nat, Leased!Queued(i, k) PROVE k \in {c.key : c \in Leased!Copies}
      BY <3>1, <3>2 DEF Leased!Queued, Leased!Copies, Leased!ToSet
    <3>3. ASSUME Leased!Returning(k) PROVE k \in {c.key : c \in Leased!Copies}
      BY <3>1, <3>3 DEF Leased!Returning, Leased!Copies, Leased!ToSet
    <3>4. ASSUME NEW w \in LeasedWorkers, Leased!Holds(w, k) PROVE k \in Leased!Leased
      BY <3>4 DEF Leased!Holds, Leased!With, Leased!Leased
    <3> QED
      BY <3>1, <3>2, <3>3, <3>4 DEF Leased!HasCopy
  <2>2. ASSUME NEW k \in LeasedKeys, leasedAcked[k] = 2 PROVE k \in expired
    BY <2>2 DEF Leased!IInv, Leased!OneCopy
  <2> QED
    BY <2>1, <2>2 DEF LeasesSafe, Leased!LeasesSafe, Leased!ReservedHasCopy, Leased!TwiceOnlyIfExpired
<1> QED
  BY <1>1, <1>2, LeasedInit, PTL DEF Leased!Spec

-----------------------------------------------------------------------------

(* PgDatabase, DurablePredictionTx and MigrationRunner.                     *)

\* The rows of migrations stay as they are.
SameFiles == \A f \in 1 .. Files, p \in 1 .. 3 : <<f, p>> \in stored' <=> <<f, p>> \in stored

LEMMA ConnFiles == ASSUME Conn!IInv, SameFiles PROVE Conn!MigrationsWhole'
<1>0. Conn!Record \in 1 .. 3 /\ \A p \in Conn!Parts : p \in 1 .. 3
  BY DEF Conn!Record, Conn!Parts
<1>1. \A f \in 1 .. Files : Conn!Recorded(f)' <=> Conn!Recorded(f)
  BY <1>0, Zenon DEF SameFiles, Conn!Recorded
<1>2. \A f \in 1 .. Files : \A p \in Conn!Parts : <<f, p>> \in stored' <=> <<f, p>> \in stored
  BY <1>0, Zenon DEF SameFiles
<1>3. \A f \in 1 .. Files : \A g \in 1 .. f - 1 : g \in 1 .. Files
  BY ConnectionAssumption
<1> QED
  BY <1>1, <1>2, <1>3 DEF Conn!IInv, Conn!MigrationsWhole

\* A row of a thread is none of a migration, nor of another thread.
LEMMA ConnRows ==
    /\ \A t \in Savers \cup Others : \A r : \A f \in 1 .. Files, p \in 1 .. 3 : <<f, p>> # <<t, r>>
    /\ \A s \in Savers : \A t, r, q : <<s, r>> = <<t, q>> => s = t /\ r = q
    /\ \A s \in Savers : \A r : \A f \in 1 .. Files, p \in 1 .. 3 : <<s, r>> # <<f, p>>
    /\ \A s \in Savers, o \in Others : \A r, q : <<s, r>> # <<o, q>>
  BY ConnectionAssumption

\* A statement of a thread adds no row of a migration to the transaction.
LEMMA ConnPending ==
    ASSUME Conn!Migrated, NEW t \in Savers \cup Others, NEW r,
           txPending' \in SUBSET (txPending \cup {<<t, r>>})
    PROVE  Conn!Migrated'
<1>1. \A f \in 1 .. Files, p \in 1 .. 3 : <<f, p>> \notin txPending
  BY DEF Conn!Migrated, Conn!Record
<1>2. \A f \in 1 .. Files, p \in 1 .. 3 : <<f, p>> # <<t, r>>
  BY ConnRows
<1>3. \A f \in 1 .. Files, p \in 1 .. 3 : <<f, p>> \notin txPending'
  BY <1>1, <1>2
<1> QED
  BY <1>3 DEF Conn!Migrated, Conn!Record

LEMMA ConnInit == Conn!Init => Conn!IInv
<1> SUFFICES ASSUME Conn!Init PROVE Conn!IInv
  OBVIOUS
<1>1. alive \in BOOLEAN /\ inTx \in BOOLEAN /\ aborted \in BOOLEAN /\ booted \in BOOLEAN
  BY DEF Conn!Init
<1>2. Conn!TypeOK
  BY <1>1, ConnectionAssumption DEF Conn!Init, Conn!TypeOK
<1>3. Conn!Session /\ ~booted
  BY DEF Conn!Init, Conn!Session
<1>4. \A s \in Savers : Conn!SaverOK(s) /\ saver[s] = "idle"
  BY DEF Conn!Init, Conn!SaverOK, Conn!NoneIn
<1>5. Conn!Migrating /\ Conn!MigrationsWhole
  BY DEF Conn!Init, Conn!Migrating, Conn!MigrationsWhole, Conn!Recorded
<1> QED
  BY <1>2, <1>3, <1>4, <1>5 DEF Conn!IInv

LEMMA ConnBegin == ASSUME Conn!IInv, NEW s \in Savers, Conn!Begin(s) PROVE Conn!IInv'
<1>1. /\ booted /\ saver[s] = "idle" /\ inTx' = (inTx \/ alive) /\ begun' = begun \cup {s}
      /\ clean' = (IF inTx THEN clean ELSE clean \cup {s}) \ begun
      /\ saver' = [saver EXCEPT ![s] = "prediction"]
      /\ UNCHANGED <<alive, aborted, txPending, stored, durable, doubt, file, part, booted>>
  BY DEF Conn!Begin, Conn!BeginTx, Conn!migration
<1>2. inTx' \in BOOLEAN
  BY <1>1
<1>3. /\ saver' \in [Savers -> {"idle", "prediction", "claim", "outbox", "fallback", "commit",
                             "rollback", "done", "failed"}]
      /\ saver'[s] = "prediction" /\ \A u \in Savers : u # s => saver'[u] = saver[u]
  BY <1>1 DEF Conn!IInv, Conn!TypeOK
<1>4. Conn!TypeOK'
  BY <1>1, <1>2, <1>3 DEF Conn!IInv, Conn!TypeOK
<1>5. Conn!Session'
  BY <1>1 DEF Conn!IInv, Conn!Session
<1>6. ASSUME NEW u \in Savers PROVE Conn!SaverOK(u)'
  <2>0. Conn!SaverOK(u) /\ Conn!SaverOK(s)
    BY DEF Conn!IInv
  <2>1. CASE u # s
    BY <1>1, <1>3, <2>0, <2>1 DEF Conn!SaverOK, Conn!NoneIn
  <2>2. CASE u = s
    <3>1. s \notin begun /\ s \notin durable /\ s \notin doubt /\ Conn!NoneIn(s, stored)
      BY <1>1, <2>0 DEF Conn!SaverOK
    <3>2. s \in clean' => ~inTx
      BY <1>1, <2>0 DEF Conn!SaverOK
    <3>3. s \in clean' => Conn!Alone(s)'
      BY <1>1, <1>3, <3>1, <3>2 DEF Conn!Alone, Conn!NoneIn, Conn!Behind, Conn!IInv, Conn!Session
    <3> QED
      BY <1>1, <1>3, <2>2, <3>1, <3>3 DEF Conn!SaverOK
  <2> QED
    BY <2>1, <2>2
<1>7. Conn!Migrated'
  BY <1>1 DEF Conn!IInv, Conn!Migrated
<1>8. Conn!MigrationsWhole'
  BY <1>1, ConnFiles DEF SameFiles
<1> QED
  BY <1>1, <1>4, <1>5, <1>6, <1>7, <1>8 DEF Conn!IInv

\* A saver inside its transaction: the threads run, and its step interrupts the others.
LEMMA ConnInside ==
    ASSUME Conn!IInv, NEW s \in Savers, saver[s] # "idle", Conn!Interrupts(s)
    PROVE  /\ booted /\ Conn!Migrated /\ \A u \in Savers : Conn!SaverOK(u)
           /\ \A u \in Savers : u # s /\ u \in clean' => u \in clean /\ u \notin begun
           /\ s \in clean' <=> s \in clean
  BY DEF Conn!IInv, Conn!Interrupts

\* A statement that fails inside a transaction leaves it aborted, and changes nothing else.
LEMMA ConnFails ==
    ASSUME Conn!IInv, Conn!Fails
    PROVE  /\ UNCHANGED <<alive, inTx, txPending, stored>> /\ aborted' \in BOOLEAN
           /\ (aborted => aborted') /\ (alive /\ inTx => aborted') /\ (aborted' => aborted \/ inTx)
<1>0. alive \in BOOLEAN /\ inTx \in BOOLEAN /\ aborted \in BOOLEAN
  BY DEF Conn!IInv, Conn!TypeOK
<1>1. CASE (~alive \/ aborted) /\ UNCHANGED <<Conn!session, faults>>
  <2>1. UNCHANGED <<alive, inTx, txPending, stored>> /\ aborted' = aborted
    BY <1>1 DEF Conn!session
  <2> QED
    BY <1>0, <1>1, <2>1
<1>2. CASE /\ alive /\ ~aborted /\ aborted' = inTx
           /\ UNCHANGED <<alive, inTx, txPending, stored>>
  BY <1>0, <1>2
<1> QED
  BY <1>1, <1>2 DEF Conn!Fails

\* What the others keep through a step of the session that interrupts them.
LEMMA ConnOthers ==
    ASSUME NEW u \in Savers, Conn!SaverOK(u), UNCHANGED <<saver[u]>>,
           u \in begun' <=> u \in begun, u \in durable' <=> u \in durable,
           u \in doubt' <=> u \in doubt,
           u \in clean' => u \in clean /\ u \notin begun,
           Conn!NoneIn(u, stored) /\ Conn!NoneIn(u, txPending) =>
               Conn!NoneIn(u, stored)' /\ Conn!NoneIn(u, txPending)',
           stored \in SUBSET stored', Conn!NoneIn(u, txPending) => Conn!NoneIn(u, txPending)'
    PROVE  Conn!SaverOK(u)'
  BY DEF Conn!SaverOK, Conn!AllIn

\* A statement of thread t whose answer is lost takes the transaction away; it
\* stores a row of t at most.
LEMMA ConnUnanswered ==
    ASSUME Conn!IInv, NEW t \in Savers \cup Others, NEW r, Conn!Unanswered(<<t, r>>)
    PROVE  /\ alive /\ ~alive' /\ ~inTx' /\ ~aborted' /\ txPending' = {}
           /\ alive' \in BOOLEAN /\ inTx' \in BOOLEAN /\ aborted' \in BOOLEAN
           /\ Conn!Session' /\ Conn!Migrated' /\ SameFiles
           /\ stored \in SUBSET stored' /\ (inTx => stored' = stored)
           /\ \A u \in Savers : Conn!NoneIn(u, txPending)'
           /\ \A u \in Savers : u # t /\ Conn!NoneIn(u, stored) => Conn!NoneIn(u, stored)'
<1>1. /\ alive /\ alive' = FALSE /\ inTx' = FALSE /\ aborted' = FALSE /\ txPending' = {}
      /\ stored' = IF inTx THEN stored ELSE stored \cup {<<t, r>>}
  BY DEF Conn!Unanswered, Conn!Lost
<1>2. Conn!Session' /\ Conn!Migrated'
  BY <1>1 DEF Conn!Session, Conn!Migrated
<1>3. SameFiles
  BY <1>1, ConnRows DEF SameFiles
<1>4. ASSUME NEW u \in Savers PROVE Conn!NoneIn(u, txPending)'
  BY <1>1 DEF Conn!NoneIn
<1>5. ASSUME NEW u \in Savers, u # t, Conn!NoneIn(u, stored) PROVE Conn!NoneIn(u, stored)'
  <2>1. \A q \in Conn!Rows : <<u, q>> # <<t, r>>
    BY <1>5
  <2> QED
    BY <1>1, <1>5, <2>1 DEF Conn!NoneIn
<1> QED
  BY <1>1, <1>2, <1>3, <1>4, <1>5

LEMMA ConnSave == ASSUME Conn!IInv, NEW s \in Savers, Conn!Save(s) PROVE Conn!IInv'
<1> DEFINE row == Conn!RowOf(saver[s])
<1>0. /\ row \in Conn!Rows /\ saver[s] \in {"prediction", "claim", "outbox", "fallback"}
      /\ Conn!Interrupts(s)
  BY DEF Conn!Save, Conn!RowOf, Conn!Rows, Conn!IInv, Conn!TypeOK
<1>1. UNCHANGED <<begun, durable, doubt, file, part, booted>>
  BY DEF Conn!Save, Conn!migration
<1>2. /\ booted /\ Conn!Migrated /\ \A u \in Savers : Conn!SaverOK(u)
      /\ \A u \in Savers : u # s /\ u \in clean' => u \in clean /\ u \notin begun
      /\ s \in clean' <=> s \in clean
  BY <1>0, ConnInside
<1>3. /\ saver \in [Savers -> {"idle", "prediction", "claim", "outbox", "fallback", "commit", "rollback", "done", "failed"}]
      /\ s \in begun
  BY <1>0, <1>2 DEF Conn!IInv, Conn!TypeOK, Conn!SaverOK
<1> HIDE DEF row
<1>4. CASE Conn!Works(<<s, row>>) /\ saver' = [saver EXCEPT ![s] = Conn!AfterSaved(saver[s])]
  <2>1. /\ alive /\ ~aborted /\ UNCHANGED <<alive, inTx, aborted>>
        /\ IF inTx THEN txPending' = txPending \cup {<<s, row>>} /\ stored' = stored
                   ELSE stored' = stored \cup {<<s, row>>} /\ txPending' = txPending
    BY <1>4 DEF Conn!Works
  <2>2. /\ saver' \in [Savers -> {"idle", "prediction", "claim", "outbox", "fallback", "commit", "rollback", "done", "failed"}]
        /\ saver'[s] \in {"claim", "outbox", "commit"}
        /\ \A u \in Savers : u # s => saver'[u] = saver[u]
    BY <1>0, <1>3, <1>4 DEF Conn!AfterSaved
  <2>3. Conn!TypeOK'
    BY <1>1, <2>1, <2>2 DEF Conn!IInv, Conn!TypeOK
  <2>4. Conn!Session'
    BY <2>1 DEF Conn!IInv, Conn!Session
  <2>5. ASSUME NEW u \in Savers PROVE Conn!SaverOK(u)'
    <3>1. CASE u # s
      <4>1. \A r \in Conn!Rows : <<u, r>> # <<s, row>>
        BY <3>1
      <4>2. /\ Conn!NoneIn(u, stored) => Conn!NoneIn(u, stored)'
            /\ Conn!NoneIn(u, txPending) => Conn!NoneIn(u, txPending)'
        BY <2>1, <4>1 DEF Conn!NoneIn
      <4>3. stored \in SUBSET stored'
        BY <2>1
      <4> QED
        BY <1>1, <1>2, <2>2, <3>1, <4>2, <4>3, ConnOthers
    <3>2. CASE u = s
      <4>1. s \in clean => Conn!Alone(s)'
        <5> SUFFICES ASSUME s \in clean PROVE Conn!Alone(s)'
          OBVIOUS
        <5>1. Conn!Alone(s)
          BY <1>2, <1>3 DEF Conn!SaverOK
        <5>2. inTx /\ stored' = stored /\ txPending' = txPending \cup {<<s, row>>}
          BY <2>1, <5>1 DEF Conn!Alone
        <5>3. \A r \in Conn!Behind(saver[s]) : <<s, r>> \in txPending
          BY <2>1, <5>1 DEF Conn!Alone
        <5>5. Conn!NoneIn(s, stored)'
          BY <5>1, <5>2 DEF Conn!Alone, Conn!NoneIn
        <5>6. \A r \in Conn!Behind(saver[s])' : <<s, r>> \in txPending'
          <6>1. CASE saver[s] = "prediction"
            <7>1. row = "prediction" /\ saver'[s] = "claim"
              BY <1>3, <1>4, <6>1 DEF row, Conn!RowOf, Conn!AfterSaved
            <7> QED
              BY <5>2, <7>1 DEF Conn!Behind
          <6>2. CASE saver[s] = "claim"
            <7>1. row = "claim" /\ saver'[s] = "outbox" /\ Conn!Behind(saver[s]) = {"prediction"}
              BY <1>3, <1>4, <6>2 DEF row, Conn!RowOf, Conn!AfterSaved, Conn!Behind
            <7> QED
              BY <5>2, <5>3, <7>1 DEF Conn!Behind
          <6>3. CASE saver[s] \in {"outbox", "fallback"}
            <7>1. row = "outbox" /\ saver'[s] = "commit" /\ Conn!Behind(saver[s]) = {"prediction", "claim"}
              BY <1>3, <1>4, <6>3 DEF row, Conn!RowOf, Conn!AfterSaved, Conn!Behind
            <7> QED
              BY <5>2, <5>3, <7>1 DEF Conn!Behind, Conn!Rows
          <6> QED
            BY <1>0, <6>1, <6>2, <6>3
        <5> QED
          BY <2>1, <5>2, <5>5, <5>6 DEF Conn!Alone
      <4> QED
        BY <1>1, <1>2, <1>3, <2>2, <3>2, <4>1 DEF Conn!SaverOK
    <3> QED
      BY <3>1, <3>2
  <2>6. Conn!Migrated'
    BY <1>2, <2>1, ConnPending
  <2>7. SameFiles
    BY <2>1, ConnRows DEF SameFiles
  <2> QED
    BY <1>1, <1>2, <2>3, <2>4, <2>5, <2>6, <2>7, ConnFiles DEF Conn!IInv
<1>5. CASE Conn!Fails /\ saver' = [saver EXCEPT ![s] = Conn!AfterFailed(saver[s])]
  <2>1. /\ UNCHANGED <<alive, inTx, txPending, stored>> /\ aborted' \in BOOLEAN
        /\ (aborted => aborted') /\ (alive /\ inTx => aborted') /\ (aborted' => aborted \/ inTx)
    BY <1>5, ConnFails
  <2>2. /\ saver' \in [Savers -> {"idle", "prediction", "claim", "outbox", "fallback", "commit", "rollback", "done", "failed"}]
        /\ saver'[s] \in {"fallback", "rollback"}
        /\ \A u \in Savers : u # s => saver'[u] = saver[u]
    BY <1>0, <1>3, <1>5 DEF Conn!AfterFailed
  <2>3. Conn!TypeOK'
    <3>1. aborted' \in BOOLEAN /\ inTx' \in BOOLEAN /\ alive' \in BOOLEAN /\ booted' \in BOOLEAN
      BY <1>1, <2>1 DEF Conn!IInv, Conn!TypeOK
    <3> QED
      BY <1>1, <2>2, <3>1 DEF Conn!IInv, Conn!TypeOK
  <2>4. Conn!Session'
    BY <2>1 DEF Conn!IInv, Conn!Session
  <2>5. ASSUME NEW u \in Savers PROVE Conn!SaverOK(u)'
    <3>1. CASE u # s
      <4>1. (Conn!NoneIn(u, stored)' <=> Conn!NoneIn(u, stored)) /\ (Conn!NoneIn(u, txPending)' <=> Conn!NoneIn(u, txPending))
        BY <2>1 DEF Conn!NoneIn
      <4> QED
        BY <1>1, <1>2, <2>1, <2>2, <3>1, <4>1 DEF Conn!SaverOK
    <3>2. CASE u = s
      <4>1. s \in clean => Conn!Alone(s)'
        <5> SUFFICES ASSUME s \in clean PROVE Conn!Alone(s)'
          OBVIOUS
        <5>1. Conn!Alone(s)
          BY <1>2, <1>3 DEF Conn!SaverOK
        <5>2. alive => inTx /\ aborted'
          BY <2>1, <5>1 DEF Conn!Alone
        <5>3. Conn!NoneIn(s, stored)'
          BY <2>1, <5>1 DEF Conn!Alone, Conn!NoneIn
        <5> QED
          BY <2>1, <2>2, <5>2, <5>3 DEF Conn!Alone
      <4> QED
        BY <1>1, <1>2, <1>3, <2>2, <3>2, <4>1 DEF Conn!SaverOK
    <3> QED
      BY <3>1, <3>2
  <2>6. Conn!Migrated' /\ SameFiles
    BY <1>2, <2>1 DEF Conn!Migrated, SameFiles
  <2> QED
    BY <1>1, <1>2, <2>3, <2>4, <2>5, <2>6, ConnFiles DEF Conn!IInv
<1>6. CASE Conn!Unanswered(<<s, row>>) /\ saver' = [saver EXCEPT ![s] = Conn!AfterFailed(saver[s])]
  <2>1. /\ alive /\ ~alive' /\ ~inTx' /\ ~aborted' /\ txPending' = {}
        /\ alive' \in BOOLEAN /\ inTx' \in BOOLEAN /\ aborted' \in BOOLEAN
        /\ Conn!Session' /\ Conn!Migrated' /\ SameFiles
        /\ stored \in SUBSET stored' /\ (inTx => stored' = stored)
        /\ \A u \in Savers : Conn!NoneIn(u, txPending)'
        /\ \A u \in Savers : u # s /\ Conn!NoneIn(u, stored) => Conn!NoneIn(u, stored)'
    BY <1>6, ConnUnanswered
  <2>2. /\ saver' \in [Savers -> {"idle", "prediction", "claim", "outbox", "fallback", "commit", "rollback", "done", "failed"}]
        /\ saver'[s] \in {"fallback", "rollback"}
        /\ \A u \in Savers : u # s => saver'[u] = saver[u]
    BY <1>0, <1>3, <1>6 DEF Conn!AfterFailed
  <2>3. Conn!TypeOK'
    BY <1>1, <2>1, <2>2 DEF Conn!IInv, Conn!TypeOK
  <2>4. ASSUME NEW u \in Savers PROVE Conn!SaverOK(u)'
    <3>1. CASE u # s
      BY <1>1, <1>2, <2>1, <2>2, <3>1, ConnOthers
    <3>2. CASE u = s
      <4>1. s \in clean => Conn!Alone(s)'
        <5> SUFFICES ASSUME s \in clean PROVE Conn!Alone(s)'
          OBVIOUS
        <5>1. Conn!Alone(s)
          BY <1>2, <1>3 DEF Conn!SaverOK
        <5>2. Conn!NoneIn(s, stored)'
          BY <2>1, <5>1 DEF Conn!Alone, Conn!NoneIn
        <5> QED
          BY <2>1, <5>2 DEF Conn!Alone
      <4> QED
        BY <1>1, <1>2, <1>3, <2>2, <3>2, <4>1 DEF Conn!SaverOK
    <3> QED
      BY <3>1, <3>2
  <2> QED
    BY <1>1, <1>2, <2>1, <2>3, <2>4, ConnFiles DEF Conn!IInv
<1> QED
  BY <1>4, <1>5, <1>6 DEF Conn!Save, row

LEMMA ConnCommit == ASSUME Conn!IInv, NEW s \in Savers, Conn!Commit(s) PROVE Conn!IInv'
<1>1. /\ Conn!Interrupts(s) /\ saver[s] = "commit" /\ saver' = [saver EXCEPT ![s] = "done"]
      /\ begun' = begun \ {s} /\ durable' = durable \cup {s} /\ UNCHANGED <<doubt, file, part, booted>>
  BY DEF Conn!Commit, Conn!Commits, Conn!migration
<1>2. /\ alive /\ inTx' = FALSE /\ aborted' = FALSE /\ txPending' = {} /\ alive' = alive
      /\ stored' = IF aborted THEN stored ELSE stored \cup txPending
  BY DEF Conn!Commit, Conn!CommitTx, Conn!CommitStores
<1>3. /\ booted /\ Conn!Migrated /\ \A u \in Savers : Conn!SaverOK(u)
      /\ \A u \in Savers : u # s /\ u \in clean' => u \in clean /\ u \notin begun
      /\ s \in clean' <=> s \in clean
  BY <1>1, ConnInside
<1>4. /\ saver' \in [Savers -> {"idle", "prediction", "claim", "outbox", "fallback", "commit", "rollback", "done", "failed"}]
      /\ saver'[s] = "done" /\ \A u \in Savers : u # s => saver'[u] = saver[u]
  BY <1>1 DEF Conn!IInv, Conn!TypeOK
<1>5. Conn!TypeOK'
  <2>1. alive' \in BOOLEAN /\ inTx' \in BOOLEAN /\ aborted' \in BOOLEAN /\ booted' \in BOOLEAN
    BY <1>1, <1>2 DEF Conn!IInv, Conn!TypeOK
  <2> QED
    BY <1>1, <1>4, <2>1 DEF Conn!IInv, Conn!TypeOK
<1>6. Conn!Session'
  BY <1>2 DEF Conn!Session
<1>7. ASSUME NEW u \in Savers PROVE Conn!SaverOK(u)'
  <2>1. CASE u # s
    <3>1. /\ Conn!NoneIn(u, stored) /\ Conn!NoneIn(u, txPending) => Conn!NoneIn(u, stored)'
          /\ Conn!NoneIn(u, txPending)'
      BY <1>2 DEF Conn!NoneIn
    <3>2. stored \in SUBSET stored'
      BY <1>2
    <3> QED
      BY <1>1, <1>3, <1>4, <2>1, <3>1, <3>2, ConnOthers
  <2>2. CASE u = s
    <3>1. s \in clean => Conn!AllIn(s, stored)'
      <4> SUFFICES ASSUME s \in clean PROVE \A r \in Conn!Rows : <<s, r>> \in stored'
        BY DEF Conn!AllIn
      <4>1. Conn!Alone(s) /\ Conn!Behind(saver[s]) = Conn!Rows
        BY <1>1, <1>3 DEF Conn!SaverOK, Conn!Behind
      <4>2. ~aborted /\ \A r \in Conn!Rows : <<s, r>> \in txPending
        BY <1>1, <1>2, <4>1 DEF Conn!Alone
      <4> QED
        BY <1>2, <4>2
    <3> QED
      BY <1>1, <1>3, <1>4, <2>2, <3>1 DEF Conn!SaverOK
  <2> QED
    BY <2>1, <2>2
<1>8. Conn!Migrated'
  BY <1>2 DEF Conn!Migrated
<1>9. SameFiles
  <2>1. \A f \in 1 .. Files, p \in 1 .. 3 : <<f, p>> \notin txPending
    BY <1>3 DEF Conn!Migrated, Conn!Record
  <2> QED
    BY <1>2, <2>1 DEF SameFiles
<1> QED
  BY <1>1, <1>3, <1>5, <1>6, <1>7, <1>8, <1>9, ConnFiles DEF Conn!IInv

LEMMA ConnRollback == ASSUME Conn!IInv, NEW s \in Savers, Conn!Rollback(s) PROVE Conn!IInv'
<1>1. /\ Conn!Interrupts(s) /\ saver[s] = "rollback" /\ saver' = [saver EXCEPT ![s] = "failed"]
      /\ begun' = begun \ {s} /\ UNCHANGED <<durable, doubt, file, part, booted>>
  BY DEF Conn!Rollback, Conn!migration
<1>2. inTx' = FALSE /\ aborted' = FALSE /\ txPending' = {} /\ UNCHANGED <<alive, stored>>
  BY DEF Conn!Rollback, Conn!RollbackTx
<1>3. /\ booted /\ Conn!Migrated /\ \A u \in Savers : Conn!SaverOK(u)
      /\ \A u \in Savers : u # s /\ u \in clean' => u \in clean /\ u \notin begun
      /\ s \in clean' <=> s \in clean
  BY <1>1, ConnInside
<1>4. /\ saver' \in [Savers -> {"idle", "prediction", "claim", "outbox", "fallback", "commit", "rollback", "done", "failed"}]
      /\ saver'[s] = "failed" /\ \A u \in Savers : u # s => saver'[u] = saver[u]
  BY <1>1 DEF Conn!IInv, Conn!TypeOK
<1>5. Conn!TypeOK'
  <2>1. alive' \in BOOLEAN /\ inTx' \in BOOLEAN /\ aborted' \in BOOLEAN /\ booted' \in BOOLEAN
    BY <1>1, <1>2 DEF Conn!IInv, Conn!TypeOK
  <2> QED
    BY <1>1, <1>4, <2>1 DEF Conn!IInv, Conn!TypeOK
<1>6. Conn!Session'
  BY <1>2 DEF Conn!Session
<1>7. ASSUME NEW u \in Savers PROVE Conn!SaverOK(u)'
  <2>0. (Conn!NoneIn(u, stored) => Conn!NoneIn(u, stored)') /\ Conn!NoneIn(u, txPending)'
    BY <1>2 DEF Conn!NoneIn
  <2>1. CASE u # s
    BY <1>1, <1>2, <1>3, <1>4, <2>0, <2>1, ConnOthers
  <2>2. CASE u = s
    BY <1>1, <1>3, <1>4, <2>0, <2>2 DEF Conn!SaverOK, Conn!Alone
  <2> QED
    BY <2>1, <2>2
<1>8. Conn!Migrated' /\ SameFiles
  BY <1>2 DEF Conn!Migrated, SameFiles
<1> QED
  BY <1>1, <1>3, <1>5, <1>6, <1>7, <1>8, ConnFiles DEF Conn!IInv

LEMMA ConnCommitFails == ASSUME Conn!IInv, NEW s \in Savers, Conn!CommitFails(s) PROVE Conn!IInv'
<1>1. /\ Conn!Interrupts(s) /\ saver[s] = "commit" /\ saver' = [saver EXCEPT ![s] = "failed"]
      /\ begun' = begun \ {s} /\ UNCHANGED <<durable, file, part, booted>>
  BY DEF Conn!CommitFails, Conn!migration
<1>2. \/ /\ ~alive /\ UNCHANGED <<alive, inTx, aborted, txPending, stored, doubt>>
      \/ /\ alive /\ alive' = FALSE /\ inTx' = FALSE /\ aborted' = FALSE /\ txPending' = {}
         /\ doubt' = doubt \cup {s} /\ stored' = IF aborted THEN stored ELSE stored \cup txPending
  BY DEF Conn!CommitFails, Conn!CommitUnanswered, Conn!CommitStores, Conn!Lost, Conn!session
<1>3. /\ booted /\ Conn!Migrated /\ \A u \in Savers : Conn!SaverOK(u)
      /\ \A u \in Savers : u # s /\ u \in clean' => u \in clean /\ u \notin begun
      /\ s \in clean' <=> s \in clean
  BY <1>1, ConnInside
<1>4. /\ saver' \in [Savers -> {"idle", "prediction", "claim", "outbox", "fallback", "commit", "rollback", "done", "failed"}]
      /\ saver'[s] = "failed" /\ \A u \in Savers : u # s => saver'[u] = saver[u]
  BY <1>1 DEF Conn!IInv, Conn!TypeOK
<1>5. Conn!TypeOK' /\ Conn!Session'
  <2>1. alive' \in BOOLEAN /\ inTx' \in BOOLEAN /\ aborted' \in BOOLEAN /\ booted' \in BOOLEAN
    BY <1>1, <1>2 DEF Conn!IInv, Conn!TypeOK
  <2>2. Conn!Session'
    BY <1>2 DEF Conn!IInv, Conn!Session
  <2> QED
    BY <1>1, <1>4, <2>1, <2>2 DEF Conn!IInv, Conn!TypeOK
<1>6. txPending' = {} /\ stored \in SUBSET stored' /\ stored' \in SUBSET (stored \cup txPending)
  BY <1>2 DEF Conn!IInv, Conn!Session
<1>7. ASSUME NEW u \in Savers PROVE Conn!SaverOK(u)'
  <2>0. /\ Conn!NoneIn(u, stored) /\ Conn!NoneIn(u, txPending) => Conn!NoneIn(u, stored)'
        /\ Conn!NoneIn(u, txPending)'
    BY <1>6 DEF Conn!NoneIn
  <2>1. CASE u # s
    <3>1. u \in doubt' <=> u \in doubt
      BY <1>2, <2>1
    <3> QED
      BY <1>1, <1>3, <1>4, <1>6, <2>0, <2>1, <3>1, ConnOthers
  <2>2. CASE u = s
    <3>1. s \in clean => IF s \in doubt' THEN Conn!AllIn(s, stored)' ELSE Conn!NoneIn(s, stored)'
      <4> SUFFICES ASSUME s \in clean
                   PROVE  IF s \in doubt' THEN Conn!AllIn(s, stored)' ELSE Conn!NoneIn(s, stored)'
        OBVIOUS
      <4>1. /\ Conn!Alone(s) /\ Conn!Behind(saver[s]) = Conn!Rows /\ s \notin doubt
        BY <1>1, <1>3 DEF Conn!SaverOK, Conn!Behind
      <4>2. CASE ~alive /\ UNCHANGED <<alive, inTx, aborted, txPending, stored, doubt>>
        BY <4>1, <4>2 DEF Conn!Alone, Conn!NoneIn
      <4>3. CASE /\ alive /\ doubt' = doubt \cup {s}
                 /\ stored' = IF aborted THEN stored ELSE stored \cup txPending
        <5>1. ~aborted /\ \A r \in Conn!Rows : <<s, r>> \in txPending
          BY <1>1, <4>1, <4>3 DEF Conn!Alone
        <5> QED
          BY <4>3, <5>1 DEF Conn!AllIn
      <4> QED
        BY <1>2, <4>2, <4>3
    <3> QED
      BY <1>1, <1>3, <1>4, <2>0, <2>2, <3>1 DEF Conn!SaverOK
  <2> QED
    BY <2>1, <2>2
<1>8. Conn!Migrated' /\ SameFiles
  <2>1. \A f \in 1 .. Files, p \in 1 .. 3 : <<f, p>> \notin txPending
    BY <1>3 DEF Conn!Migrated, Conn!Record
  <2> QED
    BY <1>6, <2>1 DEF Conn!Migrated, SameFiles
<1> QED
  BY <1>1, <1>3, <1>5, <1>7, <1>8, ConnFiles DEF Conn!IInv

LEMMA ConnStatement == ASSUME Conn!IInv, NEW o \in Others, Conn!Statement(o) PROVE Conn!IInv'
<1>1. booted /\ Conn!Interrupts(o) /\ UNCHANGED <<saver, begun, durable, doubt, file, part, booted>>
  BY DEF Conn!Statement, Conn!migration
<1>2. Conn!Migrated /\ \A u \in Savers : Conn!SaverOK(u)
  BY <1>1 DEF Conn!IInv
<1>3. \A u \in Savers : u \in clean' => u \in clean /\ u \notin begun
  BY <1>1, ConnectionAssumption DEF Conn!Interrupts
<1>4. CASE Conn!Works(<<o, "row">>)
  <2>1. /\ UNCHANGED <<alive, inTx, aborted>> /\ ~aborted
        /\ IF inTx THEN txPending' = txPending \cup {<<o, "row">>} /\ stored' = stored
                   ELSE stored' = stored \cup {<<o, "row">>} /\ txPending' = txPending
    BY <1>4 DEF Conn!Works
  <2>2. Conn!TypeOK' /\ Conn!Session'
    BY <1>1, <2>1 DEF Conn!IInv, Conn!TypeOK, Conn!Session
  <2>3. ASSUME NEW u \in Savers PROVE Conn!SaverOK(u)'
    <3>1. \A r \in Conn!Rows : <<u, r>> # <<o, "row">>
      BY ConnRows
    <3>2. /\ Conn!NoneIn(u, stored) => Conn!NoneIn(u, stored)'
          /\ Conn!NoneIn(u, txPending) => Conn!NoneIn(u, txPending)'
      BY <2>1, <3>1 DEF Conn!NoneIn
    <3>3. stored \in SUBSET stored'
      BY <2>1
    <3> QED
      BY <1>1, <1>2, <1>3, <3>2, <3>3, ConnOthers
  <2>4. Conn!Migrated'
    BY <1>2, <2>1, ConnPending
  <2>5. SameFiles
    BY <2>1, ConnRows DEF SameFiles
  <2> QED
    BY <1>1, <2>2, <2>3, <2>4, <2>5, ConnFiles DEF Conn!IInv
<1>5. CASE Conn!Fails
  <2>1. /\ UNCHANGED <<alive, inTx, txPending, stored>> /\ aborted' \in BOOLEAN
        /\ (aborted => aborted') /\ (alive /\ inTx => aborted') /\ (aborted' => aborted \/ inTx)
    BY <1>5, ConnFails
  <2>2. Conn!TypeOK' /\ Conn!Session'
    BY <1>1, <2>1 DEF Conn!IInv, Conn!TypeOK, Conn!Session
  <2>3. ASSUME NEW u \in Savers PROVE Conn!SaverOK(u)'
    <3>2. /\ Conn!NoneIn(u, stored) => Conn!NoneIn(u, stored)'
          /\ Conn!NoneIn(u, txPending) => Conn!NoneIn(u, txPending)'
      BY <2>1 DEF Conn!NoneIn
    <3> QED
      BY <1>1, <1>2, <1>3, <2>1, <3>2, ConnOthers
  <2>4. Conn!Migrated' /\ SameFiles
    BY <1>2, <2>1 DEF Conn!Migrated, SameFiles
  <2> QED
    BY <1>1, <2>2, <2>3, <2>4, ConnFiles DEF Conn!IInv
<1>6. CASE Conn!Unanswered(<<o, "row">>)
  <2>1. /\ alive' \in BOOLEAN /\ inTx' \in BOOLEAN /\ aborted' \in BOOLEAN
        /\ Conn!Session' /\ Conn!Migrated' /\ SameFiles /\ stored \in SUBSET stored'
        /\ \A u \in Savers : Conn!NoneIn(u, txPending)'
        /\ \A u \in Savers : u # o /\ Conn!NoneIn(u, stored) => Conn!NoneIn(u, stored)'
    BY <1>6, ConnUnanswered
  <2>2. Conn!TypeOK'
    BY <1>1, <2>1 DEF Conn!IInv, Conn!TypeOK
  <2>3. ASSUME NEW u \in Savers PROVE Conn!SaverOK(u)'
    <3>1. u # o
      BY ConnectionAssumption
    <3> QED
      BY <1>1, <1>2, <1>3, <2>1, <3>1, ConnOthers
  <2> QED
    BY <1>1, <2>1, <2>2, <2>3, ConnFiles DEF Conn!IInv
<1> QED
  BY <1>4, <1>5, <1>6 DEF Conn!Statement

LEMMA ConnDisconnect == ASSUME Conn!IInv, Conn!Disconnect PROVE Conn!IInv'
<1>1. /\ alive' = FALSE /\ inTx' = FALSE /\ aborted' = FALSE /\ txPending' = {}
      /\ UNCHANGED <<stored, saver, begun, clean, durable, doubt, file, part, booted>>
  BY DEF Conn!Disconnect, Conn!Lost, Conn!savers, Conn!migration
<1>2. Conn!TypeOK' /\ Conn!Session'
  <2>1. alive' \in BOOLEAN /\ inTx' \in BOOLEAN /\ aborted' \in BOOLEAN /\ booted' \in BOOLEAN
    BY <1>1 DEF Conn!IInv, Conn!TypeOK
  <2> QED
    BY <1>1, <2>1 DEF Conn!IInv, Conn!TypeOK, Conn!Session
<1>3. ASSUME NEW u \in Savers PROVE Conn!SaverOK(u)'
  <2>1. /\ Conn!NoneIn(u, stored) <=> Conn!NoneIn(u, stored)'
        /\ Conn!AllIn(u, stored) <=> Conn!AllIn(u, stored)'
        /\ Conn!NoneIn(u, txPending)'
    BY <1>1 DEF Conn!NoneIn, Conn!AllIn
  <2>2. Conn!Alone(u) => Conn!Alone(u)'
    BY <1>1, <2>1 DEF Conn!Alone
  <2> QED
    BY <1>1, <2>1, <2>2 DEF Conn!IInv, Conn!SaverOK
<1>4. SameFiles /\ Conn!Migrated' /\ (Conn!Migrating => Conn!Migrating')
  BY <1>1 DEF SameFiles, Conn!Migrated, Conn!Migrating
<1> QED
  BY <1>1, <1>2, <1>3, <1>4, ConnFiles DEF Conn!IInv

\* Before the threads run, the savers are idle and stay so.
LEMMA ConnIdle ==
    ASSUME Conn!IInv, ~booted, UNCHANGED Conn!savers,
           \A u \in Savers : Conn!NoneIn(u, stored) /\ Conn!NoneIn(u, txPending) =>
               Conn!NoneIn(u, stored)' /\ Conn!NoneIn(u, txPending)'
    PROVE  /\ \A u \in Savers : Conn!SaverOK(u)' /\ (saver[u] = "idle")'
           /\ saver' = saver
  BY DEF Conn!IInv, Conn!savers, Conn!SaverOK

LEMMA ConnMigrateBegin == ASSUME Conn!IInv, Conn!MigrateBegin PROVE Conn!IInv'
<1>1. ~booted /\ part = 0 /\ file <= Files /\ UNCHANGED Conn!savers /\ booted' = booted
  BY DEF Conn!MigrateBegin
<1>2. /\ Conn!TypeOK /\ Conn!Session /\ Conn!Migrating /\ Files \in Nat
      /\ ~inTx /\ ~aborted /\ txPending = {} /\ file \in 1 .. Files
  BY <1>1, ConnectionAssumption DEF Conn!IInv, Conn!Migrating, Conn!Session, Conn!TypeOK
<1>3. /\ UNCHANGED <<alive, aborted, txPending, stored>>
      /\ \/ /\ alive /\ Conn!Recorded(file) /\ file' = file + 1 /\ part' = part /\ inTx' = inTx
         \/ /\ inTx' = (inTx \/ alive) /\ part' = 1 /\ file' = file
  BY DEF Conn!MigrateBegin, Conn!BeginTx, Conn!NextPart, Conn!session, Conn!IsApplied, Conn!Recorded
<1>4. /\ \A u \in Savers : Conn!SaverOK(u)' /\ (saver[u] = "idle")'
      /\ saver' = saver
  <2>1. ASSUME NEW u \in Savers PROVE Conn!NoneIn(u, stored) /\ Conn!NoneIn(u, txPending) =>
               Conn!NoneIn(u, stored)' /\ Conn!NoneIn(u, txPending)'
    BY <1>3 DEF Conn!NoneIn
  <2> QED
    BY <1>1, <2>1, ConnIdle
<1>5. Conn!TypeOK'
  <2>1. alive' \in BOOLEAN /\ inTx' \in BOOLEAN /\ aborted' \in BOOLEAN /\ booted' \in BOOLEAN
    BY <1>1, <1>2, <1>3 DEF Conn!TypeOK
  <2>2. file' \in 1 .. Files + 1 /\ part' \in 0 .. 5
    BY <1>1, <1>2, <1>3
  <2> QED
    BY <1>2, <1>4, <2>1, <2>2 DEF Conn!TypeOK
<1>6. Conn!Session'
  BY <1>2, <1>3 DEF Conn!Session
<1>7. SameFiles /\ \A g : Conn!Recorded(g)' <=> Conn!Recorded(g)
  BY <1>3 DEF SameFiles, Conn!Recorded
<1>8. Conn!Migrating'
  <2>1. CASE /\ alive /\ Conn!Recorded(file) /\ file' = file + 1 /\ part' = part /\ inTx' = inTx
    <3>1. \A g \in 1 .. file' - 1 : g = file \/ g \in 1 .. file - 1
      BY <1>2, <2>1
    <3>2. \A g \in 1 .. file' - 1 : Conn!Recorded(g)
      BY <1>2, <2>1, <3>1 DEF Conn!Migrating
    <3>3. \A g \in 1 .. file' - 1 : <<g, Conn!Record>> \in stored'
      BY <1>3, <3>2 DEF Conn!Recorded
    <3> QED
      BY <1>1, <1>2, <2>1, <3>3 DEF Conn!Migrating, Conn!Recorded
  <2>2. CASE /\ inTx' = (inTx \/ alive) /\ part' = 1 /\ file' = file
    <3>1. {<<file, p>> : p \in 1 .. 1 - 1} = {}
      OBVIOUS
    <3>2. alive => \A g \in 1 .. file' - 1 : <<g, Conn!Record>> \in stored'
      BY <1>2, <1>3, <2>2 DEF Conn!Recorded, Conn!Migrating
    <3>3. txPending' = {<<file', p>> : p \in 1 .. part' - 1}
      BY <1>2, <1>3, <2>2, <3>1
    <3>4. part' # 0 /\ file' <= Files
      BY <1>2, <2>2
    <3>5. aborted \in BOOLEAN /\ alive \in BOOLEAN /\ inTx \in BOOLEAN
      BY <1>2 DEF Conn!TypeOK
    <3>6. ~aborted' /\ (alive' <=> alive)
      BY <1>2, <1>3, <3>5
    <3>7. alive => inTx'
      BY <2>2, <3>5
    <3> QED
      BY <3>2, <3>3, <3>4, <3>6, <3>7 DEF Conn!Migrating, Conn!Recorded
  <2> QED
    BY <1>3, <2>1, <2>2
<1> QED
  BY <1>1, <1>4, <1>5, <1>6, <1>7, <1>8, ConnFiles DEF Conn!IInv

LEMMA ConnMigrateStatement == ASSUME Conn!IInv, Conn!MigrateStatement PROVE Conn!IInv'
<1>1. ~booted /\ part \in 1 .. 3 /\ UNCHANGED Conn!savers /\ UNCHANGED <<file, booted>>
  BY DEF Conn!MigrateStatement, Conn!Record
<1>2. /\ Conn!TypeOK /\ Conn!Session /\ Conn!Migrating /\ Files \in Nat /\ file \in 1 .. Files
  BY <1>1, ConnectionAssumption DEF Conn!IInv, Conn!Migrating, Conn!TypeOK
<1>3. CASE Conn!Works(<<file, part>>) /\ part' = Conn!NextPart(part)
  <2>1. /\ alive /\ ~aborted /\ UNCHANGED <<alive, inTx, aborted>> /\ part' = part + 1
        /\ IF inTx THEN txPending' = txPending \cup {<<file, part>>} /\ stored' = stored
                   ELSE stored' = stored \cup {<<file, part>>} /\ txPending' = txPending
    BY <1>3 DEF Conn!Works, Conn!NextPart
  <2>2. inTx /\ txPending = {<<file, p>> : p \in 1 .. part - 1}
    BY <1>1, <1>2, <2>1 DEF Conn!Migrating
  <2>3. txPending' = txPending \cup {<<file, part>>} /\ stored' = stored
    BY <2>1, <2>2
  <2>4. txPending' = {<<file', p>> : p \in 1 .. part' - 1}
    <3>1. 1 .. part' - 1 = (1 .. part - 1) \cup {part}
      BY <1>1, <2>1
    <3> QED
      BY <1>1, <2>2, <2>3, <3>1
  <2>5. /\ \A u \in Savers : Conn!SaverOK(u)' /\ (saver[u] = "idle")'
        /\ saver' = saver
    <3>1. ASSUME NEW u \in Savers PROVE Conn!NoneIn(u, stored) /\ Conn!NoneIn(u, txPending) =>
                 Conn!NoneIn(u, stored)' /\ Conn!NoneIn(u, txPending)'
      <4>1. \A r \in Conn!Rows : <<u, r>> # <<file, part>>
        BY <1>1, <1>2, ConnRows
      <4> QED
        BY <2>3, <4>1 DEF Conn!NoneIn
    <3> QED
      BY <1>1, <3>1, ConnIdle
  <2>6. Conn!TypeOK' /\ Conn!Session'
    <3>1. part' \in 0 .. 5
      BY <1>1, <2>1
    <3> QED
      BY <1>1, <1>2, <2>1, <2>2, <2>5, <3>1 DEF Conn!TypeOK, Conn!Session
  <2>7. Conn!Migrating'
    <3>1. \A g \in 1 .. file' - 1 : <<g, Conn!Record>> \in stored'
      BY <1>1, <1>2, <2>1, <2>3 DEF Conn!Migrating, Conn!Recorded
    <3>2. part' # 0
      BY <1>1, <2>1
    <3> QED
      BY <1>1, <1>2, <2>1, <2>2, <2>4, <3>1, <3>2 DEF Conn!Migrating, Conn!Recorded
  <2>8. SameFiles
    BY <2>3 DEF SameFiles
  <2> QED
    BY <1>1, <2>5, <2>6, <2>7, <2>8, ConnFiles DEF Conn!IInv
<1>4. CASE Conn!Fails /\ part' = 5
  <2>1. /\ UNCHANGED <<alive, inTx, txPending, stored>> /\ aborted' \in BOOLEAN
        /\ (aborted => aborted') /\ (alive /\ inTx => aborted') /\ (aborted' => aborted \/ inTx)
    BY <1>4, ConnFails
  <2>5. /\ \A u \in Savers : Conn!SaverOK(u)' /\ (saver[u] = "idle")'
        /\ saver' = saver
    <3>1. ASSUME NEW u \in Savers PROVE Conn!NoneIn(u, stored) /\ Conn!NoneIn(u, txPending) =>
                 Conn!NoneIn(u, stored)' /\ Conn!NoneIn(u, txPending)'
      BY <2>1 DEF Conn!NoneIn
    <3> QED
      BY <1>1, <3>1, ConnIdle
  <2>6. Conn!TypeOK' /\ Conn!Session'
    BY <1>1, <1>2, <1>4, <2>1, <2>5 DEF Conn!TypeOK, Conn!Session
  <2>7. Conn!Migrating'
    BY <1>1, <1>2, <1>4, <2>1 DEF Conn!Migrating, Conn!Recorded
  <2>8. SameFiles
    BY <2>1 DEF SameFiles
  <2> QED
    BY <1>1, <2>5, <2>6, <2>7, <2>8, ConnFiles DEF Conn!IInv
<1>5. CASE Conn!Unanswered(<<file, part>>) /\ part' = 5
  <2>1. /\ alive /\ alive' = FALSE /\ inTx' = FALSE /\ aborted' = FALSE /\ txPending' = {}
        /\ stored' = IF inTx THEN stored ELSE stored \cup {<<file, part>>}
    BY <1>5 DEF Conn!Unanswered, Conn!Lost
  <2>2. stored' = stored
    BY <1>1, <1>2, <2>1 DEF Conn!Migrating
  <2>5. /\ \A u \in Savers : Conn!SaverOK(u)' /\ (saver[u] = "idle")'
        /\ saver' = saver
    <3>1. ASSUME NEW u \in Savers PROVE Conn!NoneIn(u, stored) /\ Conn!NoneIn(u, txPending) =>
                 Conn!NoneIn(u, stored)' /\ Conn!NoneIn(u, txPending)'
      BY <2>1, <2>2 DEF Conn!NoneIn
    <3> QED
      BY <1>1, <3>1, ConnIdle
  <2>6. Conn!TypeOK' /\ Conn!Session'
    <3>1. alive' \in BOOLEAN /\ inTx' \in BOOLEAN /\ aborted' \in BOOLEAN
      BY <2>1
    <3> QED
      BY <1>1, <1>2, <1>5, <2>1, <2>5, <3>1 DEF Conn!TypeOK, Conn!Session
  <2>7. Conn!Migrating' /\ SameFiles
    BY <1>1, <1>2, <1>5, <2>1, <2>2 DEF Conn!Migrating, SameFiles
  <2> QED
    BY <1>1, <2>5, <2>6, <2>7, ConnFiles DEF Conn!IInv
<1> QED
  BY <1>3, <1>4, <1>5 DEF Conn!MigrateStatement

LEMMA ConnMigrateCommit == ASSUME Conn!IInv, Conn!MigrateCommit PROVE Conn!IInv'
<1>1. ~booted /\ part = 4 /\ UNCHANGED Conn!savers /\ booted' = booted /\ file' = file + 1 /\ part' = 0
  BY DEF Conn!MigrateCommit
<1>2. /\ Conn!TypeOK /\ Conn!Session /\ Conn!Migrating /\ Files \in Nat /\ file \in 1 .. Files
      /\ file' \in 1 .. Files + 1
  BY <1>1, ConnectionAssumption DEF Conn!IInv, Conn!Migrating, Conn!TypeOK
<1>3. CASE Conn!CommitTx \/ Conn!CommitUnanswered
  <2>1. /\ alive /\ inTx' = FALSE /\ aborted' = FALSE /\ txPending' = {} /\ alive' \in BOOLEAN
        /\ stored' = IF aborted THEN stored ELSE stored \cup txPending
    BY <1>2, <1>3 DEF Conn!CommitTx, Conn!CommitUnanswered, Conn!CommitStores, Conn!Lost, Conn!TypeOK
  <2>2. /\ ~aborted /\ txPending = {<<file, p>> : p \in 1 .. part - 1}
        /\ \A g \in 1 .. file - 1 : Conn!Recorded(g)
    BY <1>1, <1>2, <2>1 DEF Conn!Migrating
  <2>3. stored' = stored \cup {<<file, p>> : p \in 1 .. 3}
    BY <1>1, <2>1, <2>2
  <2>4. \A f, p : <<f, p>> \in stored' <=> <<f, p>> \in stored \/ (f = file /\ p \in 1 .. 3)
    BY <2>3
  <2>5. /\ \A u \in Savers : Conn!SaverOK(u)' /\ (saver[u] = "idle")'
        /\ saver' = saver
    <3>1. ASSUME NEW u \in Savers PROVE Conn!NoneIn(u, stored) /\ Conn!NoneIn(u, txPending) =>
                 Conn!NoneIn(u, stored)' /\ Conn!NoneIn(u, txPending)'
      <4>1. u # file
        BY <1>2, ConnectionAssumption
      <4> QED
        BY <2>1, <2>4, <4>1 DEF Conn!NoneIn
    <3> QED
      BY <1>1, <3>1, ConnIdle
  <2>6. Conn!TypeOK' /\ Conn!Session'
    <3>1. inTx' \in BOOLEAN /\ aborted' \in BOOLEAN
      BY <2>1
    <3> QED
      BY <1>1, <1>2, <2>1, <2>5, <3>1 DEF Conn!TypeOK, Conn!Session
  <2>7. \A f : Conn!Recorded(f)' <=> Conn!Recorded(f) \/ f = file
    BY <2>4 DEF Conn!Recorded, Conn!Record
  <2>8. Conn!Migrating'
    <3>1. \A g \in 1 .. file' - 1 : g = file \/ g \in 1 .. file - 1
      BY <1>1, <1>2
    <3>2. \A g \in 1 .. file' - 1 : <<g, Conn!Record>> \in stored'
      BY <2>2, <2>7, <3>1 DEF Conn!Recorded
    <3> QED
      BY <1>1, <1>2, <2>1, <3>2 DEF Conn!Migrating, Conn!Recorded
  <2>9. Conn!MigrationsWhole'
    <3> SUFFICES ASSUME NEW f \in 1 .. Files
                 PROVE  /\ \A p \in Conn!Parts : Conn!Recorded(f)' <=> <<f, p>> \in stored'
                        /\ Conn!Recorded(f)' => \A g \in 1 .. f - 1 : Conn!Recorded(g)'
      BY DEF Conn!MigrationsWhole
    <3>1. /\ \A p \in Conn!Parts : Conn!Recorded(f) <=> <<f, p>> \in stored
          /\ Conn!Recorded(f) => \A g \in 1 .. f - 1 : Conn!Recorded(g)
      BY DEF Conn!IInv, Conn!MigrationsWhole
    <3>2. \A p \in Conn!Parts : p \in 1 .. 3
      BY DEF Conn!Parts
    <3>3. \A p \in Conn!Parts : Conn!Recorded(f)' <=> <<f, p>> \in stored'
      BY <2>4, <2>7, <3>1, <3>2
    <3>4. Conn!Recorded(f)' => \A g \in 1 .. f - 1 : Conn!Recorded(g)'
      BY <2>2, <2>7, <3>1
    <3> QED
      BY <3>3, <3>4
  <2> QED
    BY <1>1, <2>5, <2>6, <2>8, <2>9 DEF Conn!IInv
<1>4. CASE ~alive /\ UNCHANGED <<Conn!session, faults>>
  <2>1. ~alive /\ UNCHANGED <<alive, inTx, aborted, txPending, stored>>
    BY <1>4 DEF Conn!session
  <2>5. /\ \A u \in Savers : Conn!SaverOK(u)' /\ (saver[u] = "idle")'
        /\ saver' = saver
    <3>1. ASSUME NEW u \in Savers PROVE Conn!NoneIn(u, stored) /\ Conn!NoneIn(u, txPending) =>
                 Conn!NoneIn(u, stored)' /\ Conn!NoneIn(u, txPending)'
      BY <2>1 DEF Conn!NoneIn
    <3> QED
      BY <1>1, <3>1, ConnIdle
  <2>6. Conn!TypeOK' /\ Conn!Session'
    BY <1>1, <1>2, <2>1, <2>5 DEF Conn!TypeOK, Conn!Session
  <2>7. Conn!Migrating' /\ SameFiles
    BY <1>1, <1>2, <2>1 DEF Conn!Migrating, Conn!Session, SameFiles
  <2> QED
    BY <1>1, <2>5, <2>6, <2>7, ConnFiles DEF Conn!IInv
<1> QED
  BY <1>3, <1>4 DEF Conn!MigrateCommit

LEMMA ConnRestart == ASSUME Conn!IInv, Conn!Restart PROVE Conn!IInv'
<1>1. /\ ~booted /\ alive' = TRUE /\ inTx' = FALSE /\ aborted' = FALSE /\ txPending' = {}
      /\ file' = 1 /\ part' = 0 /\ UNCHANGED Conn!savers /\ UNCHANGED <<stored, booted>>
  BY DEF Conn!Restart
<1>2. /\ \A u \in Savers : Conn!SaverOK(u)' /\ (saver[u] = "idle")'
      /\ saver' = saver
  <2>1. ASSUME NEW u \in Savers PROVE Conn!NoneIn(u, stored) /\ Conn!NoneIn(u, txPending) =>
               Conn!NoneIn(u, stored)' /\ Conn!NoneIn(u, txPending)'
    BY <1>1 DEF Conn!NoneIn
  <2> QED
    BY <1>1, <2>1, ConnIdle
<1>3. Conn!TypeOK' /\ Conn!Session'
  <2>1. alive' \in BOOLEAN /\ inTx' \in BOOLEAN /\ aborted' \in BOOLEAN /\ booted' \in BOOLEAN
    BY <1>1 DEF Conn!IInv, Conn!TypeOK
  <2> QED
    BY <1>1, <1>2, <2>1, ConnectionAssumption DEF Conn!IInv, Conn!TypeOK, Conn!Session
<1>4. Conn!Migrating' /\ SameFiles
  BY <1>1, ConnectionAssumption DEF Conn!Migrating, SameFiles
<1> QED
  BY <1>1, <1>2, <1>3, <1>4, ConnFiles DEF Conn!IInv

LEMMA ConnBooted == ASSUME Conn!IInv, Conn!Booted PROVE Conn!IInv'
<1>1. /\ ~booted /\ part = 0 /\ booted' = TRUE /\ UNCHANGED Conn!savers
      /\ UNCHANGED <<alive, inTx, aborted, txPending, stored, file, part>>
  BY DEF Conn!Booted, Conn!session
<1>2. txPending = {}
  BY <1>1 DEF Conn!IInv, Conn!Migrating, Conn!Session
<1>3. /\ \A u \in Savers : Conn!SaverOK(u)' /\ (saver[u] = "idle")'
      /\ saver' = saver
  <2>1. ASSUME NEW u \in Savers PROVE Conn!NoneIn(u, stored) /\ Conn!NoneIn(u, txPending) =>
               Conn!NoneIn(u, stored)' /\ Conn!NoneIn(u, txPending)'
    BY <1>1 DEF Conn!NoneIn
  <2> QED
    BY <1>1, <2>1, ConnIdle
<1>4. Conn!TypeOK' /\ Conn!Session'
  <2>1. booted' \in BOOLEAN
    BY <1>1
  <2> QED
    BY <1>1, <1>3, <2>1 DEF Conn!IInv, Conn!TypeOK, Conn!Session
<1>5. Conn!Migrated' /\ SameFiles
  BY <1>1, <1>2 DEF Conn!Migrated, SameFiles
<1> QED
  BY <1>1, <1>3, <1>4, <1>5, ConnFiles DEF Conn!IInv

LEMMA ConnUnchanged == ASSUME Conn!IInv, UNCHANGED Conn!vars PROVE Conn!IInv'
<1>1. UNCHANGED <<alive, inTx, aborted, txPending, stored, saver, begun, clean, durable, doubt, file, part, booted>>
  BY DEF Conn!vars, Conn!session, Conn!savers, Conn!migration
<1>2. ASSUME NEW u \in Savers PROVE Conn!SaverOK(u)'
  <2>1. Conn!SaverOK(u)
    BY DEF Conn!IInv
  <2>2. (Conn!NoneIn(u, stored)' <=> Conn!NoneIn(u, stored)) /\ (Conn!NoneIn(u, txPending)' <=> Conn!NoneIn(u, txPending))
    BY <1>1 DEF Conn!NoneIn
  <2>3. Conn!Alone(u)' <=> Conn!Alone(u)
    BY <1>1, <2>2 DEF Conn!Alone
  <2> QED
    BY <1>1, <2>1, <2>2, <2>3 DEF Conn!SaverOK
<1>3. Conn!TypeOK' /\ Conn!Session'
  BY <1>1 DEF Conn!IInv, Conn!TypeOK, Conn!Session
<1>4. SameFiles /\ (Conn!Migrated => Conn!Migrated') /\ (Conn!Migrating => Conn!Migrating')
  BY <1>1 DEF Conn!Migrated, Conn!Migrating, Conn!Recorded, SameFiles
<1> QED
  BY <1>1, <1>2, <1>3, <1>4, ConnFiles DEF Conn!IInv

LEMMA ConnInductive == Conn!Spec => []Conn!IInv
<1>1. Conn!IInv /\ [Conn!Next]_(Conn!vars) => Conn!IInv'
  <2> SUFFICES ASSUME Conn!IInv, [Conn!Next]_(Conn!vars) PROVE Conn!IInv'
    OBVIOUS
  <2>1. ASSUME NEW s \in Savers, Conn!PersistPrediction(s) PROVE Conn!IInv'
    BY <2>1, ConnBegin, ConnSave, ConnCommit, ConnRollback, ConnCommitFails DEF Conn!PersistPrediction
  <2>2. ASSUME Conn!ApplyAll PROVE Conn!IInv'
    BY <2>2, ConnMigrateBegin, ConnMigrateStatement, ConnMigrateCommit, ConnBooted DEF Conn!ApplyAll
  <2> QED
    BY <2>1, <2>2, ConnStatement, ConnDisconnect, ConnRestart, ConnUnchanged DEF Conn!Next
<1> QED
  BY <1>1, ConnInit, PTL DEF Conn!Spec

(***************************************************************************)
(* A save of a prediction during which no other thread issues a statement  *)
(* is all or nothing: told that its commit succeeded, its three rows are   *)
(* stored; told of a failure, none is, or all if the COMMIT was executed   *)
(* and its answer lost, through failed statements, the fallback of the     *)
(* outbox row and lost connections (DurablePredictionTx::persistPrediction,*)
(* Transaction::commit).                                                   *)
(***************************************************************************)
THEOREM SavesAreAtomic == Conn!Spec => []SavedIfUninterrupted
<1>1. Conn!IInv => SavedIfUninterrupted
  <2> SUFFICES ASSUME Conn!IInv, NEW s \in Savers, s \in clean
               PROVE  /\ s \in durable => Conn!RowsOf(s) \in SUBSET stored
                      /\ saver[s] = "failed" =>
                             Conn!RowsOf(s) \cap stored = IF s \in doubt THEN Conn!RowsOf(s) ELSE {}
    BY DEF Conn!SavedIfUninterrupted, SavedIfUninterrupted
  <2>1. /\ s \in durable => Conn!AllIn(s, stored)
        /\ saver[s] = "failed" => IF s \in doubt THEN Conn!AllIn(s, stored) ELSE Conn!NoneIn(s, stored)
    BY DEF Conn!IInv, Conn!SaverOK
  <2>2. Conn!AllIn(s, stored) => Conn!RowsOf(s) \in SUBSET stored
    BY DEF Conn!AllIn, Conn!RowsOf
  <2>3. Conn!NoneIn(s, stored) => Conn!RowsOf(s) \cap stored = {}
    BY DEF Conn!NoneIn, Conn!RowsOf
  <2> QED
    BY <2>1, <2>2, <2>3
<1> QED
  BY <1>1, ConnInductive, PTL

(***************************************************************************)
(* A migration is recorded exactly when all of it is stored, and after all *)
(* earlier ones, however often the process dies inside applyAll and starts *)
(* again, and whatever the threads do to the connection afterwards         *)
(* (MigrationRunner::applyAll, applySql).                                  *)
(***************************************************************************)
THEOREM MigrationsAreWhole == Conn!Spec => []MigrationsWhole
<1>1. Conn!IInv => MigrationsWhole
  BY DEF Conn!IInv, MigrationsWhole
<1> QED
  BY <1>1, ConnInductive, PTL

-----------------------------------------------------------------------------

(* PredictionAttemptCoordinator and the prediction clients.                *)

\* The invariant falls into the ring, the book of attempts and the calls.
AttTypes ==
    /\ head \in 0 .. Slots - 1 /\ tail \in 0 .. Slots - 1
    /\ clash \in BOOLEAN /\ polling \in BOOLEAN
    /\ writing \in [Att!Writers -> [pc : {"off", "fill", "store"}, at : 0 .. Slots - 1]]
    /\ slots \in [0 .. Slots - 1 -> Nat] /\ written \in Nat /\ read \in Seq(Nat)
AttRing == AttTypes /\ (~clash => Att!InTurn)
AttBook ==
    /\ gen \in [Targets -> 0 .. MaxBegins]
    /\ attempts \in [Att!Ids -> [state : Att!States, gen : 0 .. MaxBegins]]
    /\ applied \in [Targets -> Seq(0 .. MaxBegins)]
    /\ verdicts \in [Targets -> [1 .. MaxBegins -> Nat]]
    /\ Att!AppliedInOrder /\ Att!VerdictOnce
    /\ \A t \in Targets : Att!Closed(t) /\ \A g \in 0 .. MaxBegins : Att!Apart(t, g)
AttCalls ==
    /\ call \in [Callers -> [pc : Att!Places, id : Att!Ids, gen : 0 .. MaxBegins, at : 0 .. Slots - 1]]
    /\ reqHead \in 0 .. Slots - 1

LEMMA AttParts == (Att!IInv <=> AttRing /\ AttBook /\ AttCalls) /\ (Att!IInv' <=> AttRing' /\ AttBook' /\ AttCalls')
  BY DEF Att!IInv, AttRing, AttTypes, AttBook, AttCalls, Att!TypeOK

\* Remainders around one lap.
LEMMA AttMod ==
    ASSUME NEW x \in Int, -Slots < x, x <= Slots
    PROVE  x % Slots = IF x < 0 THEN x + Slots ELSE IF x = Slots THEN 0 ELSE x
<1>0. Slots \in Int /\ Slots >= 2
  BY RequestsAssumption
<1> DEFINE q == x \div Slots
           r == x % Slots
<1>1. x = Slots * q + r /\ q \in Int /\ r \in 0 .. Slots - 1
  BY <1>0
<1> HIDE DEF q, r
<1>2. q >= 2 => Slots * q >= Slots + Slots
  BY <1>0, <1>1
<1>3. q <= -2 => Slots * q <= -Slots - Slots
  BY <1>0, <1>1
<1>4. /\ q = 1 => Slots * q = Slots
      /\ q = 0 => Slots * q = 0
      /\ q = -1 => Slots * q = -Slots
  BY <1>0
<1>5. Slots * q \in Int
  BY <1>0, <1>1
<1>6. q \in {-1, 0, 1}
  BY <1>0, <1>1, <1>2, <1>3, <1>5
<1>7. r = IF x < 0 THEN x + Slots ELSE IF x = Slots THEN 0 ELSE x
  BY <1>0, <1>1, <1>4, <1>5, <1>6
<1> QED
  BY <1>7 DEF r

\* The slot after s.
LEMMA AttNext ==
    ASSUME NEW s \in 0 .. Slots - 1
    PROVE  /\ Att!NextSlot(s) = IF s = Slots - 1 THEN 0 ELSE s + 1
           /\ Att!NextSlot(s) \in 0 .. Slots - 1
<1>0. Slots \in Nat /\ Slots >= 2
  BY RequestsAssumption
<1>1. (s + 1) % Slots = IF s + 1 = Slots THEN 0 ELSE s + 1
  BY <1>0, AttMod
<1> QED
  BY <1>0, <1>1 DEF Att!NextSlot

LEMMA AttCard == \A S : Att!Cardinality(S) = Cardinality(S)
  BY DEF Att!Cardinality, Cardinality

\* What the invariant says of the ring is what the property says of it.
LEMMA AttInOrder == ASSUME AttRing PROVE Att!InOrderInTurn
<1> SUFFICES ASSUME ~clash
             PROVE  written = Len(read) + ((head - tail) % Slots)
                                  + Att!Cardinality({w \in Att!Writers : writing[w].pc = "store"})
  BY DEF AttRing, Att!InTurn, Att!InOrderInTurn
<1> DEFINE W == {w \in Att!Writers : writing[w].pc = "store"}
<1>0. /\ Slots \in Nat /\ Slots >= 2 /\ head \in 0 .. Slots - 1 /\ tail \in 0 .. Slots - 1
      /\ written \in Nat /\ Len(read) \in Nat /\ Att!InTurn
  BY RequestsAssumption DEF AttRing, AttTypes
<1> DEFINE x == head - tail
           u == Att!Unread
           m == x % Slots
<1>1. m = IF head < tail THEN head - tail + Slots ELSE head - tail
  <2>1. x \in Int /\ -Slots < x /\ x <= Slots /\ x # Slots /\ (x < 0 <=> head < tail) /\ x = head - tail
    BY <1>0
  <2> HIDE DEF x
  <2>2. x % Slots = IF x < 0 THEN x + Slots ELSE IF x = Slots THEN 0 ELSE x
    BY <2>1, AttMod, Zenon
  <2> QED
    BY <1>0, <2>1, <2>2
<1>9. written = Len(read) + m + Att!Cardinality(W) => written = Len(read) + ((head - tail) % Slots) + Att!Cardinality(W)
  OBVIOUS
<1> HIDE DEF m
<1>2. CASE Att!Storing
  <2>1. PICK v \in Att!Writers : writing[v].pc = "store"
    BY <1>2 DEF Att!Storing
  <2>2. W = {v}
    BY <1>0, <2>1 DEF Att!InTurn
  <2>3. Att!Cardinality(W) = 1
    BY <2>2, FS_Singleton, AttCard
  <2>4. u \in 1 .. Slots - 1 /\ head = Att!Past(tail, u - 1) /\ u = written - Len(read)
    BY <1>0, <1>2 DEF Att!InTurn, Att!Unread
  <2> HIDE DEF u
  <2>5. written = Len(read) + m + 1
    BY <1>0, <1>1, <2>4 DEF Att!Past
  <2> QED
    BY <1>9, <2>3, <2>5
<1>3. CASE ~Att!Storing
  <2>1. W = {}
    BY <1>3 DEF Att!Storing
  <2>2. Att!Cardinality(W) = 0
    BY <2>1, FS_EmptySet, AttCard
  <2>3. u \in 0 .. Slots - 1 /\ head = Att!Past(tail, u) /\ u = written - Len(read)
    BY <1>0, <1>3 DEF Att!InTurn, Att!Unread
  <2> HIDE DEF u
  <2>4. written = Len(read) + m + 0
    BY <1>0, <1>1, <2>3 DEF Att!Past
  <2> QED
    BY <1>9, <2>2, <2>4
<1> QED
  BY <1>2, <1>3

LEMMA AttRingSame == ASSUME AttRing, UNCHANGED Att!ring PROVE AttRing'
  BY DEF AttRing, AttTypes, Att!ring, Att!InTurn, Att!Unread, Att!Storing, Att!Past

LEMMA AttLoadHead == ASSUME AttRing, NEW w \in Att!Writers, Att!LoadHead(w) PROVE AttRing'
<1>1. /\ writing[w].pc = "off"
      /\ writing' = [writing EXCEPT ![w] = [pc |-> "fill", at |-> head]]
      /\ clash' = (clash \/ \E v \in Att!Writers : writing[v].pc # "off")
      /\ UNCHANGED <<head, tail, slots, polling, written, read>>
  BY DEF Att!LoadHead
<1>2. AttTypes /\ AttTypes'
  BY <1>1 DEF AttRing, AttTypes
<1>3. writing'[w] = [pc |-> "fill", at |-> head] /\ \A v \in Att!Writers : v # w => writing'[v] = writing[v]
  BY <1>1, <1>2 DEF AttTypes
<1>4. ASSUME ~clash' PROVE Att!InTurn'
  <2>1. Att!InTurn /\ \A v \in Att!Writers : writing[v].pc = "off"
    BY <1>1, <1>4 DEF AttRing
  <2>2. ~Att!Storing /\ ~Att!Storing'
    BY <1>3, <2>1 DEF Att!Storing
  <2> QED
    BY <1>1, <1>3, <2>1, <2>2 DEF Att!InTurn, Att!Unread, Att!Past
<1> QED
  BY <1>2, <1>4 DEF AttRing

LEMMA AttFillSlot == ASSUME AttRing, NEW w \in Att!Writers, Att!FillSlot(w) PROVE AttRing'
<1>0. Slots \in Nat /\ Slots >= 2
  BY RequestsAssumption
<1> DEFINE a == writing[w].at
<1>1. /\ writing[w].pc = "fill" /\ slots' = [slots EXCEPT ![a] = written + 1]
      /\ written' = written + 1
      /\ clash' = (clash \/ Att!NextSlot(a) = tail)
      /\ writing' = [writing EXCEPT ![w] = [pc |-> "store", at |-> a]]
      /\ UNCHANGED <<head, tail, polling, read>>
  BY DEF Att!FillSlot
<1>2. AttTypes /\ a \in 0 .. Slots - 1
  BY DEF AttRing, AttTypes
<1>3. AttTypes'
  BY <1>1, <1>2 DEF AttTypes
<1>4. writing'[w] = [pc |-> "store", at |-> a] /\ \A v \in Att!Writers : v # w => writing'[v] = writing[v]
  BY <1>1, <1>2 DEF AttTypes
<1>5. ASSUME ~clash' PROVE Att!InTurn'
  <2>1. Att!InTurn /\ a = head /\ Att!NextSlot(head) # tail
    BY <1>1, <1>5 DEF AttRing, Att!InTurn
  <2>2. ~Att!Storing /\ Att!Storing' /\ \A v \in Att!Writers : v # w => writing[v].pc = "off"
    BY <1>1, <1>4, <2>1 DEF Att!Storing, Att!InTurn
  <2> DEFINE u == Att!Unread
             n == Len(read)
  <2>3. /\ u \in 0 .. Slots - 1 /\ head = Att!Past(tail, u) /\ u = written - n /\ n \in Nat /\ written \in Nat
        /\ head \in 0 .. Slots - 1 /\ tail \in 0 .. Slots - 1
        /\ \A k \in 0 .. u - 1 : slots[Att!Past(tail, k)] = n + k + 1
    BY <1>2, <2>1, <2>2 DEF Att!InTurn, Att!Unread, AttTypes
  <2>4. Att!Unread' = u + 1 /\ Len(read') = n
    BY <1>1, <2>3 DEF Att!Unread
  <2> HIDE DEF u, n
  <2>5. u # Slots - 1
    <3>1. Att!NextSlot(head) = IF head = Slots - 1 THEN 0 ELSE head + 1
      BY <2>3, AttNext
    <3> QED
      BY <1>0, <2>1, <2>3, <3>1 DEF Att!Past
  <2>6. ASSUME NEW k \in 0 .. u PROVE slots'[Att!Past(tail, k)] = n + k + 1
    <3>1. Att!Past(tail, k) \in 0 .. Slots - 1 /\ (Att!Past(tail, k) = head <=> k = u)
      BY <1>0, <2>3 DEF Att!Past
    <3>2. CASE k = u
      BY <1>1, <1>2, <2>1, <2>3, <3>1, <3>2 DEF AttTypes
    <3>3. CASE k # u
      <4>1. k \in 0 .. u - 1
        BY <2>3, <3>3
      <4>2. slots'[Att!Past(tail, k)] = slots[Att!Past(tail, k)]
        BY <1>1, <1>2, <2>1, <3>1, <3>3 DEF AttTypes
      <4> QED
        BY <2>3, <4>1, <4>2
    <3> QED
      BY <3>2, <3>3
  <2>7. /\ Att!Unread' \in 0 .. Slots - 1 /\ Att!Unread' > 0 /\ Att!Unread' - 1 = u
        /\ \A k \in 0 .. Att!Unread' - 1 : k \in 0 .. u
    BY <1>0, <2>3, <2>4, <2>5
  <2>8. \A k \in 0 .. Att!Unread' - 1 : (slots[Att!Past(tail, k)])' = Len(read') + k + 1
    BY <1>1, <2>4, <2>6, <2>7 DEF Att!Past
  <2>9. head' = Att!Past(tail, Att!Unread - 1)'
    BY <1>1, <2>3, <2>7 DEF Att!Past
  <2> QED
    BY <1>1, <1>4, <2>1, <2>2, <2>7, <2>8, <2>9 DEF Att!InTurn
<1> QED
  BY <1>3, <1>5 DEF AttRing

LEMMA AttStoreHead == ASSUME AttRing, NEW w \in Att!Writers, Att!StoreHead(w) PROVE AttRing'
<1>0. Slots \in Nat /\ Slots >= 2
  BY RequestsAssumption
<1>1. /\ writing[w].pc = "store" /\ head' = Att!NextSlot(writing[w].at)
      /\ writing' = [writing EXCEPT ![w] = Att!Off]
      /\ UNCHANGED <<tail, slots, polling, written, clash, read>>
  BY DEF Att!StoreHead
<1>2. AttTypes /\ writing[w].at \in 0 .. Slots - 1 /\ Att!Off = [pc |-> "off", at |-> 0]
  BY DEF AttRing, AttTypes, Att!Off
<1>3. head' \in 0 .. Slots - 1
  BY <1>1, <1>2, AttNext
<1>4. AttTypes'
  BY <1>0, <1>1, <1>2, <1>3 DEF AttTypes
<1>5. writing'[w].pc = "off" /\ \A v \in Att!Writers : v # w => writing'[v] = writing[v]
  BY <1>1, <1>2 DEF AttTypes
<1>6. ASSUME ~clash' PROVE Att!InTurn'
  <2>1. Att!InTurn /\ writing[w].at = head /\ Att!Storing
    BY <1>1, <1>6 DEF AttRing, Att!InTurn, Att!Storing
  <2>2. \A v \in Att!Writers : writing'[v].pc = "off"
    BY <1>1, <1>5, <2>1 DEF Att!InTurn
  <2>3. ~Att!Storing'
    BY <2>2 DEF Att!Storing
  <2> DEFINE u == Att!Unread
  <2>4. /\ u \in 1 .. Slots - 1 /\ head = Att!Past(tail, u - 1) /\ head \in 0 .. Slots - 1 /\ tail \in 0 .. Slots - 1
    BY <1>0, <1>2, <2>1 DEF Att!InTurn, AttTypes
  <2>5. Att!Unread' = u
    BY <1>1 DEF Att!Unread
  <2> HIDE DEF u
  <2>6. head' = Att!Past(tail, u) /\ head' # tail
    <3>1. head' = IF head = Slots - 1 THEN 0 ELSE head + 1
      BY <1>1, <2>1, <2>4, AttNext
    <3> QED
      BY <1>0, <2>4, <3>1 DEF Att!Past
  <2>7. head' = Att!Past(tail, Att!Unread)' /\ Att!Unread' \in 0 .. Slots - 1
    BY <1>0, <1>1, <2>4, <2>5, <2>6 DEF Att!Past
  <2>8. \A k \in 0 .. Att!Unread' - 1 : (slots[Att!Past(tail, k)])' = Len(read') + k + 1
    BY <1>1, <2>1, <2>5 DEF Att!InTurn, Att!Past, u
  <2> QED
    BY <1>1, <2>1, <2>2, <2>3, <2>6, <2>7, <2>8 DEF Att!InTurn
<1> QED
  BY <1>4, <1>6 DEF AttRing

LEMMA AttPoll == ASSUME AttRing, Att!Poll PROVE AttRing'
  BY DEF Att!Poll, AttRing, AttTypes, Att!InTurn, Att!Unread, Att!Storing, Att!Past

LEMMA AttRingPoll == ASSUME AttRing, Att!PollResponseSlot PROVE AttRing'
<1>0. Slots \in Nat /\ Slots >= 2
  BY RequestsAssumption
<1> DEFINE m == Len(read)
<1>1. PICK n \in {slots[tail]} \cup {0 : w \in {v \in Att!Writers : writing[v] = [pc |-> "fill", at |-> tail]}} :
          read' = Append(read, n)
  BY DEF Att!PollResponseSlot
<1>2. /\ polling /\ polling' = FALSE /\ tail' = Att!NextSlot(tail)
      /\ UNCHANGED <<head, slots, writing, written, clash>>
  BY DEF Att!PollResponseSlot
<1>3. AttTypes /\ m \in Nat
  BY DEF AttRing, AttTypes
<1>4. n \in Nat
  BY <1>1, <1>3 DEF AttTypes
<1>5. /\ read' \in Seq(Nat) /\ Len(read') = m + 1 /\ read'[m + 1] = n
      /\ \A k \in 1 .. m : read'[k] = read[k]
  BY <1>1, <1>3, <1>4 DEF AttTypes
<1>6. tail' = (IF tail = Slots - 1 THEN 0 ELSE tail + 1) /\ tail' \in 0 .. Slots - 1
  BY <1>2, <1>3, AttNext DEF AttTypes
<1>7. AttTypes'
  BY <1>2, <1>3, <1>5, <1>6 DEF AttTypes
<1>8. ASSUME ~clash' PROVE Att!InTurn'
  <2>1. Att!InTurn /\ tail # head
    BY <1>2, <1>8 DEF AttRing, Att!InTurn
  <2> DEFINE u == Att!Unread
  <2>2. /\ u \in 0 .. Slots - 1 /\ u = written - m /\ head \in 0 .. Slots - 1 /\ tail \in 0 .. Slots - 1 /\ written \in Nat
        /\ IF Att!Storing THEN u > 0 /\ head = Att!Past(tail, u - 1) ELSE head = Att!Past(tail, u)
        /\ \A k \in 0 .. u - 1 : slots[Att!Past(tail, k)] = m + k + 1
    BY <1>3, <2>1 DEF Att!InTurn, Att!Unread, AttTypes
  <2>3. Att!Unread' = written - (m + 1)
    BY <1>2, <1>5 DEF Att!Unread
  <2> HIDE DEF u, m
  <2>4. u > 0 /\ (Att!Storing => u > 1)
    BY <1>0, <2>1, <2>2 DEF Att!Past
  <2>5. Att!Unread' = u - 1 /\ u - 1 \in 0 .. Slots - 1
    BY <1>0, <1>3, <2>2, <2>3, <2>4
  <2>6. slots[tail] = m + 1
    <3>1. Att!Past(tail, 0) = tail /\ 0 \in 0 .. u - 1
      BY <1>0, <2>2, <2>4 DEF Att!Past
    <3>2. slots[Att!Past(tail, 0)] = m + 0 + 1
      BY <2>2, <3>1
    <3> QED
      BY <1>3, <3>1, <3>2
  <2>7. n = m + 1
    <3>1. \A v \in Att!Writers : writing[v] # [pc |-> "fill", at |-> tail]
      BY <2>1 DEF Att!InTurn
    <3> QED
      BY <1>1, <2>6, <3>1
  <2>8. \A k \in 0 .. u - 1 : Att!Past(tail', k) = Att!Past(tail, k + 1)
    BY <1>0, <1>6, <2>2 DEF Att!Past
  <2>9. ASSUME NEW k \in 0 .. Att!Unread' - 1 PROVE (slots[Att!Past(tail, k)])' = Len(read') + k + 1
    <3>1. k \in 0 .. u - 1 /\ k + 1 \in 0 .. u - 1 /\ k \in Int
      BY <2>2, <2>5
    <3>2. slots'[Att!Past(tail', k)] = slots[Att!Past(tail, k + 1)]
      BY <1>2, <2>8, <3>1
    <3>3. slots[Att!Past(tail, k + 1)] = m + (k + 1) + 1
      BY <2>2, <3>1
    <3>4. Len(read') + k + 1 = m + (k + 1) + 1
      BY <1>3, <1>5, <3>1
    <3> QED
      BY <3>2, <3>3, <3>4 DEF Att!Past
  <2>10. IF Att!Storing' THEN Att!Unread' > 0 /\ head' = Att!Past(tail, Att!Unread - 1)' ELSE head' = Att!Past(tail, Att!Unread)'
    <3>1. Att!Storing' = Att!Storing
      BY <1>2 DEF Att!Storing
    <3>2. CASE Att!Storing
      <4>1. Att!Unread' > 0 /\ u - 2 \in 0 .. u - 1 /\ Att!Unread' - 1 = u - 2 /\ (u - 2) + 1 = u - 1
        BY <2>2, <2>4, <2>5, <3>2
      <4>2. Att!Past(tail', u - 2) = Att!Past(tail, u - 1)
        BY <2>8, <4>1
      <4> QED
        BY <1>2, <2>2, <3>1, <3>2, <4>1, <4>2 DEF Att!Past
    <3>3. CASE ~Att!Storing
      <4>1. u - 1 \in 0 .. u - 1 /\ (u - 1) + 1 = u
        BY <2>2, <2>4
      <4>2. Att!Past(tail', u - 1) = Att!Past(tail, u)
        BY <2>8, <4>1
      <4> QED
        BY <1>2, <2>2, <2>5, <3>1, <3>3, <4>2 DEF Att!Past
    <3> QED
      BY <3>2, <3>3
  <2>11. \A k \in DOMAIN read' : read'[k] = k
    <3>1. DOMAIN read' = 1 .. m + 1 /\ DOMAIN read = 1 .. m
      BY <1>3, <1>5 DEF AttTypes, m
    <3>2. ASSUME NEW k \in 1 .. m + 1 PROVE read'[k] = k
      <4>1. k = m + 1 \/ k \in 1 .. m
        BY <1>3
      <4>2. k \in 1 .. m => read[k] = k
        BY <2>1, <3>1 DEF Att!InTurn
      <4> QED
        BY <1>5, <2>7, <4>1, <4>2
    <3> QED
      BY <3>1, <3>2
  <2>12. /\ \A v, w \in Att!Writers : writing'[v].pc # "off" /\ writing'[w].pc # "off" => v = w
         /\ \A w \in Att!Writers : writing'[w].pc # "off" => writing'[w].at = head'
    BY <1>2, <2>1 DEF Att!InTurn
  <2> QED
    BY <1>2, <2>5, <2>9, <2>10, <2>11, <2>12 DEF Att!InTurn
<1> QED
  BY <1>7, <1>8 DEF AttRing

-----------------------------------------------------------------------------
(* The book of attempts.                                                   *)

LEMMA AttIds == \A i \in Att!Ids : i[1] \in Targets
  BY DEF Att!Ids

\* A step that at most takes attempts out of flight without a verdict.
LEMMA AttQuiet ==
    ASSUME AttBook, UNCHANGED <<gen, applied, verdicts>>,
           attempts' \in [Att!Ids -> [state : Att!States, gen : 0 .. MaxBegins]],
           \A i \in Att!Ids, t \in Targets, g \in 0 .. MaxBegins :
               Att!InFlightAs(i, t, g)' => Att!InFlightAs(i, t, g),
           \A c \in Callers, t \in Targets, g \in 0 .. MaxBegins :
               Att!InHand(c, t, g)' => Att!InHand(c, t, g)
    PROVE  AttBook'
<1>1. ASSUME NEW t \in Targets, NEW g \in 0 .. MaxBegins, Att!Over(t, g) PROVE Att!Over(t, g)'
  BY <1>1 DEF Att!Over
<1>2. ASSUME NEW t \in Targets, NEW g \in 0 .. MaxBegins PROVE Att!Apart(t, g)'
  <2>1. Att!Apart(t, g)
    BY DEF AttBook
  <2> QED
    BY <2>1 DEF Att!Apart
<1>3. ASSUME NEW t \in Targets PROVE Att!Closed(t)'
  <2>1. Att!Closed(t)
    BY DEF AttBook
  <2>2. \A g \in 1 .. MaxBegins : g \in 0 .. MaxBegins
    BY RequestsAssumption
  <2>3. \A g \in 1 .. MaxBegins : verdicts'[t][g] <= 1 /\ (verdicts'[t][g] = 1 => Att!Over(t, g)')
    BY <1>1, <2>1, <2>2 DEF Att!Closed
  <2>4. \A g \in 0 .. MaxBegins : Att!WasApplied(t, g)' => Att!WasApplied(t, g)
    BY DEF Att!WasApplied
  <2> QED
    BY <1>1, <2>1, <2>3, <2>4 DEF Att!Closed
<1> QED
  BY <1>2, <1>3 DEF AttBook, Att!AppliedInOrder, Att!VerdictOnce

\* Attempts in flight end.
LEMMA AttEnds ==
    ASSUME AttBook, gen' = gen, NEW ids \in SUBSET Att!Ids, \A i \in ids : Att!InFlight(i),
           NEW s \in Att!States, s # "InFlight", Att!Ends(ids, s),
           \A c \in Callers, t \in Targets, g \in 0 .. MaxBegins :
               Att!InHand(c, t, g)' => Att!InHand(c, t, g),
           \/ applied' = applied
           \/ \E i \in ids : Att!IsCurrent(i) /\ applied' = [applied EXCEPT ![i[1]] = Append(@, attempts[i].gen)]
    PROVE  AttBook'
<1>0. /\ gen \in [Targets -> 0 .. MaxBegins] /\ MaxBegins \in Nat
      /\ attempts \in [Att!Ids -> [state : Att!States, gen : 0 .. MaxBegins]]
      /\ applied \in [Targets -> Seq(0 .. MaxBegins)]
      /\ verdicts \in [Targets -> [1 .. MaxBegins -> Nat]]
      /\ \A t \in Targets : Att!Closed(t) /\ \A g \in 0 .. MaxBegins : Att!Apart(t, g)
      /\ \A g \in 1 .. MaxBegins : g \in 0 .. MaxBegins
  BY RequestsAssumption DEF AttBook
<1>1. /\ attempts' \in [Att!Ids -> [state : Att!States, gen : 0 .. MaxBegins]]
      /\ \A i \in Att!Ids : attempts'[i].gen = attempts[i].gen
      /\ \A i \in Att!Ids : attempts'[i].state = IF i \in ids THEN s ELSE attempts[i].state
  <2>1. attempts' = [i \in Att!Ids |-> IF i \in ids THEN [attempts[i] EXCEPT !.state = s] ELSE attempts[i]]
    BY DEF Att!Ends
  <2>2. ASSUME NEW i \in Att!Ids
        PROVE  /\ attempts'[i] \in [state : Att!States, gen : 0 .. MaxBegins] /\ attempts'[i].gen = attempts[i].gen
               /\ attempts'[i].state = IF i \in ids THEN s ELSE attempts[i].state
    <3>1. attempts[i] \in [state : Att!States, gen : 0 .. MaxBegins]
      BY <1>0
    <3>2. attempts'[i] = IF i \in ids THEN [attempts[i] EXCEPT !.state = s] ELSE attempts[i]
      BY <2>1
    <3> QED
      BY <3>1, <3>2
  <2>3. DOMAIN attempts' = Att!Ids /\ attempts' = [i \in Att!Ids |-> attempts'[i]]
    BY <2>1
  <2> QED
    BY <2>2, <2>3
<1>2. \A i \in Att!Ids, t \in Targets, g \in 0 .. MaxBegins :
          Att!InFlightAs(i, t, g)' <=> Att!InFlightAs(i, t, g) /\ i \notin ids
  BY <1>1 DEF Att!InFlightAs, Att!InFlight
<1>3. ASSUME NEW t \in Targets, NEW g \in 0 .. MaxBegins PROVE Att!Apart(t, g)' /\ (Att!Over(t, g) => Att!Over(t, g)')
  <2>1. Att!Apart(t, g)
    BY <1>0
  <2> QED
    BY <1>2, <2>1 DEF Att!Apart, Att!Over
<1>4. ASSUME NEW i \in ids, NEW t \in Targets, NEW g \in 0 .. MaxBegins, Att!InFlightAs(i, t, g) PROVE Att!Over(t, g)'
  <2>1. Att!Apart(t, g)
    BY <1>0
  <2>2. \A j \in Att!Ids : ~Att!InFlightAs(j, t, g)'
    BY <1>2, <1>4, <2>1 DEF Att!Apart
  <2>3. g <= gen'[t] /\ \A c \in Callers : ~Att!InHand(c, t, g)'
    BY <1>4, <2>1 DEF Att!Apart
  <2> QED
    BY <2>2, <2>3 DEF Att!Over
<1>5. ASSUME NEW t \in Targets, NEW g \in 1 .. MaxBegins
      PROVE  \/ verdicts'[t][g] = verdicts[t][g]
             \/ /\ verdicts'[t][g] = verdicts[t][g] + 1
                /\ \E i \in ids : Att!InFlightAs(i, t, g)
  <2> DEFINE K == {i \in ids : i[1] = t /\ attempts[i].gen = g}
  <2>1. verdicts'[t][g] = verdicts[t][g] + Cardinality(K)
    BY AttCard DEF Att!Ends
  <2>2. \A i \in K : i \in ids /\ i \in Att!Ids /\ Att!InFlightAs(i, t, g)
    BY DEF Att!InFlightAs
  <2>3. \A i, j \in K : i = j
    BY <1>0, <2>2 DEF Att!Apart
  <2> HIDE DEF K
  <2>4. CASE K = {}
    BY <1>0, <2>1, <2>4, FS_EmptySet
  <2>5. CASE K # {}
    <3>1. PICK i \in K : TRUE
      BY <2>5
    <3>2. K = {i}
      BY <2>3, <3>1
    <3>3. Cardinality(K) = 1
      BY <3>2, FS_Singleton
    <3> QED
      BY <2>1, <2>2, <3>1, <3>3
  <2> QED
    BY <2>4, <2>5
<1>6. verdicts' \in [Targets -> [1 .. MaxBegins -> Nat]]
  <2>1. \A t \in Targets : \A g \in 1 .. MaxBegins : verdicts'[t][g] \in Nat
    <3> SUFFICES ASSUME NEW t \in Targets, NEW g \in 1 .. MaxBegins PROVE verdicts'[t][g] \in Nat
      OBVIOUS
    <3>1. verdicts[t][g] \in Nat
      BY <1>0
    <3>2. verdicts'[t][g] = verdicts[t][g] \/ verdicts'[t][g] = verdicts[t][g] + 1
      BY <1>5
    <3> QED
      BY <3>1, <3>2
  <2>2. verdicts' = [t \in Targets |-> [g \in 1 .. MaxBegins |-> verdicts'[t][g]]]
    BY DEF Att!Ends
  <2> QED
    BY <2>1, <2>2
<1>7. ASSUME NEW t \in Targets, NEW g \in 1 .. MaxBegins
      PROVE  verdicts'[t][g] <= 1 /\ (verdicts'[t][g] = 1 => Att!Over(t, g)')
  <2>1. verdicts[t][g] \in Nat /\ verdicts[t][g] <= 1 /\ (verdicts[t][g] = 1 => Att!Over(t, g))
    BY <1>0 DEF Att!Closed
  <2>2. CASE verdicts'[t][g] = verdicts[t][g]
    BY <1>0, <1>3, <2>1, <2>2
  <2>3. CASE verdicts'[t][g] = verdicts[t][g] + 1 /\ \E i \in ids : Att!InFlightAs(i, t, g)
    <3>1. Att!Over(t, g)' /\ ~Att!Over(t, g)
      BY <1>0, <1>4, <2>3 DEF Att!Over
    <3> QED
      BY <2>1, <2>3, <3>1
  <2> QED
    BY <1>5, <2>2, <2>3
<1>8. /\ applied' \in [Targets -> Seq(0 .. MaxBegins)]
      /\ \A t \in Targets, g \in 0 .. MaxBegins :
             Att!WasApplied(t, g)' => Att!WasApplied(t, g) \/ \E i \in ids : Att!InFlightAs(i, t, g)
      /\ Att!AppliedInOrder'
  <2>1. CASE applied' = applied
    BY <1>0, <2>1 DEF Att!WasApplied, Att!AppliedInOrder, AttBook
  <2>2. ASSUME NEW i \in ids, Att!IsCurrent(i), applied' = [applied EXCEPT ![i[1]] = Append(@, attempts[i].gen)]
        PROVE <1>8
    <3>1. PICK u \in Targets, e \in 0 .. MaxBegins : u = i[1] /\ e = attempts[i].gen
      BY <1>0, AttIds
    <3>2. Att!InFlightAs(i, u, e) /\ gen[u] = e
      BY <2>2, <3>1 DEF Att!InFlightAs, Att!IsCurrent
    <3> DEFINE q == applied[u]
               n == Len(q)
    <3>3. q \in Seq(0 .. MaxBegins) /\ n \in Nat
      BY <1>0
    <3>4. /\ applied' \in [Targets -> Seq(0 .. MaxBegins)]
          /\ applied'[u] = Append(q, e)
          /\ \A t \in Targets : t # u => applied'[t] = applied[t]
      BY <1>0, <2>2, <3>1
    <3>5. /\ DOMAIN applied'[u] = 1 .. n + 1 /\ applied'[u][n + 1] = e
          /\ \A k \in 1 .. n : applied'[u][k] = q[k] /\ q[k] \in 0 .. MaxBegins
          /\ DOMAIN q = 1 .. n
      <4>1. /\ DOMAIN Append(q, e) = 1 .. n + 1 /\ Append(q, e)[n + 1] = e /\ DOMAIN q = 1 .. n
            /\ \A k \in 1 .. n : Append(q, e)[k] = q[k] /\ q[k] \in 0 .. MaxBegins
        <5>1. Len(q) = n
          OBVIOUS
        <5> HIDE DEF q, n
        <5>2. \A k \in 1 .. n : q[k] \in 0 .. MaxBegins
          BY <3>3, <5>1, ElementOfSeq
        <5>3. Append(q, e) \in Seq(0 .. MaxBegins) /\ Len(Append(q, e)) = n + 1 /\ Append(q, e)[n + 1] = e
          BY <3>3, <5>1, AppendProperties
        <5>4. \A k \in 1 .. n : Append(q, e)[k] = q[k]
          BY <3>3, <5>1, AppendProperties
        <5>5. DOMAIN Append(q, e) = 1 .. n + 1 /\ DOMAIN q = 1 .. n
          BY <3>3, <5>1, <5>3
        <5> QED
          BY <5>2, <5>3, <5>4, <5>5
      <4> QED
        BY <3>4, <4>1
    <3>6. ASSUME NEW k \in 1 .. n PROVE q[k] < e
      <4>1. PICK g \in 0 .. MaxBegins : g = q[k]
        BY <3>5
      <4>2. Att!WasApplied(u, g)
        BY <3>5, <4>1 DEF Att!WasApplied
      <4>3. Att!Over(u, g)
        BY <1>0, <4>2 DEF Att!Closed
      <4>4. g <= gen[u] /\ g # e
        BY <3>2, <4>3 DEF Att!Over
      <4> QED
        BY <3>2, <4>1, <4>4
    <3>7. \A t \in Targets, g \in 0 .. MaxBegins :
             Att!WasApplied(t, g)' => Att!WasApplied(t, g) \/ \E j \in ids : Att!InFlightAs(j, t, g)
      <4> SUFFICES ASSUME NEW t \in Targets, NEW g \in 0 .. MaxBegins, Att!WasApplied(t, g)'
                   PROVE  Att!WasApplied(t, g) \/ \E j \in ids : Att!InFlightAs(j, t, g)
        OBVIOUS
      <4>1. PICK k \in DOMAIN applied'[t] : applied'[t][k] = g
        BY DEF Att!WasApplied
      <4>2. CASE t # u
        BY <3>4, <4>1, <4>2 DEF Att!WasApplied
      <4>3. CASE t = u /\ k = n + 1
        BY <3>2, <3>5, <4>1, <4>3
      <4>4. CASE t = u /\ k # n + 1
        <5>1. k \in 1 .. n
          BY <3>3, <3>5, <4>1, <4>4
        <5>2. q[k] = g /\ k \in DOMAIN applied[t]
          BY <3>5, <4>1, <4>4, <5>1
        <5> QED
          BY <4>4, <5>2 DEF Att!WasApplied
      <4> QED
        BY <4>2, <4>3, <4>4
    <3>8. Att!AppliedInOrder'
      <4> SUFFICES ASSUME NEW t \in Targets, NEW k \in DOMAIN applied'[t], NEW l \in DOMAIN applied'[t], k < l
                   PROVE  applied'[t][k] < applied'[t][l]
        BY DEF Att!AppliedInOrder
      <4>0. Att!AppliedInOrder
        BY DEF AttBook
      <4>1. CASE t # u
        BY <3>4, <4>0, <4>1 DEF Att!AppliedInOrder
      <4>2. CASE t = u
        <5>1. k \in 1 .. n
          BY <3>3, <3>5, <4>2
        <5>2. CASE l = n + 1
          BY <3>5, <3>6, <4>2, <5>1, <5>2
        <5>3. CASE l # n + 1
          <6>1. l \in 1 .. n
            BY <3>3, <3>5, <4>2, <5>3
          <6>2. q[k] < q[l]
            BY <3>5, <4>0, <5>1, <6>1 DEF Att!AppliedInOrder
          <6> QED
            BY <3>5, <4>2, <5>1, <6>1, <6>2
        <5> QED
          BY <5>2, <5>3
      <4> QED
        BY <4>1, <4>2
    <3> QED
      BY <3>4, <3>7, <3>8
  <2> QED
    BY <2>1, <2>2
<1>9. ASSUME NEW t \in Targets PROVE Att!Closed(t)'
  <2>1. ASSUME NEW g \in 0 .. MaxBegins, Att!WasApplied(t, g)' PROVE Att!Over(t, g)'
    BY <1>0, <1>3, <1>4, <1>8, <2>1 DEF Att!Closed
  <2> QED
    BY <1>7, <2>1 DEF Att!Closed
<1>10. Att!VerdictOnce'
  BY <1>7 DEF Att!VerdictOnce
<1> QED
  BY <1>0, <1>1, <1>3, <1>6, <1>8, <1>9, <1>10 DEF AttBook

LEMMA AttComplete ==
    ASSUME AttBook, gen' = gen, NEW id \in Att!Ids, Att!Complete(id),
           \A c \in Callers, t \in Targets, g \in 0 .. MaxBegins :
               Att!InHand(c, t, g)' => Att!InHand(c, t, g)
    PROVE  AttBook'
<1>1. CASE UNCHANGED Att!book
  <2>1. UNCHANGED <<attempts, applied, verdicts>>
    BY <1>1 DEF Att!book
  <2>2. \A i \in Att!Ids, t \in Targets, g \in 0 .. MaxBegins : Att!InFlightAs(i, t, g)' => Att!InFlightAs(i, t, g)
    BY <2>1 DEF Att!InFlightAs, Att!InFlight
  <2>3. attempts' \in [Att!Ids -> [state : Att!States, gen : 0 .. MaxBegins]]
    BY <2>1 DEF AttBook
  <2> QED
    BY <2>1, <2>2, <2>3, AttQuiet
<1>2. CASE ~UNCHANGED Att!book
  <2>1. PICK i \in Att!Ids :
            /\ Att!InFlight(i)
            /\ IF Att!IsCurrent(i)
               THEN /\ Att!Ends({i}, "Completed")
                    /\ applied' = [applied EXCEPT ![i[1]] = Append(@, attempts[i].gen)]
               ELSE Att!Ends({i}, "Fenced") /\ UNCHANGED applied
    BY <1>2 DEF Att!Complete
  <2>2. {i} \in SUBSET Att!Ids /\ \A j \in {i} : Att!InFlight(j)
    BY <2>1
  <2>3. {"Completed", "Fenced"} \in SUBSET Att!States
    BY DEF Att!States
  <2>4. CASE Att!IsCurrent(i)
    BY <2>1, <2>2, <2>3, <2>4, AttEnds
  <2>5. CASE ~Att!IsCurrent(i)
    BY <2>1, <2>2, <2>3, <2>5, AttEnds
  <2> QED
    BY <2>4, <2>5
<1> QED
  BY <1>1, <1>2

\* A step that leaves the book.
LEMMA AttBookSame ==
    ASSUME AttBook, gen' = gen, UNCHANGED Att!book,
           \A c \in Callers, t \in Targets, g \in 0 .. MaxBegins :
               Att!InHand(c, t, g)' => Att!InHand(c, t, g)
    PROVE  AttBook'
<1>1. UNCHANGED <<attempts, applied, verdicts>>
  BY DEF Att!book
<1>2. \A i \in Att!Ids, t \in Targets, g \in 0 .. MaxBegins : Att!InFlightAs(i, t, g)' => Att!InFlightAs(i, t, g)
  BY <1>1 DEF Att!InFlightAs, Att!InFlight
<1>3. attempts' \in [Att!Ids -> [state : Att!States, gen : 0 .. MaxBegins]]
  BY <1>1 DEF AttBook
<1> QED
  BY <1>1, <1>2, <1>3, AttQuiet

LEMMA AttIdle ==
    /\ Att!Idle \in [pc : Att!Places, id : Att!Ids, gen : 0 .. MaxBegins, at : 0 .. Slots - 1]
    /\ Att!Idle.pc = "idle"
<1>1. \E i \in Att!Ids : TRUE
  <2>1. PICK t \in Targets, m \in Stamps : TRUE
    BY RequestsAssumption
  <2>2. <<t, m>> \in Att!Ids
    BY DEF Att!Ids
  <2> QED
    BY <2>2
<1>2. (CHOOSE i \in Att!Ids : TRUE) \in Att!Ids
  BY <1>1
<1>3. 0 \in 0 .. MaxBegins /\ 0 \in 0 .. Slots - 1
  BY RequestsAssumption
<1> QED
  BY <1>2, <1>3 DEF Att!Idle, Att!Places

\* A step of a call past the insertion of its record.
LEMMA AttMoves ==
    ASSUME AttCalls, NEW c \in Callers, reqHead' \in 0 .. Slots - 1,
           NEW r \in [pc : Att!Places, id : Att!Ids, gen : 0 .. MaxBegins, at : 0 .. Slots - 1],
           r.pc # "insert", call' = [call EXCEPT ![c] = r]
    PROVE  /\ AttCalls' /\ call[c].id \in Att!Ids
           /\ \A d \in Callers, t \in Targets, g \in 0 .. MaxBegins :
                  Att!InHand(d, t, g)' => Att!InHand(d, t, g)
<1>1. AttCalls' /\ call[c].id \in Att!Ids
  BY DEF AttCalls
<1>2. ASSUME NEW d \in Callers PROVE d # c => call'[d] = call[d]
  BY DEF AttCalls
<1>3. call'[c].pc # "insert"
  BY DEF AttCalls
<1>4. ASSUME NEW d \in Callers, NEW t \in Targets, NEW g \in 0 .. MaxBegins, Att!InHand(d, t, g)'
      PROVE  Att!InHand(d, t, g)
  <2>1. d # c
    BY <1>3, <1>4 DEF Att!InHand
  <2> QED
    BY <1>2, <1>4, <2>1 DEF Att!InHand
<1> QED
  BY <1>1, <1>4

\* A submit that returns, and one that goes on to another place.
LEMMA AttReturns ==
    ASSUME AttCalls, NEW c \in Callers, reqHead' \in 0 .. Slots - 1, call' = [call EXCEPT ![c] = Att!Idle]
    PROVE  /\ AttCalls' /\ call[c].id \in Att!Ids
           /\ \A d \in Callers, t \in Targets, g \in 0 .. MaxBegins :
                  Att!InHand(d, t, g)' => Att!InHand(d, t, g)
  BY AttIdle, AttMoves

LEMMA AttGoesOn ==
    ASSUME AttCalls, NEW c \in Callers, reqHead' \in 0 .. Slots - 1,
           NEW p \in Att!Places, p # "insert", call' = [call EXCEPT ![c].pc = p]
    PROVE  /\ AttCalls' /\ call[c].id \in Att!Ids
           /\ \A d \in Callers, t \in Targets, g \in 0 .. MaxBegins :
                  Att!InHand(d, t, g)' => Att!InHand(d, t, g)
<1> DEFINE r == [call[c] EXCEPT !.pc = p]
<1>1. r \in [pc : Att!Places, id : Att!Ids, gen : 0 .. MaxBegins, at : 0 .. Slots - 1] /\ r.pc = p
  BY DEF AttCalls
<1>2. call' = [call EXCEPT ![c] = r]
  BY DEF AttCalls
<1> HIDE DEF r
<1> QED
  BY <1>1, <1>2, AttMoves

\* A step that leaves the calls.
LEMMA AttCallsSame ==
    ASSUME AttCalls, call' = call, reqHead' = reqHead
    PROVE  /\ AttCalls'
           /\ \A d \in Callers, t \in Targets, g \in 0 .. MaxBegins :
                  Att!InHand(d, t, g)' => Att!InHand(d, t, g)
  BY DEF AttCalls, Att!InHand

LEMMA AttInit == Att!Init => Att!IInv
<1> SUFFICES ASSUME Att!Init PROVE AttRing /\ AttBook /\ AttCalls
  BY AttParts
<1>0. /\ Slots \in Nat /\ Slots >= 2 /\ MaxBegins \in Nat
      /\ 0 \in 0 .. MaxBegins
  BY RequestsAssumption
<1>1. AttRing
  <2>1. /\ head = 0 /\ tail = 0 /\ written = 0 /\ read = <<>> /\ slots = [s \in 0 .. Slots - 1 |-> 0]
        /\ writing = [w \in Att!Writers |-> Att!Off] /\ polling = FALSE /\ clash = FALSE
    BY DEF Att!Init
  <2>2. AttTypes
    <3>1. writing \in [Att!Writers -> [pc : {"off", "fill", "store"}, at : 0 .. Slots - 1]]
      BY <1>0, <2>1 DEF Att!Off
    <3>2. slots \in [0 .. Slots - 1 -> Nat] /\ read \in Seq(Nat)
      BY <2>1
    <3>3. clash \in BOOLEAN /\ polling \in BOOLEAN
      BY <2>1, Zenon
    <3>4. head \in 0 .. Slots - 1 /\ tail \in 0 .. Slots - 1 /\ written \in Nat
      BY <1>0, <2>1
    <3> QED
      BY <3>1, <3>2, <3>3, <3>4 DEF AttTypes
  <2>3. Att!Unread = 0 /\ ~Att!Storing
    <3>1. Len(read) = 0
      BY <2>1
    <3>2. \A w \in Att!Writers : writing[w].pc = "off"
      BY <2>1 DEF Att!Off
    <3>4. written = 0
      BY <2>1, Zenon
    <3>3. Att!Unread = 0
      BY <3>1, <3>4 DEF Att!Unread
    <3> QED
      BY <3>2, <3>3 DEF Att!Storing
  <2>4. Att!InTurn
    BY <1>0, <2>1, <2>3 DEF Att!InTurn, Att!Past, Att!Off
  <2> QED
    BY <2>2, <2>4 DEF AttRing
<1>2. AttCalls
  BY <1>0, AttIdle DEF Att!Init, AttCalls
<1>3. AttBook
  <2>1. /\ gen = [t \in Targets |-> 0] /\ attempts = [i \in Att!Ids |-> Att!None]
        /\ applied = [t \in Targets |-> <<>>]
        /\ verdicts = [t \in Targets |-> [g \in 1 .. MaxBegins |-> 0]]
    BY DEF Att!Init
  <2>2. /\ gen \in [Targets -> 0 .. MaxBegins]
        /\ attempts \in [Att!Ids -> [state : Att!States, gen : 0 .. MaxBegins]]
        /\ applied \in [Targets -> Seq(0 .. MaxBegins)]
        /\ verdicts \in [Targets -> [1 .. MaxBegins -> Nat]]
    BY <1>0, <2>1 DEF Att!None, Att!States
  <2>3. Att!AppliedInOrder /\ Att!VerdictOnce
    BY <2>1 DEF Att!AppliedInOrder, Att!VerdictOnce
  <2>4. /\ \A i \in Att!Ids : \A t, g : ~Att!InFlightAs(i, t, g)
        /\ \A c \in Callers : \A t, g : ~Att!InHand(c, t, g)
    BY <2>1, AttIdle DEF Att!Init, Att!InFlightAs, Att!InFlight, Att!InHand, Att!None
  <2>5. \A t \in Targets : Att!Closed(t) /\ \A g \in 0 .. MaxBegins : Att!Apart(t, g)
    BY <2>1, <2>4 DEF Att!Closed, Att!Apart, Att!WasApplied
  <2> QED
    BY <2>2, <2>3, <2>5 DEF AttBook
<1> QED
  BY <1>1, <1>2, <1>3

LEMMA AttBump == ASSUME Att!IInv, NEW c \in Callers, NEW id \in Att!Ids, Att!Bump(c, id) PROVE Att!IInv'
<1>0. AttRing /\ AttBook /\ AttCalls /\ MaxBegins \in Nat
  BY AttParts, RequestsAssumption
<1>1. /\ call[c].pc = "idle" /\ gen[id[1]] < MaxBegins
      /\ gen' = [gen EXCEPT ![id[1]] = @ + 1]
      /\ call' = [call EXCEPT ![c] = [pc |-> "insert", id |-> id, gen |-> gen[id[1]] + 1, at |-> 0]]
      /\ UNCHANGED <<attempts, applied, verdicts, reqHead>>
  BY DEF Att!Bump, Att!book, Att!reqRing
<1>2. AttRing'
  BY <1>0, AttRingSame DEF Att!Bump
<1>3. PICK u \in Targets, e \in 0 .. MaxBegins : u = id[1] /\ e = gen[u] + 1 /\ e \in 1 .. MaxBegins
  BY <1>0, <1>1, AttIds DEF AttBook
<1>4. AttCalls' /\ call'[c] = [pc |-> "insert", id |-> id, gen |-> e, at |-> 0] /\ \A d \in Callers : d # c => call'[d] = call[d]
  BY <1>0, <1>1, <1>3, RequestsAssumption DEF AttCalls, Att!Places
<1>5. /\ gen' \in [Targets -> 0 .. MaxBegins] /\ gen'[u] = e /\ \A t \in Targets : t # u => gen'[t] = gen[t]
      /\ gen \in [Targets -> 0 .. MaxBegins]
  BY <1>0, <1>1, <1>3 DEF AttBook
<1>6. \A d \in Callers, t \in Targets, g \in 0 .. MaxBegins :
          Att!InHand(d, t, g)' <=> Att!InHand(d, t, g) \/ (d = c /\ t = u /\ g = e)
  BY <1>1, <1>3, <1>4 DEF Att!InHand
<1>7. \A i \in Att!Ids, t \in Targets, g \in 0 .. MaxBegins : Att!InFlightAs(i, t, g)' <=> Att!InFlightAs(i, t, g)
  BY <1>1 DEF Att!InFlightAs, Att!InFlight
<1>8. \A t \in Targets, g \in 0 .. MaxBegins : (g <= gen[t] => g <= gen'[t] /\ ~(t = u /\ g = e))
  BY <1>3, <1>5
<1>9. e <= gen'[u]
  BY <1>5
<1>10. ASSUME NEW t \in Targets, NEW g \in 0 .. MaxBegins
       PROVE  Att!Apart(t, g)' /\ (Att!Over(t, g) => Att!Over(t, g)')
  <2>1. Att!Apart(t, g)
    BY <1>0 DEF AttBook
  <2>2. CASE t = u /\ g = e
    <3>1. ~(g <= gen[t])
      BY <1>8, <2>2
    <3>2. (\A i \in Att!Ids : ~Att!InFlightAs(i, t, g)) /\ (\A d \in Callers : ~Att!InHand(d, t, g))
      BY <2>1, <3>1 DEF Att!Apart
    <3> QED
      BY <1>6, <1>7, <1>9, <2>2, <3>1, <3>2 DEF Att!Apart, Att!Over
  <2>3. CASE ~(t = u /\ g = e)
    BY <1>6, <1>7, <1>8, <2>1, <2>3 DEF Att!Apart, Att!Over
  <2> QED
    BY <2>2, <2>3
<1>11. ASSUME NEW t \in Targets PROVE Att!Closed(t)'
  <2>1. Att!Closed(t)
    BY <1>0 DEF AttBook
  <2>2. \A g \in 1 .. MaxBegins : g \in 0 .. MaxBegins
    BY <1>0
  <2>3. \A g \in 0 .. MaxBegins : Att!WasApplied(t, g)' => Att!WasApplied(t, g)
    BY <1>1 DEF Att!WasApplied
  <2>4. \A g \in 1 .. MaxBegins : verdicts'[t][g] <= 1 /\ (verdicts'[t][g] = 1 => Att!Over(t, g)')
    BY <1>1, <1>10, <2>1, <2>2 DEF Att!Closed
  <2> QED
    BY <1>10, <2>1, <2>3, <2>4 DEF Att!Closed
<1>12. AttBook'
  BY <1>0, <1>1, <1>5, <1>10, <1>11 DEF AttBook, Att!AppliedInOrder, Att!VerdictOnce
<1> QED
  BY <1>2, <1>4, <1>12, AttParts

LEMMA AttInsert == ASSUME Att!IInv, NEW c \in Callers, Att!Insert(c) PROVE Att!IInv'
<1>0. AttRing /\ AttBook /\ AttCalls
  BY AttParts
<1>1. /\ call[c].pc = "insert"
      /\ attempts' = [attempts EXCEPT ![call[c].id] = [state |-> "InFlight", gen |-> call[c].gen]]
      /\ call' = [call EXCEPT ![c].pc = "submit"]
      /\ UNCHANGED <<gen, applied, verdicts, reqHead>>
  BY DEF Att!Insert, Att!reqRing
<1>2. AttRing'
  BY <1>0, AttRingSame DEF Att!Insert
<1>3. PICK id \in Att!Ids, u \in Targets, e \in 0 .. MaxBegins : id = call[c].id /\ u = id[1] /\ e = call[c].gen
  BY <1>0, AttIds DEF AttCalls
<1>4. Att!InHand(c, u, e)
  BY <1>1, <1>3 DEF Att!InHand
<1>5. AttCalls' /\ call'[c].pc = "submit" /\ \A d \in Callers : d # c => call'[d] = call[d]
  BY <1>0, <1>1 DEF AttCalls, Att!Places
<1>6. /\ attempts' \in [Att!Ids -> [state : Att!States, gen : 0 .. MaxBegins]]
      /\ attempts'[id] = [state |-> "InFlight", gen |-> e] /\ \A i \in Att!Ids : i # id => attempts'[i] = attempts[i]
  BY <1>0, <1>1, <1>3 DEF AttBook, Att!States
<1>7. \A d \in Callers, t \in Targets, g \in 0 .. MaxBegins :
          Att!InHand(d, t, g)' <=> Att!InHand(d, t, g) /\ d # c
  BY <1>5 DEF Att!InHand
<1>8. \A i \in Att!Ids, t \in Targets, g \in 0 .. MaxBegins :
          Att!InFlightAs(i, t, g)' <=> IF i = id THEN t = u /\ g = e ELSE Att!InFlightAs(i, t, g)
  BY <1>3, <1>6 DEF Att!InFlightAs, Att!InFlight
<1>9. ASSUME NEW t \in Targets, NEW g \in 0 .. MaxBegins
      PROVE  Att!Apart(t, g)' /\ (Att!Over(t, g) => Att!Over(t, g)')
  <2>1. Att!Apart(t, g)
    BY <1>0 DEF AttBook
  <2>2. CASE t = u /\ g = e
    <3>1. /\ \A i \in Att!Ids : ~Att!InFlightAs(i, t, g)
          /\ \A d \in Callers : Att!InHand(d, t, g) => d = c
          /\ g <= gen[t] /\ ~Att!Over(t, g)
      BY <1>4, <2>1, <2>2 DEF Att!Apart, Att!Over
    <3>2. g <= gen'[t]
      BY <1>1, <3>1
    <3> QED
      BY <1>7, <1>8, <2>2, <3>1, <3>2 DEF Att!Apart
  <2>3. CASE ~(t = u /\ g = e)
    <3>1. \A i \in Att!Ids : Att!InFlightAs(i, t, g)' => Att!InFlightAs(i, t, g)
      BY <1>8, <2>3
    <3> QED
      BY <1>1, <1>7, <2>1, <3>1 DEF Att!Apart, Att!Over
  <2> QED
    BY <2>2, <2>3
<1>10. ASSUME NEW t \in Targets PROVE Att!Closed(t)'
  <2>1. Att!Closed(t)
    BY <1>0 DEF AttBook
  <2>2. \A g \in 1 .. MaxBegins : g \in 0 .. MaxBegins
    BY RequestsAssumption
  <2>3. \A g \in 0 .. MaxBegins : Att!WasApplied(t, g)' => Att!WasApplied(t, g)
    BY <1>1 DEF Att!WasApplied
  <2>4. \A g \in 1 .. MaxBegins : verdicts'[t][g] <= 1 /\ (verdicts'[t][g] = 1 => Att!Over(t, g)')
    BY <1>1, <1>9, <2>1, <2>2 DEF Att!Closed
  <2> QED
    BY <1>9, <2>1, <2>3, <2>4 DEF Att!Closed
<1>11. AttBook'
  BY <1>0, <1>1, <1>6, <1>9, <1>10 DEF AttBook, Att!AppliedInOrder, Att!VerdictOnce
<1> QED
  BY <1>2, <1>5, <1>11, AttParts

LEMMA AttSubmitFails == ASSUME Att!IInv, NEW c \in Callers, Att!SubmitFails(c) PROVE Att!IInv'
<1>0. AttRing /\ AttBook /\ AttCalls
  BY AttParts
<1>1. /\ call[c].pc = "submit" /\ call' = [call EXCEPT ![c] = Att!Idle]
      /\ attempts' = [attempts EXCEPT ![call[c].id].state = "Failed"]
      /\ UNCHANGED <<gen, applied, verdicts, reqHead>> /\ reqHead \in 0 .. Slots - 1
  BY <1>0 DEF Att!SubmitFails, Att!reqRing, AttCalls
<1>2. AttRing'
  BY <1>0, AttRingSame DEF Att!SubmitFails
<1>3. /\ AttCalls' /\ call[c].id \in Att!Ids
      /\ \A d \in Callers, t \in Targets, g \in 0 .. MaxBegins :
             Att!InHand(d, t, g)' => Att!InHand(d, t, g)
  BY <1>0, <1>1, AttReturns
<1>4. PICK id \in Att!Ids : id = call[c].id
  BY <1>3
<1>5. /\ attempts' \in [Att!Ids -> [state : Att!States, gen : 0 .. MaxBegins]]
      /\ attempts'[id].state = "Failed" /\ \A i \in Att!Ids : i # id => attempts'[i] = attempts[i]
  BY <1>0, <1>1, <1>4 DEF AttBook, Att!States
<1>6. ASSUME NEW i \in Att!Ids, NEW t \in Targets, NEW g \in 0 .. MaxBegins, Att!InFlightAs(i, t, g)'
      PROVE  Att!InFlightAs(i, t, g)
  <2>1. i # id
    BY <1>5, <1>6 DEF Att!InFlightAs, Att!InFlight
  <2> QED
    BY <1>5, <1>6, <2>1 DEF Att!InFlightAs, Att!InFlight
<1>7. AttBook'
  BY <1>0, <1>1, <1>3, <1>5, <1>6, AttQuiet
<1> QED
  BY <1>2, <1>3, <1>7, AttParts

\* The steps of a submit that leave the book.
LEMMA AttSubmits ==
    ASSUME Att!IInv, NEW c \in Callers,
           Att!LoadRequest(c) \/ Att!FillRequest(c) \/ Att!StoreRequest(c) \/ Att!Submit(c) \/ Att!Respond(c)
    PROVE  Att!IInv'
<1>0. AttRing /\ AttBook /\ AttCalls
  BY AttParts
<1>1. gen' = gen /\ UNCHANGED Att!book /\ (UNCHANGED Att!ring \/ Att!LoadHead(c)) /\ c \in Att!Writers
  BY DEF Att!LoadRequest, Att!FillRequest, Att!StoreRequest, Att!Submit, Att!Respond, Att!Writers
<1>2. AttRing'
  BY <1>0, <1>1, AttRingSame, AttLoadHead
<1>3. reqHead' \in 0 .. Slots - 1
  <2>1. reqHead' = reqHead \/ reqHead' = Att!NextSlot(call[c].at)
    BY DEF Att!LoadRequest, Att!FillRequest, Att!StoreRequest, Att!Submit, Att!Respond, Att!reqRing
  <2>2. reqHead \in 0 .. Slots - 1 /\ call[c].at \in 0 .. Slots - 1
    BY <1>0 DEF AttCalls
  <2> QED
    BY <2>1, <2>2, AttNext
<1>4. /\ AttCalls'
      /\ \A d \in Callers, t \in Targets, g \in 0 .. MaxBegins :
             Att!InHand(d, t, g)' => Att!InHand(d, t, g)
  <2>1. CASE Att!LoadRequest(c)
    <3> DEFINE r == [pc |-> "fill", id |-> call[c].id, gen |-> call[c].gen, at |-> reqHead]
    <3>1. r \in [pc : Att!Places, id : Att!Ids, gen : 0 .. MaxBegins, at : 0 .. Slots - 1] /\ r.pc # "insert"
      BY <1>0 DEF AttCalls, Att!Places
    <3>2. call' = [call EXCEPT ![c] = r]
      BY <1>0, <2>1 DEF Att!LoadRequest, AttCalls
    <3> HIDE DEF r
    <3> QED
      BY <1>0, <1>3, <3>1, <3>2, AttMoves
  <2>2. CASE ~Att!LoadRequest(c)
    <3>1. \/ call' = [call EXCEPT ![c] = Att!Idle]
          \/ \E p \in {"store", "respond", "complete"} : call' = [call EXCEPT ![c].pc = p]
      BY <2>2 DEF Att!FillRequest, Att!StoreRequest, Att!Submit, Att!Respond, Att!Submitted
    <3>2. {"store", "respond", "complete"} \in SUBSET Att!Places /\ "insert" \notin {"store", "respond", "complete"}
      BY DEF Att!Places
    <3>3. CASE call' = [call EXCEPT ![c] = Att!Idle]
      BY <1>0, <1>3, <3>3, AttReturns
    <3>4. ASSUME NEW p \in {"store", "respond", "complete"}, call' = [call EXCEPT ![c].pc = p] PROVE <1>4
      <4>1. p \in Att!Places /\ p # "insert"
        BY <3>2
      <4> QED
        BY <1>0, <1>3, <3>4, <4>1, AttGoesOn
    <3> QED
      BY <3>1, <3>3, <3>4
  <2> QED
    BY <2>1, <2>2
<1>5. AttBook'
  BY <1>0, <1>1, <1>4, AttBookSame
<1> QED
  BY <1>2, <1>4, <1>5, AttParts

LEMMA AttHandle == ASSUME Att!IInv, NEW c \in Callers, Att!Handle(c) PROVE Att!IInv'
<1>0. AttRing /\ AttBook /\ AttCalls
  BY AttParts
<1>1. /\ call' = [call EXCEPT ![c] = Att!Idle] /\ gen' = gen /\ Att!Complete(call[c].id)
      /\ UNCHANGED Att!ring /\ reqHead' = reqHead /\ reqHead \in 0 .. Slots - 1
  BY <1>0 DEF Att!Handle, Att!reqRing, AttCalls
<1>2. AttRing'
  BY <1>0, <1>1, AttRingSame
<1>3. /\ AttCalls' /\ call[c].id \in Att!Ids
      /\ \A d \in Callers, t \in Targets, g \in 0 .. MaxBegins :
             Att!InHand(d, t, g)' => Att!InHand(d, t, g)
  BY <1>0, <1>1, AttReturns
<1>4. PICK id \in Att!Ids : id = call[c].id
  BY <1>3
<1>5. Att!Complete(id)
  BY <1>1, <1>4
<1>6. AttBook'
  BY <1>0, <1>1, <1>3, <1>5, AttComplete
<1> QED
  BY <1>2, <1>3, <1>6, AttParts

LEMMA AttAnswer == ASSUME Att!IInv, NEW id \in Att!Ids, Att!Answer(id) PROVE Att!IInv'
<1>0. AttRing /\ AttBook /\ AttCalls
  BY AttParts
<1>1. /\ call' = call /\ gen' = gen /\ reqHead' = reqHead
      /\ \/ Att!LoadHead(Engine) /\ UNCHANGED Att!book
         \/ Att!Complete(id) /\ UNCHANGED Att!ring
      /\ Engine \in Att!Writers
  BY DEF Att!Answer, Att!reqRing, Att!Writers
<1>2. AttRing'
  BY <1>0, <1>1, AttRingSame, AttLoadHead
<1>3. /\ AttCalls'
      /\ \A d \in Callers, t \in Targets, g \in 0 .. MaxBegins :
             Att!InHand(d, t, g)' => Att!InHand(d, t, g)
  BY <1>0, <1>1, AttCallsSame
<1>4. AttBook'
  BY <1>0, <1>1, <1>3, AttComplete, AttBookSame
<1> QED
  BY <1>2, <1>3, <1>4, AttParts

LEMMA AttExpire == ASSUME Att!IInv, Att!ExpireTimeouts PROVE Att!IInv'
<1>0. AttRing /\ AttBook /\ AttCalls
  BY AttParts
<1>1. call' = call /\ gen' = gen /\ applied' = applied /\ UNCHANGED Att!ring /\ reqHead' = reqHead
  BY DEF Att!ExpireTimeouts, Att!reqRing
<1>2. PICK ids \in SUBSET Att!Ids : Att!TimedOut(ids) /\ Att!Ends(ids, "TimedOut")
  BY DEF Att!ExpireTimeouts
<1>3. /\ AttCalls'
      /\ \A d \in Callers, t \in Targets, g \in 0 .. MaxBegins :
             Att!InHand(d, t, g)' => Att!InHand(d, t, g)
  BY <1>0, <1>1, AttCallsSame
<1>4. (\A i \in ids : Att!InFlight(i)) /\ "TimedOut" \in Att!States
  BY <1>2 DEF Att!TimedOut, Att!States
<1>5. AttBook'
  BY <1>0, <1>1, <1>2, <1>3, <1>4, AttEnds
<1> QED
  BY <1>0, <1>1, <1>3, <1>5, AttRingSame, AttParts

\* The rings, the engine's side, and no step at all.
LEMMA AttRest ==
    ASSUME Att!IInv, gen' = gen, call' = call, reqHead' = reqHead, UNCHANGED Att!book,
           \/ UNCHANGED Att!ring
           \/ Att!Poll
           \/ Att!PollResponseSlot
           \/ \E w \in Att!Writers : Att!FillSlot(w) \/ Att!StoreHead(w)
    PROVE  Att!IInv'
<1>0. AttRing /\ AttBook /\ AttCalls
  BY AttParts
<1>1. /\ AttCalls'
      /\ \A d \in Callers, t \in Targets, g \in 0 .. MaxBegins :
             Att!InHand(d, t, g)' => Att!InHand(d, t, g)
  BY <1>0, AttCallsSame
<1>2. AttBook'
  BY <1>0, <1>1, AttBookSame
<1>3. AttRing'
  BY <1>0, AttRingSame, AttPoll, AttRingPoll, AttFillSlot, AttStoreHead
<1> QED
  BY <1>1, <1>2, <1>3, AttParts

(***************************************************************************)
(* However the threads that begin attempts, their writes to the two rings, *)
(* the engine's answers and the timeouts interleave, for any number of     *)
(* targets, threads and slots: the answers applied to a target are those   *)
(* of ever later attempts, an attempt gets one verdict, and the response   *)
(* ring hands on every answer once and in order until two are written at   *)
(* once or one over another (PredictionAttemptCoordinator,                 *)
(* GenerationFence, ShmPredictionClient).                                  *)
(***************************************************************************)
THEOREM AnswersAreSafe == Att!Spec => []AnswersSafe
<1>1. Att!IInv /\ [Att!Next]_(Att!vars) => Att!IInv'
  <2> SUFFICES ASSUME Att!IInv, [Att!Next]_(Att!vars) PROVE Att!IInv'
    OBVIOUS
  <2>1. ASSUME NEW c \in Callers, Att!Begin(c) PROVE Att!IInv'
    BY <2>1, AttBump, AttInsert, AttSubmitFails, AttSubmits, AttHandle DEF Att!Begin
  <2>2. CASE Att!Toggle \/ Att!Fetch \/ Att!PopRequest
    BY <2>2, AttRest DEF Att!Toggle, Att!Fetch, Att!PopRequest, Att!reqRing
  <2>3. CASE Att!Poll \/ Att!PollResponseSlot
    BY <2>3, AttRest DEF Att!Poll, Att!PollResponseSlot, Att!reqRing
  <2>4. ASSUME NEW w \in Att!Writers, Att!FillSlot(w) \/ Att!StoreHead(w) PROVE Att!IInv'
    BY <2>4, AttRest DEF Att!FillSlot, Att!StoreHead, Att!reqRing
  <2>5. CASE UNCHANGED Att!vars
    BY <2>5, AttRest DEF Att!vars, Att!reqRing
  <2> QED
    BY <2>1, <2>2, <2>3, <2>4, <2>5, AttAnswer, AttExpire DEF Att!Next
<1>2. Att!IInv => AnswersSafe
  <2> SUFFICES ASSUME Att!IInv PROVE Att!AnswersSafe
    BY DEF AnswersSafe
  <2>1. AttRing /\ Att!AppliedInOrder /\ Att!VerdictOnce
    BY AttParts DEF AttBook
  <2> QED
    BY <2>1, AttInOrder DEF Att!AnswersSafe
<1> QED
  BY <1>1, <1>2, AttInit, PTL DEF Att!Spec
=============================================================================
