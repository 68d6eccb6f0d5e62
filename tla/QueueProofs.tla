---------------------------- MODULE QueueProofs -----------------------------
(***************************************************************************)
(* Proofs about the components of MCQueues, for every value of their       *)
(* parameters: the connection pool (Conns), the worker pool (Pool), the    *)
(* batch writer (Batch), the multi-producer ring (Mpsc) and the single-    *)
(* producer ring.                                                          *)
(***************************************************************************)
EXTENDS MCQueues, TLAPS, FiniteSetTheorems, SequenceTheorems, WellFoundedInduction

(* ConnectionPool.                                                         *)

LEMMA LeastOf ==
    ASSUME NEW T \in SUBSET Nat, T # {}
    PROVE  \E x \in T : \A y \in T : x <= y
<1>1. PICK x \in T : \A y \in T : <<y, x>> \notin OpToRel(<, Nat)
  BY NatLessThanWellFounded, WFMin
<1>2. \A y \in T : <<y, x>> \in OpToRel(<, Nat) <=> y < x
  BY DEF OpToRel
<1>3. \A y \in T : ~(y < x)
  BY <1>1, <1>2, Zenon
<1>4. \A y \in T : x <= y
  BY <1>3
<1> QED
  BY <1>4

LEMMA ConnCard == \A S : Conns!Cardinality(S) = Cardinality(S)
  BY DEF Conns!Cardinality, Cardinality

LEMMA ConnFirst ==
    ASSUME Conns!TypeOK, NEW full \in BOOLEAN,
           \E i \in DOMAIN pool : (pool[i] # Conns!Empty) = full
    PROVE  /\ Conns!First(full) \in DOMAIN pool
           /\ (pool[Conns!First(full)] # Conns!Empty) = full
<1> DEFINE T == {i \in DOMAIN pool : (pool[i] # Conns!Empty) = full}
<1>0. DOMAIN pool = 1 .. Len(pool) /\ Len(pool) \in Nat
  BY DEF Conns!TypeOK
<1>1. T \in SUBSET Nat /\ T # {}
  BY <1>0
<1>2. PICK x \in T : \A y \in T : x <= y
  BY <1>1, LeastOf
<1>3. \A j \in 1 .. x - 1 : j \in DOMAIN pool /\ ~(x <= j)
  BY <1>0, <1>2
<1>4. \A j \in 1 .. x - 1 : (pool[j] # Conns!Empty) # full
  BY <1>2, <1>3
<1>5. \E i \in DOMAIN pool :
          /\ (pool[i] # Conns!Empty) = full
          /\ \A j \in 1 .. i - 1 : (pool[j] # Conns!Empty) # full
  BY <1>2, <1>4
<1> QED
  BY <1>5 DEF Conns!First

LEMMA ConnFinite ==
    ASSUME Conns!TypeOK
    PROVE  /\ IsFiniteSet(Conns!Free) /\ Cardinality(Conns!Free) \in Nat
           /\ IsFiniteSet(Conns!Holders) /\ Cardinality(Conns!Holders) \in Nat
           /\ \A s : IsFiniteSet(Conns!AtState(s)) /\ Cardinality(Conns!AtState(s)) \in Nat
<1>1. IsFiniteSet(1 .. Len(pool)) /\ Conns!Free \in SUBSET (1 .. Len(pool))
  BY FS_Interval DEF Conns!TypeOK, Conns!Free
<1>2. IsFiniteSet(Threads) /\ Conns!Holders \in SUBSET Threads
  BY ConnectionsAssumption DEF Conns!Holders
<1>3. \A s : Conns!AtState(s) \in SUBSET Threads
  BY DEF Conns!AtState
<1> QED
  BY <1>1, <1>2, <1>3, FS_Subset, FS_CardinalityType

LEMMA ConnInit == Conns!Init => Conns!IInv
<1> SUFFICES ASSUME Conns!Init PROVE Conns!IInv
  OBVIOUS
<1>1. Conns!TypeOK
  <2>1. over \in BOOLEAN /\ under \in BOOLEAN
    BY DEF Conns!Init
  <2> QED
    BY <2>1 DEF Conns!Init, Conns!TypeOK, Conns!Empty
<1>2. Conns!Free = {} /\ Conns!Holders = {} /\ Conns!AtState("asleep") = {}
  BY DEF Conns!Init, Conns!Free, Conns!Holders, Conns!AtState
<1>3. Conns!Hands /\ Conns!Apart
  BY <1>2 DEF Conns!Init, Conns!Hands, Conns!Apart, Conns!Empty
<1>4. Conns!Books
  <2>1. Cardinality(Conns!Free) = 0 /\ Cardinality(Conns!Holders) = 0
    BY <1>2, FS_EmptySet
  <2> QED
    BY <2>1, ConnCard DEF Conns!Init, Conns!Books, Conns!CountIsFree
<1>5. Conns!NoLostWakeup
  BY <1>2 DEF Conns!NoLostWakeup
<1> QED
  BY <1>1, <1>3, <1>4, <1>5 DEF Conns!IInv

LEMMA ConnStart ==
    ASSUME Conns!IInv, NEW k \in 0 .. Connections, Conns!Start(k)
    PROVE  Conns!IInv'
<1> DEFINE n == Len(pool)
           new == [i \in 1 .. k |-> made + i]
<1>0. /\ pool \in Seq(Nat) /\ made \in Nat /\ n \in Nat /\ k \in Nat /\ Connections \in Nat
      /\ k <= Connections /\ Connections >= 1 /\ available \in Nat /\ discarded \in Nat
  BY ConnectionsAssumption DEF Conns!IInv, Conns!TypeOK
<1>1. new \in Seq(Nat) /\ Len(new) = k /\ \A i \in 1 .. k : new[i] = made + i
  BY <1>0
<1>2. /\ pool' \in Seq(Nat) /\ Len(pool') = n + k
      /\ \A i \in 1 .. n : pool'[i] = pool[i]
      /\ \A i \in n + 1 .. n + k : pool'[i] = made + (i - n)
  <2>1. pool' = pool \o new
    BY DEF Conns!Start
  <2> HIDE DEF new
  <2>2. pool' \in Seq(Nat) /\ Len(pool') = n + k
    BY <1>0, <1>1, <2>1, ConcatProperties
  <2>3. \A i \in 1 .. n + k : pool'[i] = IF i <= n THEN pool[i] ELSE new[i - n]
    BY <1>0, <1>1, <2>1, ConcatProperties
  <2>4. \A i \in n + 1 .. n + k : i \in 1 .. n + k /\ ~(i <= n) /\ i - n \in 1 .. k
    BY <1>0
  <2> QED
    BY <1>0, <1>1, <2>2, <2>3, <2>4, SMTT(60)
<1>3. made' = made + k /\ connThread' = connThread /\ held' = held /\ discarded' = discarded
  BY DEF Conns!Start
<1>4. DOMAIN pool = 1 .. n /\ DOMAIN pool' = 1 .. n + k /\ \A i \in 1 .. n : pool[i] \in Nat
  BY <1>0, <1>2
<1> HIDE DEF n, new
<1>5. /\ Conns!Free \in SUBSET (1 .. n) /\ Conns!Holders' = Conns!Holders
      /\ Conns!Free' = Conns!Free \cup (n + 1 .. n + k)
      /\ Conns!Free \cap (n + 1 .. n + k) = {}
  <2>1. Conns!Free \in SUBSET (1 .. n) /\ Conns!Holders' = Conns!Holders
    BY <1>3, <1>4 DEF Conns!Free, Conns!Holders
  <2>2. \A i \in n + 1 .. n + k : i \in 1 .. n + k /\ i \notin 1 .. n /\ pool'[i] # 0
    BY <1>0, <1>2
  <2>3. \A i \in 1 .. n + k : i \in 1 .. n \/ i \in n + 1 .. n + k
    BY <1>0
  <2>4. \A i \in 1 .. n : i \in 1 .. n + k /\ pool'[i] = pool[i]
    BY <1>0, <1>2
  <2> QED
    BY <1>4, <2>1, <2>2, <2>3, <2>4 DEF Conns!Free, Conns!Empty
<1>6. /\ IsFiniteSet(Conns!Free) /\ Cardinality(Conns!Free) \in Nat /\ Cardinality(Conns!Holders) \in Nat
      /\ Cardinality(Conns!Free') = Cardinality(Conns!Free) + k
  <2>1. IsFiniteSet(Conns!Free) /\ Cardinality(Conns!Free) \in Nat /\ Cardinality(Conns!Holders) \in Nat
    BY ConnFinite DEF Conns!IInv
  <2>2. IsFiniteSet(n + 1 .. n + k) /\ Cardinality(n + 1 .. n + k) = k
    <3>1. n + 1 \in Int /\ n + k \in Int
      BY <1>0
    <3> DEFINE a == n + 1
               b == n + k
    <3>3. a \in Int /\ b \in Int
      BY <3>1
    <3> HIDE DEF a, b
    <3>4. IsFiniteSet(a .. b) /\ Cardinality(a .. b) = IF a > b THEN 0 ELSE b - a + 1
      BY <3>3, FS_Interval, Zenon
    <3>5. a = n + 1 /\ b = n + k
      BY DEF a, b
    <3>6. (IF a > b THEN 0 ELSE b - a + 1) = k
      BY <1>0, <3>5
    <3>7. IsFiniteSet(a .. b) /\ Cardinality(a .. b) = k
      BY <3>4, <3>6, Zenon
    <3> QED
      BY <3>5, <3>7, Zenon
  <2>3. Cardinality(Conns!Free \cup (n + 1 .. n + k)) = Cardinality(Conns!Free) + Cardinality(n + 1 .. n + k) - Cardinality(Conns!Free \cap (n + 1 .. n + k))
    BY <2>1, <2>2, FS_Union
  <2>4. Cardinality(Conns!Free \cap (n + 1 .. n + k)) = 0
    BY <1>5, FS_EmptySet
  <2> QED
    BY <1>0, <1>5, <2>1, <2>2, <2>3, <2>4
<1>7. Conns!TypeOK'
  <2>1. over' \in BOOLEAN /\ under' \in BOOLEAN
    <3>1. over \in BOOLEAN /\ under \in BOOLEAN
      BY DEF Conns!IInv, Conns!TypeOK
    <3>2. /\ over' = (Conns!Free # DOMAIN pool) \/ over' = over
          /\ under' = FALSE \/ under' = (under \/ k > 0)
      BY DEF Conns!Start
    <3> QED
      BY <3>1, <3>2, Zenon
  <2>2. available' \in Nat /\ passed' \subseteq Threads
    BY <1>0, <1>2 DEF Conns!Start, Conns!AtState, Conns!IInv, Conns!TypeOK
  <2>3. pool' \in Seq(Nat) /\ made' \in Nat /\ discarded' \in Nat
    BY <1>0, <1>2, <1>3
  <2> QED
    BY <1>3, <2>1, <2>2, <2>3 DEF Conns!IInv, Conns!TypeOK
<1>8. Conns!Hands'
  BY <1>3 DEF Conns!IInv, Conns!Hands
<1>9. Conns!Apart'
  <2>1. /\ \A i, j \in Conns!Free : pool[i] = pool[j] => i = j
        /\ \A a, u \in Conns!Holders : held[a] = held[u] => a = u
        /\ \A i \in Conns!Free, a \in Conns!Holders : pool[i] # held[a]
        /\ \A i \in Conns!Free : pool[i] <= made
        /\ \A a \in Conns!Holders : held[a] <= made
    BY DEF Conns!IInv, Conns!Apart
  <2>2. \A i \in Conns!Free : pool'[i] = pool[i] /\ pool[i] \in Nat /\ pool[i] <= made
    BY <1>2, <1>4, <1>5, <2>1
  <2>3. \A i \in n + 1 .. n + k : i \in Nat /\ pool'[i] = made + (i - n) /\ i > n /\ i - n <= k /\ i - n >= 1
    BY <1>0, <1>2
  <2>4. \A a \in Conns!Holders : held[a] \in Nat /\ held[a] <= made
    BY <2>1 DEF Conns!IInv, Conns!TypeOK, Conns!Holders
  <2>5. \A i, j \in Conns!Free' : pool'[i] = pool'[j] => i = j
    BY <1>0, <1>5, <2>1, <2>2, <2>3
  <2>6. \A i \in Conns!Free', a \in Conns!Holders : pool'[i] # held[a]
    BY <1>0, <1>5, <2>1, <2>2, <2>3, <2>4
  <2>7. \A i \in Conns!Free' : pool'[i] <= made'
    BY <1>0, <1>3, <1>5, <2>2, <2>3
  <2>8. \A a \in Conns!Holders : held[a] <= made'
    BY <1>0, <1>3, <2>4
  <2> QED
    BY <1>3, <1>5, <2>1, <2>5, <2>6, <2>7, <2>8 DEF Conns!Apart
<1>10. Cardinality(Conns!Free') + Cardinality(Conns!Holders') + discarded' = made'
  <2>1. Cardinality(Conns!Free) + Cardinality(Conns!Holders) + discarded = made
    BY ConnCard DEF Conns!IInv, Conns!Books
  <2>2. Cardinality(Conns!Holders') = Cardinality(Conns!Holders)
    BY <1>5
  <2> DEFINE f == Cardinality(Conns!Free)
             h == Cardinality(Conns!Holders)
  <2>3. f \in Nat /\ h \in Nat /\ f + h + discarded = made
    BY <1>6, <2>1, Zenon
  <2>4. Cardinality(Conns!Free') = f + k /\ Cardinality(Conns!Holders') = h
    BY <1>6, <2>2, Zenon
  <2> HIDE DEF f, h
  <2>5. f + k + h + discarded = made + k
    BY <1>0, <2>3
  <2> QED
    BY <1>3, <2>4, <2>5, Zenon
<1>11. CASE k = Connections
  <2>1. available' = n + k /\ passed' = Conns!AtState("asleep") /\ over' = (Conns!Free # 1 .. n)
    BY <1>0, <1>2, <1>4, <1>11 DEF Conns!Start
  <2>2. Cardinality(Conns!Free) <= n /\ (Conns!Free = 1 .. n => Cardinality(Conns!Free) = n)
    <3>1. IsFiniteSet(1 .. n) /\ Cardinality(1 .. n) = n
      BY <1>0, FS_Interval
    <3> QED
      BY <1>5, <3>1, FS_Subset
  <2>3. Conns!Books'
    <3>1. available' >= Cardinality(Conns!Free')
      BY <1>0, <1>6, <2>1, <2>2
    <3>2. ASSUME ~over' PROVE available' <= Cardinality(Conns!Free')
      <4>1. Conns!Free = 1 .. n
        BY <2>1, <3>2, Zenon
      <4>2. Cardinality(Conns!Free) = n
        BY <2>2, <4>1
      <4>3. available' = n + k
        BY <2>1
      <4> QED
        BY <1>0, <1>6, <4>2, <4>3
    <3> QED
      BY <1>10, <3>1, <3>2, ConnCard DEF Conns!Books, Conns!CountIsFree
  <2>4. Conns!NoLostWakeup'
    <3>1. Conns!AtState("asleep")' = Conns!AtState("asleep")
      BY <1>3 DEF Conns!AtState
    <3> QED
      BY <2>1, <3>1 DEF Conns!NoLostWakeup
  <2> QED
    BY <1>7, <1>8, <1>9, <2>3, <2>4 DEF Conns!IInv
<1>12. CASE k # Connections
  <2>1. under' = (under \/ k > 0) /\ UNCHANGED <<available, over, passed>>
    BY <1>12 DEF Conns!Start
  <2>2. Conns!Books'
    <3>1. /\ ~over => available <= Cardinality(Conns!Free)
          /\ ~under => available >= Cardinality(Conns!Free)
      BY ConnCard DEF Conns!IInv, Conns!Books, Conns!CountIsFree
    <3>2. ~over' => available' <= Cardinality(Conns!Free')
      BY <1>0, <1>6, <2>1, <3>1
    <3>3. ASSUME ~under' PROVE available' >= Cardinality(Conns!Free')
      <4>1. ~under /\ ~(k > 0)
        BY <2>1, <3>3, Zenon
      <4>2. k = 0 /\ available >= Cardinality(Conns!Free)
        BY <1>0, <3>1, <4>1
      <4>3. available' = available
        BY <2>1
      <4> QED
        BY <1>0, <1>6, <4>2, <4>3
    <3> QED
      BY <1>10, <3>2, <3>3, ConnCard DEF Conns!Books, Conns!CountIsFree
  <2>3. Conns!NoLostWakeup'
    <3>1. \A s : Conns!AtState(s)' = Conns!AtState(s)
      BY <1>3 DEF Conns!AtState
    <3> QED
      BY <2>1, <3>1, ConnCard DEF Conns!NoLostWakeup, Conns!IInv
  <2> QED
    BY <1>7, <1>8, <1>9, <2>2, <2>3 DEF Conns!IInv
<1> QED
  BY <1>11, <1>12

LEMMA ConnStop == ASSUME Conns!IInv, Conns!Stop PROVE Conns!IInv'
<1>0. /\ pool' = <<>> /\ available' = 0 /\ discarded' = discarded + Cardinality(Conns!Free)
      /\ passed' = Conns!AtState("asleep") /\ UNCHANGED <<connThread, held, made>>
  BY ConnCard DEF Conns!Stop
<1>1. Conns!Free' = {} /\ Conns!Holders' = Conns!Holders /\ Conns!AtState("asleep")' = Conns!AtState("asleep")
  BY <1>0 DEF Conns!Free, Conns!Holders, Conns!AtState
<1>2. Cardinality(Conns!Free) \in Nat /\ Cardinality(Conns!Holders) \in Nat /\ Cardinality(Conns!Free') = 0
  BY <1>1, ConnFinite, FS_EmptySet DEF Conns!IInv
<1>3. Conns!TypeOK' /\ Conns!Hands'
  <2>1. over' \in BOOLEAN /\ under' \in BOOLEAN
    BY DEF Conns!Stop
  <2>2. passed' \subseteq Threads /\ discarded' \in Nat
    BY <1>0, <1>2 DEF Conns!AtState, Conns!IInv, Conns!TypeOK
  <2> QED
    BY <1>0, <2>1, <2>2 DEF Conns!IInv, Conns!TypeOK, Conns!Hands
<1>4. Conns!Apart'
  BY <1>0, <1>1 DEF Conns!IInv, Conns!Apart
<1>5. Conns!Books'
  <2>1. Cardinality(Conns!Free) + Cardinality(Conns!Holders) + discarded = made /\ discarded \in Nat /\ made \in Nat
    BY ConnCard DEF Conns!IInv, Conns!Books, Conns!TypeOK
  <2>2. Cardinality(Conns!Free') + Cardinality(Conns!Holders') + discarded' = made'
    BY <1>0, <1>1, <1>2, <2>1
  <2> QED
    BY <1>0, <1>2, <2>2, ConnCard DEF Conns!Books, Conns!CountIsFree
<1>6. Conns!NoLostWakeup'
  BY <1>0, <1>1 DEF Conns!NoLostWakeup
<1> QED
  BY <1>3, <1>4, <1>5, <1>6 DEF Conns!IInv

LEMMA ConnTake ==
    ASSUME Conns!IInv, NEW t \in Threads, Conns!Acquire(t),
           \E i \in DOMAIN pool : pool[i] # Conns!Empty
    PROVE  Conns!IInv'
<1> DEFINE k == Conns!First(TRUE)
<1>0. /\ pool \in Seq(Nat) /\ available \in Nat /\ made \in Nat
      /\ connThread \in [Threads -> {"idle", "asleep", "woken", "holds"}]
      /\ held \in [Threads -> Nat]
  BY DEF Conns!IInv, Conns!TypeOK
<1>1. k \in DOMAIN pool /\ pool[k] # 0 /\ pool[k] \in Nat /\ k \in Conns!Free
  <2>1. k \in DOMAIN pool /\ (pool[k] # Conns!Empty) = TRUE
    BY ConnFirst DEF Conns!IInv
  <2> HIDE DEF k
  <2> QED
    BY <1>0, <2>1 DEF Conns!Empty, Conns!Free
<1>2. /\ held' = [held EXCEPT ![t] = pool[k]] /\ pool' = [pool EXCEPT ![k] = 0]
      /\ available' = available - 1 /\ connThread' = [connThread EXCEPT ![t] = "holds"]
      /\ connThread[t] \in {"idle", "woken"} /\ (available > 0 \/ pool = <<>>)
      /\ UNCHANGED <<made, discarded, over, under, passed>>
  BY DEF Conns!Acquire, Conns!CountTaken, Conns!Empty
<1> HIDE DEF k
<1>3. available > 0
  BY <1>0, <1>1, <1>2
<1>4. /\ pool' \in Seq(Nat) /\ Len(pool') = Len(pool) /\ DOMAIN pool' = DOMAIN pool
      /\ pool'[k] = 0 /\ \A i \in DOMAIN pool : i # k => pool'[i] = pool[i]
  BY <1>0, <1>1, <1>2
<1>5. Conns!Free' = Conns!Free \ {k}
  BY <1>4 DEF Conns!Free, Conns!Empty
<1>6. held[t] = 0 /\ Conns!Holders' = Conns!Holders \cup {t} /\ t \notin Conns!Holders
  BY <1>0, <1>1, <1>2 DEF Conns!IInv, Conns!Hands, Conns!Holders, Conns!Empty
<1>7. /\ Cardinality(Conns!Free') = Cardinality(Conns!Free) - 1
      /\ Cardinality(Conns!Holders') = Cardinality(Conns!Holders) + 1
      /\ Cardinality(Conns!Free) \in Nat /\ Cardinality(Conns!Holders) \in Nat
  BY <1>1, <1>5, <1>6, ConnFinite, FS_AddElement, FS_RemoveElement DEF Conns!IInv
<1>8. Conns!TypeOK'
  <2>1. over' \in BOOLEAN /\ under' \in BOOLEAN
    BY <1>2 DEF Conns!IInv, Conns!TypeOK
  <2> QED
    BY <1>0, <1>1, <1>2, <1>3, <1>4, <2>1 DEF Conns!TypeOK, Conns!IInv
<1>9. Conns!Hands'
  BY <1>0, <1>1, <1>2 DEF Conns!IInv, Conns!Hands, Conns!Empty
<1>10. Conns!Apart'
  <2>1. \A i \in Conns!Free' : i \in Conns!Free /\ i # k /\ pool'[i] = pool[i]
    BY <1>4, <1>5 DEF Conns!Free
  <2>2. /\ held'[t] = pool[k]
        /\ \A u \in Conns!Holders' : u # t => u \in Conns!Holders /\ held'[u] = held[u]
    BY <1>0, <1>2, <1>6
  <2>3. /\ \A i, j \in Conns!Free : pool[i] = pool[j] => i = j
        /\ \A a, u \in Conns!Holders : held[a] = held[u] => a = u
        /\ \A i \in Conns!Free, a \in Conns!Holders : pool[i] # held[a]
        /\ \A i \in Conns!Free : pool[i] <= made
        /\ \A a \in Conns!Holders : held[a] <= made
    BY DEF Conns!IInv, Conns!Apart
  <2> QED
    BY <1>1, <1>2, <2>1, <2>2, <2>3 DEF Conns!Apart
<1>11. Conns!Books'
  <2>1. /\ ~over => available <= Cardinality(Conns!Free)
        /\ ~under => available >= Cardinality(Conns!Free)
        /\ Cardinality(Conns!Free) + Cardinality(Conns!Holders) + discarded = made
        /\ discarded \in Nat
    BY ConnCard DEF Conns!IInv, Conns!Books, Conns!CountIsFree, Conns!TypeOK
  <2>2. /\ ~over' => available' <= Cardinality(Conns!Free')
        /\ ~under' => available' >= Cardinality(Conns!Free')
    BY <1>0, <1>2, <1>7, <2>1
  <2>3. Cardinality(Conns!Free') + Cardinality(Conns!Holders') + discarded' = made'
    BY <1>0, <1>2, <1>7, <2>1
  <2> QED
    BY <2>2, <2>3, ConnCard DEF Conns!Books, Conns!CountIsFree
<1>12. Conns!NoLostWakeup'
  <2>0. Conns!AtState("asleep")' = Conns!AtState("asleep")
    BY <1>0, <1>2 DEF Conns!AtState
  <2> SUFFICES ASSUME ~over', Conns!AtState("asleep")' \ passed' # {}
               PROVE  available' <= Cardinality(Conns!AtState("woken")')
    BY ConnCard DEF Conns!NoLostWakeup
  <2>3. available <= Cardinality(Conns!AtState("woken"))
    BY <1>2, <2>0, ConnCard DEF Conns!IInv, Conns!NoLostWakeup
  <2>1. CASE connThread[t] = "woken"
    <3>1. Conns!AtState("woken")' = Conns!AtState("woken") \ {t} /\ t \in Conns!AtState("woken")
      BY <1>0, <1>2, <2>1 DEF Conns!AtState
    <3>2. Cardinality(Conns!AtState("woken")') = Cardinality(Conns!AtState("woken")) - 1
      BY <3>1, ConnFinite, FS_RemoveElement DEF Conns!IInv
    <3>3. Cardinality(Conns!AtState("woken")) \in Nat
      BY ConnFinite DEF Conns!IInv
    <3> QED
      BY <1>0, <1>2, <2>3, <3>2, <3>3
  <2>2. CASE connThread[t] = "idle"
    <3>1. Conns!AtState("woken")' = Conns!AtState("woken")
      BY <1>0, <1>2, <2>2 DEF Conns!AtState
    <3>2. Cardinality(Conns!AtState("woken")) \in Nat
      BY ConnFinite DEF Conns!IInv
    <3> QED
      BY <1>0, <1>2, <2>3, <3>1, <3>2
  <2> QED
    BY <1>2, <2>1, <2>2
<1> QED
  BY <1>8, <1>9, <1>10, <1>11, <1>12 DEF Conns!IInv
LEMMA ConnComesBack ==
    ASSUME Conns!IInv, NEW t \in Threads, Conns!Acquire(t),
           \A i \in DOMAIN pool : pool[i] = Conns!Empty
    PROVE  Conns!IInv'
<1>0. /\ connThread' = [connThread EXCEPT ![t] = "idle"]
      /\ connThread[t] \in {"idle", "woken"} /\ (available > 0 \/ pool = <<>>)
      /\ UNCHANGED <<pool, available, held, made, discarded, over, under, passed>>
  BY DEF Conns!Acquire
<1>1. connThread \in [Threads -> {"idle", "asleep", "woken", "holds"}] /\ available \in Nat
  BY DEF Conns!IInv, Conns!TypeOK
<1>2. Conns!Free = {} /\ Conns!Free' = Conns!Free /\ Conns!Holders' = Conns!Holders
  BY <1>0 DEF Conns!Free, Conns!Holders
<1>3. available > 0 => over
  <2>1. ASSUME available > 0, ~over PROVE FALSE
    <3>1. available <= Cardinality(Conns!Free)
      BY <2>1, ConnCard DEF Conns!IInv, Conns!Books, Conns!CountIsFree
    <3>2. Cardinality(Conns!Free) = 0
      BY <1>2, FS_EmptySet
    <3> QED
      BY <1>1, <2>1, <3>1, <3>2
  <2> QED
    BY <2>1
<1>4. Conns!TypeOK'
  <2>1. over' \in BOOLEAN /\ under' \in BOOLEAN
    BY <1>0 DEF Conns!IInv, Conns!TypeOK
  <2> QED
    BY <1>0, <1>1, <2>1 DEF Conns!IInv, Conns!TypeOK
<1>5. Conns!Hands'
  BY <1>0, <1>1 DEF Conns!IInv, Conns!Hands
<1>6. Conns!Apart' /\ Conns!Books'
  BY <1>0, <1>2 DEF Conns!IInv, Conns!Apart, Conns!Books, Conns!CountIsFree
<1>8. Conns!NoLostWakeup'
  <2> SUFFICES ASSUME ~over', Conns!AtState("asleep")' \ passed' # {}
               PROVE  available' <= Cardinality(Conns!AtState("woken")')
    BY ConnCard DEF Conns!NoLostWakeup
  <2>1. available' = 0
    BY <1>0, <1>1, <1>3
  <2>2. Cardinality(Conns!AtState("woken")') \in Nat
    BY <1>4, ConnectionsAssumption, FS_Subset, FS_CardinalityType DEF Conns!AtState
  <2> QED
    BY <2>1, <2>2
<1> QED
  BY <1>4, <1>5, <1>6, <1>8 DEF Conns!IInv

LEMMA ConnWait ==
    ASSUME Conns!IInv, NEW t \in Threads, Conns!Wait(t)
    PROVE  Conns!IInv'
<1>0. /\ connThread' = [connThread EXCEPT ![t] = "asleep"]
      /\ connThread[t] \in {"idle", "woken"} /\ available = 0 /\ pool # <<>>
      /\ UNCHANGED <<pool, available, held, made, discarded, over, under, passed>>
  BY DEF Conns!Wait
<1>1. connThread \in [Threads -> {"idle", "asleep", "woken", "holds"}] /\ available \in Nat
  BY DEF Conns!IInv, Conns!TypeOK
<1>2. Conns!Free' = Conns!Free /\ Conns!Holders' = Conns!Holders
  BY <1>0 DEF Conns!Free, Conns!Holders
<1>4. Conns!TypeOK'
  <2>1. over' \in BOOLEAN /\ under' \in BOOLEAN
    BY <1>0 DEF Conns!IInv, Conns!TypeOK
  <2> QED
    BY <1>0, <1>1, <2>1 DEF Conns!IInv, Conns!TypeOK
<1>5. Conns!Hands'
  BY <1>0, <1>1 DEF Conns!IInv, Conns!Hands
<1>6. Conns!Apart' /\ Conns!Books'
  BY <1>0, <1>2 DEF Conns!IInv, Conns!Apart, Conns!Books, Conns!CountIsFree
<1>8. Conns!NoLostWakeup'
  <2>1. Cardinality(Conns!AtState("woken")') \in Nat
    BY <1>4, ConnectionsAssumption, FS_Subset, FS_CardinalityType DEF Conns!AtState
  <2>2. available' = 0
    BY <1>0
  <2>3. available' <= Cardinality(Conns!AtState("woken")')
    BY <2>1, <2>2
  <2> QED
    BY <2>3, ConnCard DEF Conns!NoLostWakeup
<1> QED
  BY <1>4, <1>5, <1>6, <1>8 DEF Conns!IInv

LEMMA ConnRelease ==
    ASSUME Conns!IInv, NEW t \in Threads, Conns!Release(t)
    PROVE  Conns!IInv'
<1> DEFINE c == held[t]
           freed == [connThread EXCEPT ![t] = "idle"]
<1>0. /\ pool \in Seq(Nat) /\ available \in Nat /\ made \in Nat
      /\ connThread \in [Threads -> {"idle", "asleep", "woken", "holds"}]
      /\ held \in [Threads -> Nat]
  BY DEF Conns!IInv, Conns!TypeOK
<1>1. /\ connThread[t] = "holds" /\ available' = available + 1
      /\ held' = [held EXCEPT ![t] = 0] /\ UNCHANGED <<made, discarded, over, under>>
      /\ passed' \subseteq passed /\ \A u \in passed : connThread'[u] = "asleep" => u \in passed'
      /\ c \in Nat /\ c # 0 /\ t \in Conns!Holders
  BY <1>0 DEF Conns!Release, Conns!IInv, Conns!Hands, Conns!Holders, Conns!Empty
<1>2. PICK k \in Nat :
         /\ pool' \in Seq(Nat) /\ DOMAIN pool' = DOMAIN pool \cup {k} /\ pool' # <<>>
         /\ pool'[k] = c /\ (k \in DOMAIN pool => pool[k] = 0)
         /\ \A i \in DOMAIN pool : i # k => pool'[i] = pool[i]
  <2>1. CASE \A i \in DOMAIN pool : pool[i] # Conns!Empty
    <3>1. pool' = Append(pool, c)
      BY <2>1 DEF Conns!Release
    <3> HIDE DEF c
    <3>2. /\ pool' \in Seq(Nat) /\ Len(pool') = Len(pool) + 1 /\ pool'[Len(pool) + 1] = c
          /\ \A i \in 1 .. Len(pool) : pool'[i] = pool[i]
      BY <1>0, <1>1, <3>1
    <3>3. Len(pool) \in Nat /\ DOMAIN pool = 1 .. Len(pool) /\ DOMAIN pool' = 1 .. Len(pool')
      BY <1>0, <3>2
    <3>4. DOMAIN pool' = DOMAIN pool \cup {Len(pool) + 1} /\ Len(pool) + 1 \notin DOMAIN pool /\ pool' # <<>>
      BY <3>2, <3>3
    <3>5. Len(pool) + 1 \in Nat
      BY <3>3
    <3> QED
      BY <3>2, <3>3, <3>4, <3>5
  <2>2. CASE \E i \in DOMAIN pool : pool[i] = Conns!Empty
    <3> DEFINE f == Conns!First(FALSE)
    <3>1. pool' = [pool EXCEPT ![f] = c]
      BY <2>2 DEF Conns!Release
    <3>2. f \in DOMAIN pool /\ (pool[f] # Conns!Empty) = FALSE
      BY <2>2, ConnFirst DEF Conns!IInv
    <3> HIDE DEF c, f
    <3>3. f \in Nat /\ f \in DOMAIN pool /\ pool[f] = 0
      BY <1>0, <3>2 DEF Conns!Empty
    <3>4. /\ pool' \in Seq(Nat) /\ DOMAIN pool' = DOMAIN pool /\ pool'[f] = c
          /\ \A i \in DOMAIN pool : i # f => pool'[i] = pool[i]
      BY <1>0, <1>1, <3>1, <3>3
    <3>5. DOMAIN pool' = DOMAIN pool \cup {f}
      BY <3>3, <3>4
    <3>6. pool' # <<>>
      <4>1. DOMAIN pool' # {}
        BY <3>5
      <4> QED
        BY <4>1
    <3> QED
      BY <3>3, <3>4, <3>5, <3>6
  <2> QED
    BY <2>1, <2>2
<1>3. Conns!Free' = Conns!Free \cup {k} /\ k \notin Conns!Free
  BY <1>1, <1>2 DEF Conns!Free, Conns!Empty
<1>4. Conns!Holders' = Conns!Holders \ {t}
  BY <1>0, <1>1 DEF Conns!Holders, Conns!Empty
<1>5. /\ Cardinality(Conns!Free') = Cardinality(Conns!Free) + 1
      /\ Cardinality(Conns!Holders') = Cardinality(Conns!Holders) - 1
      /\ Cardinality(Conns!Free) \in Nat /\ Cardinality(Conns!Holders) \in Nat
  BY <1>1, <1>3, <1>4, ConnFinite, FS_AddElement, FS_RemoveElement DEF Conns!IInv
<1>7. freed \in [Threads -> {"idle", "asleep", "woken", "holds"}] /\ freed[t] = "idle"
      /\ \A u \in Threads : u # t => freed[u] = connThread[u]
  BY <1>0
<1>8. \/ connThread' = freed /\ \A u \in Threads : freed[u] # "asleep"
      \/ \E u \in Threads : freed[u] = "asleep" /\ connThread' = [freed EXCEPT ![u] = "woken"]
  BY DEF Conns!Release, Conns!NotifyOne
<1> HIDE DEF freed, c
<1>9. connThread' \in [Threads -> {"idle", "asleep", "woken", "holds"}]
      /\ \A u \in Threads : connThread'[u] = "holds" <=> freed[u] = "holds"
  BY <1>7, <1>8
<1>10. Conns!TypeOK'
  <2>1. over' \in BOOLEAN /\ under' \in BOOLEAN
    BY <1>1 DEF Conns!IInv, Conns!TypeOK
  <2>2. available' \in Nat /\ held' \in [Threads -> Nat]
    BY <1>0, <1>1
  <2> QED
    BY <1>1, <1>2, <1>9, <2>1, <2>2 DEF Conns!IInv, Conns!TypeOK
<1>11. Conns!Hands'
  BY <1>0, <1>1, <1>7, <1>9 DEF Conns!IInv, Conns!Hands, Conns!Empty
<1>12. Conns!Apart'
  <2>1. \A i \in Conns!Free' : i # k => i \in Conns!Free /\ pool'[i] = pool[i]
    BY <1>2, <1>3 DEF Conns!Free
  <2>2. \A u \in Conns!Holders' : u # t /\ u \in Conns!Holders /\ held'[u] = held[u]
    BY <1>0, <1>1, <1>4 DEF Conns!Holders
  <2>3. /\ \A i, j \in Conns!Free : pool[i] = pool[j] => i = j
        /\ \A a, u \in Conns!Holders : held[a] = held[u] => a = u
        /\ \A i \in Conns!Free, a \in Conns!Holders : pool[i] # held[a]
        /\ \A i \in Conns!Free : pool[i] <= made
        /\ \A a \in Conns!Holders : held[a] <= made
    BY DEF Conns!IInv, Conns!Apart
  <2>4. pool'[k] = held[t] /\ held[t] <= made /\ t \in Conns!Holders /\ made' = made
    BY <1>1, <1>2, <2>3 DEF c
  <2> QED
    BY <2>1, <2>2, <2>3, <2>4 DEF Conns!Apart
<1>13. Conns!Books'
  <2>1. /\ ~over => available <= Cardinality(Conns!Free)
        /\ ~under => available >= Cardinality(Conns!Free)
        /\ Cardinality(Conns!Free) + Cardinality(Conns!Holders) + discarded = made
        /\ discarded \in Nat
    BY ConnCard DEF Conns!IInv, Conns!Books, Conns!CountIsFree, Conns!TypeOK
  <2>2. /\ ~over' => available' <= Cardinality(Conns!Free')
        /\ ~under' => available' >= Cardinality(Conns!Free')
    BY <1>0, <1>1, <1>5, <2>1
  <2>3. Cardinality(Conns!Free') + Cardinality(Conns!Holders') + discarded' = made'
    BY <1>0, <1>1, <1>5, <2>1
  <2> QED
    BY <2>2, <2>3, ConnCard DEF Conns!Books, Conns!CountIsFree
<1>14. Conns!NoLostWakeup'
  <2> SUFFICES ASSUME ~over', Conns!AtState("asleep")' \ passed' # {}
               PROVE  available' <= Cardinality(Conns!AtState("woken")')
    BY ConnCard DEF Conns!NoLostWakeup
  <2>1. PICK u \in Threads : freed[u] = "asleep" /\ connThread' = [freed EXCEPT ![u] = "woken"]
    BY <1>8 DEF Conns!AtState
  <2>2. u # t /\ connThread[u] = "asleep"
    BY <1>7, <2>1
  <2>3. available <= Cardinality(Conns!AtState("woken"))
    <3>1. PICK v \in Threads : connThread'[v] = "asleep" /\ v \notin passed'
      BY DEF Conns!AtState
    <3>2. connThread[v] = "asleep" /\ v \notin passed
      BY <1>1, <1>7, <2>1, <3>1
    <3>3. Conns!AtState("asleep") \ passed # {}
      BY <3>2 DEF Conns!AtState
    <3> QED
      BY <1>1, <3>3, ConnCard DEF Conns!IInv, Conns!NoLostWakeup
  <2>4. Conns!AtState("woken")' = Conns!AtState("woken") \cup {u} /\ u \notin Conns!AtState("woken")
    <3>1. \A v \in Threads : connThread'[v] = "woken" <=> (v = u \/ connThread[v] = "woken")
      BY <1>1, <1>7, <2>1
    <3> QED
      BY <2>2, <3>1 DEF Conns!AtState
  <2>5. Cardinality(Conns!AtState("woken")') = Cardinality(Conns!AtState("woken")) + 1
    BY <2>4, ConnFinite, FS_AddElement DEF Conns!IInv
  <2>6. Cardinality(Conns!AtState("woken")) \in Nat
    BY ConnFinite DEF Conns!IInv
  <2> QED
    BY <1>0, <1>1, <2>3, <2>5, <2>6
<1> QED
  BY <1>10, <1>11, <1>12, <1>13, <1>14 DEF Conns!IInv

LEMMA ConnUnchanged == Conns!IInv /\ UNCHANGED Conns!vars => Conns!IInv'
<1> SUFFICES ASSUME Conns!IInv, UNCHANGED Conns!vars PROVE Conns!IInv'
  OBVIOUS
<1>1. /\ pool' = pool /\ available' = available /\ connThread' = connThread
      /\ held' = held /\ made' = made /\ discarded' = discarded
      /\ over' = over /\ under' = under /\ passed' = passed
  BY DEF Conns!vars
<1>2. Conns!Free' = Conns!Free /\ Conns!Holders' = Conns!Holders /\ \A s : Conns!AtState(s)' = Conns!AtState(s)
  BY <1>1 DEF Conns!Free, Conns!Holders, Conns!AtState
<1>3. Conns!TypeOK' /\ Conns!Hands'
  BY <1>1 DEF Conns!IInv, Conns!TypeOK, Conns!Hands
<1>4. Conns!Apart' /\ Conns!Books'
  BY <1>1, <1>2 DEF Conns!IInv, Conns!Apart, Conns!Books, Conns!CountIsFree
<1>5. Conns!NoLostWakeup'
  BY <1>1, <1>2, Zenon DEF Conns!IInv, Conns!NoLostWakeup
<1> QED
  BY <1>3, <1>4, <1>5 DEF Conns!IInv

\* What the books and the places give of the counts.
LEMMA ConnSound == Conns!IInv => PoolSound
<1> SUFFICES ASSUME Conns!IInv PROVE PoolSound
  OBVIOUS
<1> DEFINE F == Conns!Free
           H == Conns!Holders
           PF == {pool[i] : i \in F}
           HH == {held[t] : t \in H}
<1>0. IsFiniteSet(F) /\ IsFiniteSet(H)
  BY ConnFinite DEF Conns!IInv
<1>1. IsFiniteSet(PF) /\ Cardinality(PF) = Cardinality(F)
  <2>1. [i \in F |-> pool[i]] \in Bijection(F, PF)
    BY DEF Conns!IInv, Conns!Apart, Bijection, Injection, Surjection, IsInjective
  <2>2. ExistsBijection(F, PF)
    BY <2>1 DEF ExistsBijection
  <2> QED
    BY <1>0, <2>2, FS_Bijection
<1>2. IsFiniteSet(HH) /\ Cardinality(HH) = Cardinality(H)
  <2>1. [t \in H |-> held[t]] \in Bijection(H, HH)
    BY DEF Conns!IInv, Conns!Apart, Bijection, Injection, Surjection, IsInjective
  <2>2. ExistsBijection(H, HH)
    BY <2>1 DEF ExistsBijection
  <2> QED
    BY <1>0, <2>2, FS_Bijection
<1>3. PF \cap HH = {}
  BY DEF Conns!IInv, Conns!Apart
<1> HIDE DEF F, H, PF, HH
<1>4. Cardinality(PF \cup HH) = Cardinality(F) + Cardinality(H)
  <2>1. Cardinality(PF \cup HH) = Cardinality(PF) + Cardinality(HH) - 0
    BY <1>1, <1>2, <1>3, FS_Union, FS_EmptySet
  <2>2. Cardinality(F) \in Nat /\ Cardinality(H) \in Nat
    BY <1>0, FS_CardinalityType
  <2> QED
    BY <1>1, <1>2, <2>1, <2>2
<1>5. Conns!EachInOnePlace
  BY <1>4, ConnCard, Zenon DEF Conns!IInv, Conns!Books, Conns!EachInOnePlace, F, H, PF, HH
<1> QED
  BY <1>5 DEF Conns!IInv, Conns!Books, PoolSound, Conns!PoolSound

(* ConnectionPool hands no connection to two threads and loses none but    *)
(* those a stop destroys, keeps count of them but after a start over       *)
(* handed out connections or one that failed, and loses no wake-up of its  *)
(* own, through every sequence of starts and stops and however many        *)
(* threads and connections there are.                                      *)
THEOREM PoolKeepsCount == Conns!Spec => []PoolSound
<1>1. Conns!IInv /\ [Conns!Next]_(Conns!vars) => Conns!IInv'
  <2> SUFFICES ASSUME Conns!IInv, [Conns!Next]_(Conns!vars) PROVE Conns!IInv'
    OBVIOUS
  <2>1. ASSUME NEW t \in Threads, Conns!Acquire(t) PROVE Conns!IInv'
    BY <2>1, ConnTake, ConnComesBack
  <2> QED
    BY <2>1, ConnStart, ConnStop, ConnWait, ConnRelease, ConnUnchanged DEF Conns!Next
<1> QED
  BY <1>1, ConnInit, ConnSound, PTL DEF Conns!Spec

-----------------------------------------------------------------------------

(* WorkerPool.                                                             *)

LEMMA PoolInit == Pool!Init => Pool!IInv
<1> SUFFICES ASSUME Pool!Init PROVE Pool!IInv
  OBVIOUS
<1>0. 0 \in Pool!Queues
  BY WorkersAssumption DEF Pool!Queues
<1>1. Pool!TypeOK
  BY <1>0 DEF Pool!Init, Pool!TypeOK, Pool!Sub, Pool!Gone
<1>2. Pool!Hands
  BY DEF Pool!Init, Pool!Hands, Pool!Sub
<1>3. \A q \in Pool!Queues : queues[q] = <<>> /\ Len(queues[q]) <= TaskCap
  BY WorkersAssumption DEF Pool!Init
<1>4. \A t \in Tasks : Pool!OnePlace(t)
  <2> TAKE t \in Tasks
  <2>1. runs[t] = 0 /\ t \notin met /\ t \notin {Pool!Gone}
    BY WorkersAssumption DEF Pool!Init
  <2>2. \A s \in Submitters : ~Pool!InSub(s, t)
    BY DEF Pool!Init, Pool!Sub, Pool!InSub
  <2>3. \A q \in Pool!Queues, i \in Nat : ~Pool!InQueue(q, i, t)
    BY <1>3 DEF Pool!InQueue
  <2>4. \A w \in Pool!Queues : ~Pool!InWorker(w, t)
    BY <2>1 DEF Pool!Init, Pool!InWorker
  <2> QED
    BY <2>1, <2>2, <2>3, <2>4 DEF Pool!OnePlace
<1>5. \A t \in Tasks : Pool!Kept(t)
  BY DEF Pool!Init, Pool!Kept
<1> QED
  BY <1>1, <1>2, <1>3, <1>4, <1>5 DEF Pool!IInv

LEMMA PoolChoose ==
    ASSUME Pool!IInv, NEW s \in Submitters, NEW d \in Tasks, NEW q \in Pool!Queues, NEW b \in BOOLEAN,
           Pool!Choose(s, d, q, b)
    PROVE  Pool!IInv'
<1>1. Pool!TypeOK'
  BY DEF Pool!IInv, Pool!TypeOK, Pool!Choose
<1>2. d \in fresh /\ d \notin met /\ d # Pool!Gone
  BY WorkersAssumption DEF Pool!Choose, Pool!IInv, Pool!OnePlace
<1>3. Pool!Hands'
  BY <1>2 DEF Pool!IInv, Pool!TypeOK, Pool!Choose, Pool!Hands
<1>4. /\ \A t \in Tasks, u \in Submitters : Pool!InSub(u, t)' <=> IF u = s THEN t = d ELSE Pool!InSub(u, t)
      /\ \A t \in Tasks, r \in Pool!Queues, i \in Nat : Pool!InQueue(r, i, t)' <=> Pool!InQueue(r, i, t)
      /\ \A t \in Tasks, w \in Pool!Queues : Pool!InWorker(w, t)' <=> Pool!InWorker(w, t)
  BY DEF Pool!IInv, Pool!TypeOK, Pool!Choose, Pool!InSub, Pool!InQueue, Pool!InWorker
<1>5. fresh' = fresh \ {d} /\ UNCHANGED <<queues, runs, met, poolAccepted>>
  BY DEF Pool!Choose
<1>6. ASSUME NEW t \in Tasks PROVE Pool!OnePlace(t)'
  <2>1. Pool!OnePlace(t)
    BY DEF Pool!IInv
  <2> QED
    BY <1>2, <1>4, <1>5, <2>1 DEF Pool!OnePlace
<1>7. ASSUME NEW t \in Tasks PROVE Pool!Kept(t)'
  BY <1>4, <1>5 DEF Pool!Kept, Pool!IInv
<1> QED
  BY <1>1, <1>3, <1>5, <1>6, <1>7 DEF Pool!IInv

\* What the submitter s, in the middle of a submit, has.
LEMMA PoolSubmitter ==
    ASSUME Pool!IInv, NEW s \in Submitters, sub[s].pc # "idle"
    PROVE  /\ sub[s].name \in Tasks /\ Pool!InSub(s, sub[s].name) /\ sub[s].name \notin fresh
           /\ sub[s].at \in Pool!Queues /\ sub[s].task \in Tasks \cup {Pool!Gone}
           /\ sub[s].task \in Tasks => sub[s].task = sub[s].name /\ sub[s].name \notin met
           /\ sub[s].task \notin Tasks => sub[s].name \in met
<1>1. sub[s].at \in Pool!Queues /\ sub[s].task \in Tasks \cup {Pool!Gone}
  BY DEF Pool!IInv, Pool!TypeOK
<1>2. /\ sub[s].name \in Tasks
      /\ sub[s].task = IF sub[s].name \in met THEN Pool!Gone ELSE sub[s].name
  BY DEF Pool!IInv, Pool!Hands
<1>3. Pool!InSub(s, sub[s].name)
  BY DEF Pool!InSub
<1>4. sub[s].name \notin fresh
  BY <1>2, <1>3 DEF Pool!IInv, Pool!OnePlace
<1> QED
  BY <1>1, <1>2, <1>3, <1>4, WorkersAssumption

LEMMA PoolPush ==
    ASSUME Pool!IInv, NEW s \in Submitters, NEW q \in Pool!Queues,
           sub[s].pc # "idle", Pool!Push(s, q)
    PROVE  Pool!IInv'
<1> DEFINE n == Len(queues[q])
           d == sub[s].task
           name == sub[s].name
<1>0. /\ queues \in [Pool!Queues -> Seq(Tasks \cup {Pool!Gone})]
      /\ queues[q] \in Seq(Tasks \cup {Pool!Gone}) /\ n \in Nat
      /\ Pool!Sub.pc = "idle" /\ Pool!Sub.task = Pool!Gone
      /\ Pool!Gone \notin Tasks
  BY WorkersAssumption DEF Pool!IInv, Pool!TypeOK, Pool!Sub
<1>1. /\ name \in Tasks /\ Pool!InSub(s, name) /\ name \notin fresh
      /\ d \in Tasks \cup {Pool!Gone} /\ (d \in Tasks => d = name /\ name \notin met)
      /\ (d \notin Tasks => name \in met)
  BY PoolSubmitter
<1>2. /\ queues' = [queues EXCEPT ![q] = Append(queues[q], d)] /\ n < TaskCap
      /\ sub' = [sub EXCEPT ![s] = Pool!Sub] /\ poolAccepted' = poolAccepted \cup {name}
      /\ UNCHANGED <<worker, fresh, met, runs>>
  BY DEF Pool!Push, Pool!Room
<1>3. /\ Append(queues[q], d) \in Seq(Tasks \cup {Pool!Gone}) /\ Len(Append(queues[q], d)) = n + 1
      /\ \A i \in 1 .. n : Append(queues[q], d)[i] = queues[q][i]
      /\ Append(queues[q], d)[n + 1] = d
  BY <1>0, <1>1, AppendProperties
<1>4. /\ queues' \in [Pool!Queues -> Seq(Tasks \cup {Pool!Gone})]
      /\ Len(queues'[q]) = n + 1 /\ queues'[q][n + 1] = d
      /\ \A i \in 1 .. n : queues'[q][i] = queues[q][i]
      /\ \A r \in Pool!Queues : r # q => queues'[r] = queues[r]
  BY <1>0, <1>2, <1>3
<1>5. Pool!TypeOK'
  <2>1. 0 \in Pool!Queues
    BY WorkersAssumption DEF Pool!Queues
  <2>2. sub' \in [Submitters -> [pc : {"idle", "best", "each", "block"},
             task : Tasks \cup {Pool!Gone}, at : Pool!Queues, blocking : BOOLEAN,
             name : Tasks \cup {Pool!Gone}]]
    BY <1>2, <2>1 DEF Pool!IInv, Pool!TypeOK, Pool!Sub
  <2> QED
    BY <1>1, <1>2, <1>4, <2>2 DEF Pool!IInv, Pool!TypeOK
<1>6. Pool!Hands'
  BY <1>0, <1>2 DEF Pool!IInv, Pool!TypeOK, Pool!Hands
<1>7. \A r \in Pool!Queues : Len(queues'[r]) <= TaskCap
  BY <1>0, <1>2, <1>4, WorkersAssumption DEF Pool!IInv
<1>8. \A t \in Tasks, u \in Submitters : Pool!InSub(u, t)' <=> u # s /\ Pool!InSub(u, t)
  BY <1>0, <1>2 DEF Pool!IInv, Pool!TypeOK, Pool!InSub
<1> HIDE DEF n, d, name
<1>9. \A t \in Tasks, r \in Pool!Queues, i \in Nat : Pool!InQueue(r, i, t)' <=>
          Pool!InQueue(r, i, t) \/ (r = q /\ i = n + 1 /\ t = d)
  <2> TAKE t \in Tasks, r \in Pool!Queues, i \in Nat
  <2>1. CASE r # q
    <3>1. queues'[r] = queues[r]
      BY <1>4, <2>1
    <3> QED
      BY <2>1, <3>1 DEF Pool!InQueue
  <2>2. CASE r = q
    <3>1. i \in 1 .. n + 1 <=> i \in 1 .. n \/ i = n + 1
      BY <1>0
    <3>2. Pool!InQueue(q, i, t)' <=> i \in 1 .. n + 1 /\ queues'[q][i] = t
      BY <1>4 DEF Pool!InQueue
    <3>3. Pool!InQueue(q, i, t) <=> i \in 1 .. n /\ queues[q][i] = t
      BY DEF Pool!InQueue, n
    <3> QED
      BY <1>4, <2>2, <3>1, <3>2, <3>3
  <2> QED
    BY <2>1, <2>2
<1>10. \A t \in Tasks : ~Pool!InQueue(q, n + 1, t)
  BY <1>0 DEF Pool!InQueue, n
<1>11. \A t \in Tasks, w \in Pool!Queues : Pool!InWorker(w, t)' <=> Pool!InWorker(w, t)
  BY <1>2 DEF Pool!InWorker
<1>12. ASSUME NEW t \in Tasks PROVE Pool!OnePlace(t)'
  <2>1. Pool!OnePlace(t)
    BY DEF Pool!IInv
  <2>2. CASE t = d
    <3>1. Pool!InSub(s, t)
      BY <1>1, <2>2
    <3>2. \A r \in Pool!Queues, i \in Nat : Pool!InQueue(r, i, t)' <=> (r = q /\ i = n + 1)
      BY <1>9, <2>1, <2>2, <3>1 DEF Pool!OnePlace
    <3>3. \A u \in Submitters : ~Pool!InSub(u, t)'
      BY <1>8, <2>1, <3>1 DEF Pool!OnePlace
    <3>4. \A w \in Pool!Queues : ~Pool!InWorker(w, t)'
      BY <1>11, <2>1, <3>1 DEF Pool!OnePlace
    <3>5. t \notin fresh' /\ runs'[t] = 0
      BY <1>2, <2>1, <3>1 DEF Pool!OnePlace
    <3> QED
      BY <3>2, <3>3, <3>4, <3>5 DEF Pool!OnePlace
  <2>3. CASE t # d
    BY <1>2, <1>8, <1>9, <1>11, <2>1, <2>3 DEF Pool!OnePlace
  <2> QED
    BY <2>2, <2>3
<1>13. ASSUME NEW t \in Tasks PROVE Pool!Kept(t)'
  <2>1. CASE t = name
    <3>1. CASE t \in met
      BY <1>2, <3>1 DEF Pool!Kept
    <3>2. CASE t \notin met
      <4>1. t = d
        BY <1>1, <2>1, <3>2
      <4>2. \E i \in Nat : i = n + 1
        BY <1>0
      <4>3. \E i \in Nat : Pool!InQueue(q, i, t)'
        BY <1>9, <4>1, <4>2
      <4> QED
        BY <4>3 DEF Pool!Kept
    <3> QED
      BY <3>1, <3>2
  <2>2. CASE t # name
    BY <1>2, <1>9, <1>11, <2>2 DEF Pool!Kept, Pool!IInv
  <2> QED
    BY <2>1, <2>2
<1> QED
  BY <1>5, <1>6, <1>7, <1>12, <1>13 DEF Pool!IInv

LEMMA PoolRefused ==
    ASSUME Pool!IInv, NEW s \in Submitters, NEW q \in Pool!Queues,
           NEW next \in [pc : {"idle", "best", "each", "block"}, task : Tasks \cup {Pool!Gone},
               at : Pool!Queues, blocking : BOOLEAN, name : Tasks \cup {Pool!Gone}],
           sub[s].pc # "idle", next.pc # "idle" => next.name = sub[s].name,
           Pool!Refused(s, q, next)
    PROVE  Pool!IInv'
<1> DEFINE name == sub[s].name
<1>1. name \in Tasks /\ Pool!InSub(s, name) /\ name \notin fresh /\ Pool!Gone \notin Tasks
  BY PoolSubmitter, WorkersAssumption
<1>2. /\ sub' = [sub EXCEPT ![s] = [next EXCEPT !.task = Pool!Gone]] /\ met' = met \cup {name}
      /\ UNCHANGED <<queues, worker, fresh, poolAccepted, runs>>
  BY DEF Pool!Refused
<1>3. Pool!TypeOK'
  <2> DEFINE Rec == [pc : {"idle", "best", "each", "block"}, task : Tasks \cup {Pool!Gone},
               at : Pool!Queues, blocking : BOOLEAN, name : Tasks \cup {Pool!Gone}]
  <2>1. [next EXCEPT !.task = Pool!Gone] \in Rec
    OBVIOUS
  <2>2. sub \in [Submitters -> Rec]
    BY DEF Pool!IInv, Pool!TypeOK
  <2> HIDE DEF Rec
  <2>3. sub' \in [Submitters -> Rec]
    BY <1>2, <2>1, <2>2
  <2> QED
    BY <1>1, <1>2, <2>3 DEF Pool!IInv, Pool!TypeOK, Rec
<1>4. \A u \in Submitters : u # s /\ sub[u].pc # "idle" => sub[u].name # name
  <2>1. \A u \in Submitters : Pool!InSub(u, name) => u = s
    BY <1>1 DEF Pool!IInv, Pool!OnePlace
  <2> QED
    BY <2>1 DEF Pool!InSub
<1>5. sub'[s].pc = next.pc /\ sub'[s].task = Pool!Gone /\ sub'[s].name = next.name
  BY <1>2 DEF Pool!IInv, Pool!TypeOK
<1>6. \A u \in Submitters : u # s => sub'[u] = sub[u]
  BY <1>2 DEF Pool!IInv, Pool!TypeOK
<1>7. Pool!Hands'
  BY <1>1, <1>2, <1>4, <1>5, <1>6 DEF Pool!IInv, Pool!Hands
<1>8. /\ \A t \in Tasks, u \in Submitters : Pool!InSub(u, t)' => Pool!InSub(u, t)
      /\ \A t \in Tasks, r \in Pool!Queues, i \in Nat : Pool!InQueue(r, i, t)' <=> Pool!InQueue(r, i, t)
      /\ \A t \in Tasks, w \in Pool!Queues : Pool!InWorker(w, t)' <=> Pool!InWorker(w, t)
  BY <1>2, <1>5, <1>6 DEF Pool!InSub, Pool!InQueue, Pool!InWorker
<1> HIDE DEF name
<1>9. ASSUME NEW t \in Tasks PROVE Pool!OnePlace(t)'
  <2>1. Pool!OnePlace(t)
    BY DEF Pool!IInv
  <2> QED
    BY <1>1, <1>2, <1>8, <2>1 DEF Pool!OnePlace
<1>10. ASSUME NEW t \in Tasks PROVE Pool!Kept(t)'
  BY <1>2, <1>8 DEF Pool!Kept, Pool!IInv
<1> QED
  BY <1>2, <1>3, <1>7, <1>9, <1>10 DEF Pool!IInv

LEMMA PoolGiveUp ==
    ASSUME Pool!IInv, NEW s \in Submitters, sub' = [sub EXCEPT ![s] = Pool!Sub],
           UNCHANGED <<queues, worker, fresh, poolAccepted, met, runs>>
    PROVE  Pool!IInv'
<1>0. 0 \in Pool!Queues
  BY WorkersAssumption DEF Pool!Queues
<1>1. Pool!TypeOK'
  BY <1>0 DEF Pool!IInv, Pool!TypeOK, Pool!Sub
<1>2. Pool!Hands'
  BY DEF Pool!IInv, Pool!TypeOK, Pool!Hands, Pool!Sub
<1>3. /\ \A t \in Tasks, u \in Submitters : Pool!InSub(u, t)' => Pool!InSub(u, t)
      /\ \A t \in Tasks, r \in Pool!Queues, i \in Nat : Pool!InQueue(r, i, t)' <=> Pool!InQueue(r, i, t)
      /\ \A t \in Tasks, w \in Pool!Queues : Pool!InWorker(w, t)' <=> Pool!InWorker(w, t)
  BY DEF Pool!IInv, Pool!TypeOK, Pool!InSub, Pool!InQueue, Pool!InWorker, Pool!Sub
<1>4. ASSUME NEW t \in Tasks PROVE Pool!OnePlace(t)' /\ Pool!Kept(t)'
  <2>1. Pool!OnePlace(t) /\ Pool!Kept(t)
    BY DEF Pool!IInv
  <2>2. Pool!OnePlace(t)'
    BY <1>3, <2>1 DEF Pool!OnePlace
  <2>3. Pool!Kept(t)'
    BY <1>3, <2>1 DEF Pool!Kept
  <2> QED
    BY <2>2, <2>3
<1> QED
  BY <1>1, <1>2, <1>4 DEF Pool!IInv

LEMMA PoolTake ==
    ASSUME Pool!IInv, NEW w \in Pool!Queues, NEW q \in Pool!Queues, Pool!Take(w, q)
    PROVE  Pool!IInv'
<1> DEFINE n == Len(queues[q])
           d == Head(queues[q])
<1>0. /\ queues \in [Pool!Queues -> Seq(Tasks \cup {Pool!Gone})]
      /\ queues[q] \in Seq(Tasks \cup {Pool!Gone}) /\ n \in Nat /\ queues[q] # <<>>
      /\ Pool!Gone \notin Tasks
  BY WorkersAssumption DEF Pool!IInv, Pool!TypeOK, Pool!Take
<1>1. /\ queues' = [queues EXCEPT ![q] = Tail(queues[q])]
      /\ worker' = [worker EXCEPT ![w] = [pc |-> "run", task |-> d]]
      /\ worker[w].pc = "loop" /\ UNCHANGED <<sub, fresh, poolAccepted, met, runs>>
  BY DEF Pool!Take, Pool!Popped
<1>2. /\ n >= 1 /\ d \in Tasks \cup {Pool!Gone} /\ d = queues[q][1]
      /\ Tail(queues[q]) \in Seq(Tasks \cup {Pool!Gone}) /\ Len(Tail(queues[q])) = n - 1
      /\ \A i \in 1 .. n - 1 : Tail(queues[q])[i] = queues[q][i + 1]
  BY <1>0, HeadTailProperties, EmptySeq
<1>3. /\ queues' \in [Pool!Queues -> Seq(Tasks \cup {Pool!Gone})]
      /\ Len(queues'[q]) = n - 1
      /\ \A i \in 1 .. n - 1 : queues'[q][i] = queues[q][i + 1]
      /\ \A r \in Pool!Queues : r # q => queues'[r] = queues[r]
  BY <1>0, <1>1, <1>2
<1>4. Pool!TypeOK'
  <2>1. worker' \in [Pool!Queues -> [pc : {"loop", "run", "ended"}, task : Tasks \cup {Pool!Gone}]]
    BY <1>1, <1>2 DEF Pool!IInv, Pool!TypeOK
  <2> QED
    BY <1>1, <1>3, <2>1 DEF Pool!IInv, Pool!TypeOK
<1>5. Pool!Hands'
  BY <1>1 DEF Pool!IInv, Pool!TypeOK, Pool!Hands
<1>6. \A r \in Pool!Queues : Len(queues'[r]) <= TaskCap
  BY <1>0, <1>3, WorkersAssumption DEF Pool!IInv
<1>7. worker[w].task = Pool!Gone
  BY <1>1 DEF Pool!IInv, Pool!Hands
<1>8. \A t \in Tasks, v \in Pool!Queues : Pool!InWorker(v, t)' <=>
          IF v = w THEN t = d ELSE Pool!InWorker(v, t)
  BY <1>1 DEF Pool!IInv, Pool!TypeOK, Pool!InWorker
<1> HIDE DEF n, d
<1>9. \A t \in Tasks, r \in Pool!Queues, i \in Nat : Pool!InQueue(r, i, t)' <=>
          IF r = q THEN i >= 1 /\ Pool!InQueue(q, i + 1, t) ELSE Pool!InQueue(r, i, t)
  <2> TAKE t \in Tasks, r \in Pool!Queues, i \in Nat
  <2>1. CASE r # q
    <3>1. queues'[r] = queues[r]
      BY <1>3, <2>1
    <3> QED
      BY <2>1, <3>1 DEF Pool!InQueue
  <2>2. CASE r = q
    <3>1. i \in 1 .. n - 1 <=> i >= 1 /\ i + 1 \in 1 .. n
      BY <1>0
    <3>2. Pool!InQueue(q, i, t)' <=> i \in 1 .. n - 1 /\ queues'[q][i] = t
      BY <1>3 DEF Pool!InQueue
    <3>3. Pool!InQueue(q, i + 1, t) <=> i + 1 \in 1 .. n /\ queues[q][i + 1] = t
      BY DEF Pool!InQueue, n
    <3> QED
      BY <1>3, <2>2, <3>1, <3>2, <3>3
  <2> QED
    BY <2>1, <2>2
<1>10. \A t \in Tasks : Pool!InQueue(q, 1, t) <=> t = d
  BY <1>0, <1>2 DEF Pool!InQueue, n
<1>11. \A t \in Tasks, u \in Submitters : Pool!InSub(u, t)' <=> Pool!InSub(u, t)
  BY <1>1 DEF Pool!InSub
<1>12. ASSUME NEW t \in Tasks PROVE Pool!OnePlace(t)'
  <2>1. Pool!OnePlace(t)
    BY DEF Pool!IInv
  <2>2. CASE t = d
    <3>1. Pool!InQueue(q, 1, t)
      BY <1>10, <2>2
    <3>2. \A r \in Pool!Queues, i \in Nat : ~Pool!InQueue(r, i, t)'
      BY <1>9, <2>1, <3>1 DEF Pool!OnePlace
    <3>3. \A u \in Submitters : ~Pool!InSub(u, t)'
      BY <1>11, <2>1, <3>1 DEF Pool!OnePlace
    <3>4. \A v \in Pool!Queues : Pool!InWorker(v, t)' <=> v = w
      BY <1>8, <2>1, <2>2, <3>1 DEF Pool!OnePlace
    <3>5. t \notin fresh' /\ runs'[t] = 0
      BY <1>1, <2>1, <3>1 DEF Pool!OnePlace
    <3> QED
      BY <3>2, <3>3, <3>4, <3>5 DEF Pool!OnePlace
  <2>3. CASE t # d
    <3>1. \A v \in Pool!Queues : Pool!InWorker(v, t)' => Pool!InWorker(v, t)
      BY <1>8, <2>3
    <3>2. \A r \in Pool!Queues, i \in Nat : Pool!InQueue(r, i, t)' =>
              Pool!InQueue(r, IF r = q THEN i + 1 ELSE i, t)
      BY <1>9
    <3>3. \A r, p \in Pool!Queues, i, j \in Nat :
              Pool!InQueue(r, i, t)' /\ Pool!InQueue(p, j, t)' => r = p /\ i = j
      <4> TAKE r \in Pool!Queues, p \in Pool!Queues, i \in Nat, j \in Nat
      <4>1. i + 1 \in Nat /\ j + 1 \in Nat /\ (i + 1 = j + 1 => i = j)
        OBVIOUS
      <4> QED
        BY <2>1, <3>2, <4>1 DEF Pool!OnePlace
    <3>4. \A r \in Pool!Queues, i \in Nat : Pool!InQueue(r, i, t)' =>
              \E j \in Nat : Pool!InQueue(r, j, t)
      BY <3>2
    <3> QED
      BY <1>1, <1>11, <2>1, <3>1, <3>3, <3>4 DEF Pool!OnePlace
  <2> QED
    BY <2>2, <2>3
<1>13. ASSUME NEW t \in Tasks PROVE Pool!Kept(t)'
  <2>0. Pool!Kept(t)
    BY DEF Pool!IInv
  <2>1. CASE t = d
    BY <1>8, <2>1 DEF Pool!Kept
  <2>2. CASE t # d
    <3>1. \A v \in Pool!Queues : Pool!InWorker(v, t) => Pool!InWorker(v, t)'
      <4>1. ~Pool!InWorker(w, t)
        BY <1>0, <1>7 DEF Pool!InWorker
      <4> QED
        BY <1>8, <4>1
    <3>2. ASSUME NEW r \in Pool!Queues, NEW i \in Nat, Pool!InQueue(r, i, t)
          PROVE  \E j \in Nat : Pool!InQueue(r, j, t)'
      <4>1. CASE r # q
        BY <1>9, <3>2, <4>1
      <4>2. CASE r = q
        <5>1. i >= 1
          BY <3>2 DEF Pool!InQueue
        <5>2. i # 1
          BY <1>10, <2>2, <3>2, <4>2
        <5>3. i - 1 \in Nat /\ i - 1 >= 1 /\ (i - 1) + 1 = i
          BY <5>1, <5>2
        <5> QED
          BY <1>9, <3>2, <4>2, <5>3
      <4> QED
        BY <4>1, <4>2
    <3> QED
      BY <1>1, <2>0, <3>1, <3>2 DEF Pool!Kept
  <2> QED
    BY <2>1, <2>2
<1> QED
  BY <1>4, <1>5, <1>6, <1>12, <1>13 DEF Pool!IInv

LEMMA PoolRunTask ==
    ASSUME Pool!IInv, NEW w \in Pool!Queues, Pool!RunTask(w)
    PROVE  Pool!IInv'
<1> DEFINE d == worker[w].task
<1>0. Pool!Gone \notin Tasks /\ runs \in [Tasks -> Nat]
  BY WorkersAssumption DEF Pool!IInv, Pool!TypeOK
<1>1. /\ worker' = [worker EXCEPT ![w] = [pc |-> "loop", task |-> Pool!Gone]]
      /\ runs' = [t \in Tasks |-> runs[t] + IF t = d THEN 1 ELSE 0]
      /\ UNCHANGED <<queues, sub, fresh, poolAccepted, met>>
  BY DEF Pool!RunTask, Pool!Called, Pool!AfterRun
<1>2. Pool!TypeOK'
  <2>1. worker' \in [Pool!Queues -> [pc : {"loop", "run", "ended"}, task : Tasks \cup {Pool!Gone}]]
    BY <1>1 DEF Pool!IInv, Pool!TypeOK
  <2>2. runs' \in [Tasks -> Nat]
    BY <1>0, <1>1
  <2> QED
    BY <1>1, <2>1, <2>2 DEF Pool!IInv, Pool!TypeOK
<1>3. Pool!Hands'
  BY <1>1 DEF Pool!IInv, Pool!TypeOK, Pool!Hands
<1>4. \A t \in Tasks, v \in Pool!Queues : Pool!InWorker(v, t)' <=> v # w /\ Pool!InWorker(v, t)
  BY <1>0, <1>1 DEF Pool!IInv, Pool!TypeOK, Pool!InWorker
<1>5. /\ \A t \in Tasks, u \in Submitters : Pool!InSub(u, t)' <=> Pool!InSub(u, t)
      /\ \A t \in Tasks, r \in Pool!Queues, i \in Nat : Pool!InQueue(r, i, t)' <=> Pool!InQueue(r, i, t)
  BY <1>1 DEF Pool!InSub, Pool!InQueue
<1>6. \A t \in Tasks : IF t = d THEN Pool!InWorker(w, t) /\ runs'[t] = runs[t] + 1
                                ELSE ~Pool!InWorker(w, t) /\ runs'[t] = runs[t]
  BY <1>0, <1>1 DEF Pool!InWorker
<1> HIDE DEF d
<1>7. ASSUME NEW t \in Tasks PROVE Pool!OnePlace(t)' /\ Pool!Kept(t)'
  <2>1. Pool!OnePlace(t) /\ Pool!Kept(t)
    BY DEF Pool!IInv
  <2>2. CASE t = d
    <3>1. Pool!InWorker(w, t) /\ t \notin fresh' /\ runs'[t] = 1
      BY <1>1, <1>6, <2>1, <2>2 DEF Pool!OnePlace
    <3>2. /\ \A u \in Submitters : ~Pool!InSub(u, t)'
          /\ \A r \in Pool!Queues, i \in Nat : ~Pool!InQueue(r, i, t)'
          /\ \A v \in Pool!Queues : ~Pool!InWorker(v, t)'
      BY <1>4, <1>5, <2>1, <3>1 DEF Pool!OnePlace
    <3>3. Pool!OnePlace(t)'
      BY <3>1, <3>2 DEF Pool!OnePlace
    <3>4. Pool!Kept(t)'
      BY <3>1 DEF Pool!Kept
    <3> QED
      BY <3>3, <3>4
  <2>3. CASE t # d
    <3>1. /\ runs'[t] = runs[t] /\ fresh' = fresh /\ met' = met /\ poolAccepted' = poolAccepted
          /\ \A v \in Pool!Queues : Pool!InWorker(v, t)' <=> Pool!InWorker(v, t)
      BY <1>1, <1>4, <1>6, <2>3
    <3>2. Pool!OnePlace(t)'
      BY <1>5, <2>1, <3>1 DEF Pool!OnePlace
    <3>3. Pool!Kept(t)'
      BY <1>5, <2>1, <3>1 DEF Pool!Kept
    <3> QED
      BY <3>2, <3>3
  <2> QED
    BY <2>2, <2>3
<1> QED
  BY <1>1, <1>2, <1>3, <1>7 DEF Pool!IInv

\* What looks at neither task nor queue: the end of a worker, and the stop.
LEMMA PoolFrame ==
    ASSUME Pool!IInv, UNCHANGED <<queues, sub, fresh, poolAccepted, met, runs>>,
           \/ worker' = worker
           \/ \E w \in Pool!Queues : Pool!WorkerEnds(w)
    PROVE  Pool!IInv'
<1>1. /\ worker' \in [Pool!Queues -> [pc : {"loop", "run", "ended"}, task : Tasks \cup {Pool!Gone}]]
      /\ \A v \in Pool!Queues : worker'[v].task = worker[v].task
      /\ \A v \in Pool!Queues : worker'[v].pc # "run" => worker[v].pc # "run"
  <2>0. worker \in [Pool!Queues -> [pc : {"loop", "run", "ended"}, task : Tasks \cup {Pool!Gone}]]
    BY DEF Pool!IInv, Pool!TypeOK
  <2>1. CASE worker' = worker
    BY <2>0, <2>1
  <2>2. ASSUME NEW w \in Pool!Queues, Pool!WorkerEnds(w)
        PROVE  <1>1!:
    <3>1. worker' = [worker EXCEPT ![w] = [worker[w] EXCEPT !.pc = "ended"]] /\ worker[w].pc = "loop"
      BY <2>2 DEF Pool!WorkerEnds
    <3>2. [worker[w] EXCEPT !.pc = "ended"] = [pc |-> "ended", task |-> worker[w].task]
      BY <2>0
    <3>3. worker' = [worker EXCEPT ![w] = [pc |-> "ended", task |-> worker[w].task]]
      BY <3>1, <3>2
    <3> QED
      BY <2>0, <3>1, <3>3
  <2> QED
    BY <2>1, <2>2
<1>2. Pool!TypeOK'
  BY <1>1 DEF Pool!IInv, Pool!TypeOK
<1>3. Pool!Hands'
  BY <1>1 DEF Pool!IInv, Pool!Hands
<1>4. /\ \A t \in Tasks, u \in Submitters : Pool!InSub(u, t)' <=> Pool!InSub(u, t)
      /\ \A t \in Tasks, r \in Pool!Queues, i \in Nat : Pool!InQueue(r, i, t)' <=> Pool!InQueue(r, i, t)
      /\ \A t \in Tasks, v \in Pool!Queues : Pool!InWorker(v, t)' <=> Pool!InWorker(v, t)
  BY <1>1 DEF Pool!InSub, Pool!InQueue, Pool!InWorker
<1>5. ASSUME NEW t \in Tasks PROVE Pool!OnePlace(t)' /\ Pool!Kept(t)'
  <2>1. Pool!OnePlace(t) /\ Pool!Kept(t)
    BY DEF Pool!IInv
  <2>2. Pool!OnePlace(t)'
    BY <1>4, <2>1 DEF Pool!OnePlace
  <2>3. Pool!Kept(t)'
    BY <1>4, <2>1 DEF Pool!Kept
  <2> QED
    BY <2>2, <2>3
<1> QED
  BY <1>2, <1>3, <1>5 DEF Pool!IInv

LEMMA PoolSubmit ==
    ASSUME Pool!IInv, NEW s \in Submitters, Pool!Submit(s)
    PROVE  Pool!IInv'
<1>0. N \in Nat /\ N >= 1 /\ 0 \in Pool!Queues /\ Pool!Gone \notin Tasks
  BY WorkersAssumption DEF Pool!Queues
<1> DEFINE Rec == [pc : {"idle", "best", "each", "block"}, task : Tasks \cup {Pool!Gone},
               at : Pool!Queues, blocking : BOOLEAN, name : Tasks \cup {Pool!Gone}]
<1>1. sub[s] \in Rec /\ Pool!Sub \in Rec /\ Pool!Sub.pc = "idle"
  BY <1>0 DEF Pool!IInv, Pool!TypeOK, Pool!Sub
<1>2. CASE \E t \in Tasks, q \in Pool!Queues, b \in BOOLEAN : Pool!Choose(s, t, q, b)
  BY <1>2, PoolChoose
<1>3. CASE Pool!TryBest(s)
  <2>1. sub[s].pc # "idle" /\ sub[s].at \in Pool!Queues
    BY <1>1, <1>3 DEF Pool!TryBest
  <2> DEFINE next == [sub[s] EXCEPT !.pc = "each", !.at = 0]
  <2>2. next \in Rec /\ next.name = sub[s].name
    BY <1>0, <1>1
  <2>3. Pool!Push(s, sub[s].at) \/ Pool!Refused(s, sub[s].at, next)
    BY <1>3 DEF Pool!TryBest
  <2> HIDE DEF next
  <2> QED
    BY <2>1, <2>2, <2>3, PoolPush, PoolRefused
<1>4. CASE Pool!TryEach(s)
  <2>1. sub[s].pc # "idle" /\ sub[s].at \in Pool!Queues
    BY <1>1, <1>4 DEF Pool!TryEach
  <2> DEFINE done == IF sub[s].blocking THEN [sub[s] EXCEPT !.pc = "block", !.at = 0] ELSE Pool!Sub
             next == IF sub[s].at = N - 1 THEN done ELSE [sub[s] EXCEPT !.at = sub[s].at + 1]
  <2>2. done \in Rec /\ (done.pc # "idle" => done.name = sub[s].name)
    BY <1>0, <1>1
  <2>3. sub[s].at # N - 1 => sub[s].at + 1 \in Pool!Queues
    BY <1>0, <2>1 DEF Pool!Queues
  <2>4. sub[s].at # N - 1 =>
            /\ [sub[s] EXCEPT !.at = sub[s].at + 1] \in Rec
            /\ [sub[s] EXCEPT !.at = sub[s].at + 1].name = sub[s].name
    BY <1>1, <2>3
  <2>5. Pool!Push(s, sub[s].at) \/ Pool!Refused(s, sub[s].at, next)
    BY <1>4 DEF Pool!TryEach
  <2> HIDE DEF done, Rec
  <2>6. next \in Rec /\ (next.pc # "idle" => next.name = sub[s].name)
    BY <2>2, <2>4
  <2> HIDE DEF next
  <2> QED
    BY <2>1, <2>5, <2>6, PoolPush, PoolRefused DEF Rec
<1>5. CASE Pool!Block(s)
  <2>1. sub[s].pc # "idle"
    BY <1>5 DEF Pool!Block
  <2> QED
    BY <1>0, <1>5, <2>1, PoolPush, PoolGiveUp DEF Pool!Block
<1> QED
  BY <1>2, <1>3, <1>4, <1>5 DEF Pool!Submit

LEMMA PoolStep == Pool!IInv /\ [Pool!Next]_(Pool!vars) => Pool!IInv'
<1> SUFFICES ASSUME Pool!IInv, [Pool!Next]_(Pool!vars) PROVE Pool!IInv'
  OBVIOUS
<1>1. CASE \E s \in Submitters : Pool!Submit(s)
  BY <1>1, PoolSubmit
<1>2. CASE \E w \in Pool!Queues : Pool!WorkerLoop(w)
  <2>1. PICK w \in Pool!Queues : Pool!WorkerLoop(w)
    BY <1>2
  <2>2. CASE Pool!WorkerEnds(w)
    <3>1. UNCHANGED <<queues, sub, fresh, poolAccepted, met, runs>>
      BY <2>2 DEF Pool!WorkerEnds
    <3> QED
      BY <2>2, <3>1, PoolFrame
  <2> QED
    BY <2>1, <2>2, PoolTake, PoolRunTask DEF Pool!WorkerLoop
<1>3. CASE Pool!Stop
  <2>1. UNCHANGED <<queues, sub, worker, fresh, poolAccepted, met, runs>>
    BY <1>3 DEF Pool!Stop, Pool!StopRunning, Pool!StopJoin, Pool!StopClose
  <2> QED
    BY <2>1, PoolFrame
<1>4. CASE UNCHANGED Pool!vars
  BY <1>4, PoolFrame DEF Pool!vars
<1> QED
  BY <1>1, <1>2, <1>3, <1>4 DEF Pool!Next

LEMMA PoolCard == \A S : Pool!Cardinality(S) = Cardinality(S)
  BY DEF Pool!Cardinality, Cardinality

(* Stealing runs no task twice, no queue exceeds its capacity, and a task  *)
(* for which submit returned true is waiting, in the hands of a worker or  *)
(* has run unless its first push was refused (WorkerPool::submit and       *)
(* workerLoop), for any number of workers, submitters and tasks.           *)
THEOREM TasksRunOnce == Pool!Spec => []RunOnceIfAccepted
<1>1. Pool!IInv => RunOnceIfAccepted
  <2> SUFFICES ASSUME Pool!IInv PROVE RunOnceIfAccepted
    OBVIOUS
  <2>1. ASSUME NEW t \in Tasks
        PROVE  runs[t] + Pool!Cardinality({w \in Pool!Queues : worker[w].task = t}) <= 1
    <3> DEFINE S == {w \in Pool!Queues : worker[w].task = t}
    <3>0. runs[t] \in Nat /\ runs[t] <= 1 /\ Pool!OnePlace(t)
      BY DEF Pool!IInv, Pool!TypeOK, Pool!OnePlace
    <3>1. CASE S = {}
      BY <3>0, <3>1, FS_EmptySet, PoolCard
    <3>2. CASE S # {}
      <4>1. PICK w \in S : TRUE
        BY <3>2
      <4>2. \A v \in S : v = w
        BY <3>0, <4>1 DEF Pool!OnePlace, Pool!InWorker
      <4>3. S = {w}
        BY <4>1, <4>2
      <4>4. runs[t] = 0
        BY <3>0, <4>1 DEF Pool!OnePlace, Pool!InWorker
      <4> QED
        <5>1. Cardinality({w}) = 1
          BY FS_Singleton
        <5> HIDE DEF S
        <5>2. Pool!Cardinality(S) = 1
          BY <4>3, <5>1, PoolCard
        <5> QED
          BY <4>4, <5>2 DEF S
    <3> QED
      BY <3>1, <3>2
  <2>2. Pool!RunOnce
    BY <2>1 DEF Pool!RunOnce, Pool!IInv
  <2>3. ASSUME NEW t \in poolAccepted \ met
        PROVE  t \in Pool!Waiting \cup Pool!InHand \/ runs[t] = 1
    <3>1. t \in Tasks /\ Pool!Kept(t)
      BY DEF Pool!IInv, Pool!TypeOK
    <3>2. ASSUME NEW q \in Pool!Queues, NEW i \in Nat, Pool!InQueue(q, i, t) PROVE t \in Pool!Waiting
      <4>1. queues[q] \in Seq(Tasks \cup {Pool!Gone}) /\ i \in 1 .. Len(queues[q]) /\ queues[q][i] = t
        BY <3>2 DEF Pool!InQueue, Pool!IInv, Pool!TypeOK
      <4>2. t \in Pool!ToSet(queues[q])
        BY <4>1 DEF Pool!ToSet
      <4> QED
        BY <4>2 DEF Pool!Waiting
    <3>3. ASSUME NEW w \in Pool!Queues, Pool!InWorker(w, t) PROVE t \in Pool!InHand
      BY <3>3 DEF Pool!InWorker, Pool!InHand
    <3> QED
      BY <3>1, <3>2, <3>3 DEF Pool!Kept
  <2>4. Pool!LostOnlyIfRefused
    BY <2>3 DEF Pool!LostOnlyIfRefused
  <2> QED
    BY <2>2, <2>4 DEF RunOnceIfAccepted, Pool!RunOnceIfAccepted
<1> QED
  BY <1>1, PoolInit, PoolStep, PTL DEF Pool!Spec

-----------------------------------------------------------------------------

(* BatchWriter.                                                            *)

LEMMA HeadAndTail ==
    ASSUME NEW S, NEW t \in Seq(S), t # <<>>
    PROVE  /\ Head(t) \in S /\ Tail(t) \in Seq(S) /\ <<Head(t)>> \o Tail(t) = t
           /\ DOMAIN t = 1 .. Len(t) /\ 1 \in DOMAIN t /\ Head(t) = t[1]
           /\ \A i \in DOMAIN Tail(t) : i + 1 \in DOMAIN t /\ Tail(t)[i] = t[i + 1]
           /\ \A i \in DOMAIN t : i # 1 => i - 1 \in DOMAIN Tail(t) /\ Tail(t)[i - 1] = t[i]
<1> DEFINE n == Len(t)
<1>1. n \in Nat /\ n > 0 /\ DOMAIN t = 1 .. n
  BY EmptySeq
<1>2. /\ Head(t) \in S /\ Tail(t) \in Seq(S) /\ Len(Tail(t)) = n - 1 /\ Head(t) = t[1]
      /\ DOMAIN Tail(t) = 1 .. n - 1
  <2>1. Head(t) \in S /\ Tail(t) \in Seq(S) /\ Len(Tail(t)) = n - 1
    BY HeadTailProperties
  <2>2. DOMAIN Tail(t) = 1 .. n - 1
    BY <2>1, LenProperties
  <2> QED
    BY <2>1, <2>2
<1>3. \A i \in 1 .. n - 1 : Tail(t)[i] = t[i + 1]
  BY <1>1
<1>4. <<Head(t)>> \o Tail(t) = t
  <2> DEFINE u == <<Head(t)>> \o Tail(t)
  <2>1. <<Head(t)>> \in Seq(S) /\ Len(<<Head(t)>>) = 1 /\ <<Head(t)>>[1] = Head(t)
    BY <1>2
  <2>2. /\ u \in Seq(S) /\ Len(u) = 1 + (n - 1)
        /\ \A i \in 1 .. 1 + (n - 1) : u[i] = IF i <= 1 THEN <<Head(t)>>[i] ELSE Tail(t)[i - 1]
    BY <1>2, <2>1, ConcatProperties
  <2> HIDE DEF u, n
  <2>3. \A i \in 1 .. n : u[i] = t[i]
    BY <1>1, <1>2, <1>3, <2>1, <2>2
  <2>4. Len(u) = n
    BY <1>1, <2>2
  <2>5. u = t
    BY <2>2, <2>3, <2>4, SeqEqual DEF n
  <2> QED
    BY <2>5 DEF u
<1> HIDE DEF n
<1>5. \A i \in 1 .. n - 1 : i + 1 \in 1 .. n
  BY <1>1
<1>6. \A i \in 1 .. n : i # 1 => i - 1 \in 1 .. n - 1 /\ (i - 1) + 1 = i
  BY <1>1
<1>7. \A i \in 1 .. n : i # 1 => Tail(t)[i - 1] = t[i]
  BY <1>3, <1>6
<1>8. 1 \in 1 .. n
  BY <1>1
<1> QED
  BY <1>1, <1>2, <1>3, <1>4, <1>5, <1>6, <1>7, <1>8 DEF n

LEMMA AppendIsJoin ==
    ASSUME NEW S, NEW s \in Seq(S), NEW x \in S
    PROVE  /\ Append(s, x) = s \o <<x>> /\ Append(s, x) \in Seq(S)
           /\ DOMAIN s = 1 .. Len(s) /\ Len(s) \in Nat
           /\ DOMAIN Append(s, x) = 1 .. Len(s) + 1
           /\ Append(s, x)[Len(s) + 1] = x
           /\ \A i \in 1 .. Len(s) : Append(s, x)[i] = s[i]
  OBVIOUS

LEMMA MovedAlong ==
    \A s, t, u \in Seq(Items) : t # <<>> => Append(s, Head(t)) \o (Tail(t) \o u) = s \o (t \o u)
<1> TAKE s, t, u \in Seq(Items)
<1> HAVE t # <<>>
<1> DEFINE h == <<Head(t)>>
<1>1. h \in Seq(Items) /\ Tail(t) \in Seq(Items) /\ h \o Tail(t) = t /\ Append(s, Head(t)) = s \o h
  BY HeadAndTail, AppendIsJoin
<1>2. Tail(t) \o u \in Seq(Items)
  BY <1>1, ConcatProperties
<1> HIDE DEF h
<1>0. \A a, b, c \in Seq(Items) : (a \o b) \o c = a \o (b \o c)
  BY ConcatAssociative, SMTT(60)
<1>3. (s \o h) \o (Tail(t) \o u) = s \o (h \o (Tail(t) \o u))
  BY <1>0, <1>1, <1>2, Zenon
<1>4. h \o (Tail(t) \o u) = (h \o Tail(t)) \o u
  BY <1>0, <1>1, Zenon
<1> QED
  BY <1>1, <1>3, <1>4

LEMMA InContents ==
    \A f, y : y \in Batch!Contents(f) <=> \E r \in DOMAIN f : \E i \in DOMAIN f[r] : y = f[r][i]
  BY DEF Batch!Contents, Batch!ToSet

\* From f to g the item at the head of p goes to the end of q, ...
IsMove(f, g, p, q) ==
    /\ DOMAIN g = DOMAIN f /\ g[p] = Tail(f[p]) /\ g[q] = Append(f[q], Head(f[p]))
    /\ \A r \in DOMAIN f : r # p /\ r # q => g[r] = f[r]

\* ... or all of p goes to q, which was empty.
IsSwap(f, g, p, q) ==
    /\ DOMAIN g = DOMAIN f /\ g[p] = <<>> /\ g[q] = f[p] /\ f[q] = <<>>
    /\ \A r \in DOMAIN f : r # p /\ r # q => g[r] = f[r]

LEMMA DistinctMove ==
    ASSUME NEW S, NEW P, NEW f \in [P -> Seq(S)], Batch!Distinct(f),
           NEW p \in P, NEW q \in P, p # q, f[p] # <<>>,
           NEW g, IsMove(f, g, p, q)
    PROVE  Batch!Distinct(g) /\ Batch!Contents(g) = Batch!Contents(f)
<1> DEFINE a == f[p]
           b == f[q]
           k == Len(f[q]) + 1
           x == Head(f[p])
<1>1. /\ x \in S /\ DOMAIN a = 1 .. Len(a) /\ 1 \in DOMAIN a /\ x = a[1]
      /\ \A i \in DOMAIN Tail(a) : i + 1 \in DOMAIN a /\ Tail(a)[i] = a[i + 1]
      /\ \A i \in DOMAIN a : i # 1 => i - 1 \in DOMAIN Tail(a) /\ Tail(a)[i - 1] = a[i]
  BY HeadAndTail
<1>2. /\ DOMAIN b = 1 .. Len(b) /\ Len(b) \in Nat /\ k \in Nat
      /\ DOMAIN Append(b, x) = 1 .. k /\ Append(b, x)[k] = x
      /\ \A i \in 1 .. Len(b) : Append(b, x)[i] = b[i]
  BY <1>1, AppendIsJoin
<1>3. /\ DOMAIN g = P /\ DOMAIN f = P /\ g[p] = Tail(a) /\ g[q] = Append(b, x)
      /\ \A r \in P : r # p /\ r # q => g[r] = f[r]
  BY DEF IsMove
<1>4. DOMAIN Append(b, x) = DOMAIN b \cup {k} /\ k \notin DOMAIN b
  BY <1>2
<1>5. \A i \in DOMAIN Tail(a) : i \in Int
  <2>1. Tail(a) \in Seq(S)
    BY HeadAndTail
  <2> QED
    BY <2>1
<1>6. \A i \in DOMAIN a : i \in Int /\ (i # 1 => i - 1 \in Int)
  BY <1>1
<1> HIDE DEF a, b, k, x
\* Where an item of g was in f.
<1> DEFINE Was(r, i, m, c) ==
        \/ r = p /\ m = p /\ i \in Int /\ c = i + 1 /\ i + 1 # 1
        \/ r = q /\ i = k /\ m = p /\ c = 1
        \/ r # p /\ ~(r = q /\ i = k) /\ m = r /\ c = i
<1>7. \A r \in P : \A i \in DOMAIN g[r] :
          \E m \in P : \E c \in DOMAIN f[m] : g[r][i] = f[m][c] /\ Was(r, i, m, c)
  <2> TAKE r \in P
  <2> TAKE i \in DOMAIN g[r]
  <2>1. CASE r = p
    <3>1. i \in DOMAIN Tail(a) /\ g[r][i] = Tail(a)[i]
      BY <1>3, <2>1
    <3>2. i \in Int /\ i + 1 \in DOMAIN a /\ Tail(a)[i] = a[i + 1]
      BY <1>1, <1>5, <3>1
    <3>3. i + 1 # 1
      <4>1. Tail(a) \in Seq(S)
        BY HeadAndTail DEF a
      <4>2. i \in 1 .. Len(Tail(a))
        BY <3>1, <4>1
      <4> QED
        BY <4>2
    <3> QED
      BY <2>1, <3>1, <3>2, <3>3 DEF a
  <2>2. CASE r = q /\ i = k
    BY <1>1, <1>2, <1>3, <2>2 DEF a
  <2>3. CASE r = q /\ i # k
    <3>1. i \in DOMAIN b
      BY <1>3, <1>4, <2>3
    <3>2. g[r][i] = b[i]
      BY <1>2, <1>3, <2>3, <3>1
    <3> QED
      BY <2>3, <3>1, <3>2 DEF b
  <2>4. CASE r # p /\ r # q
    BY <1>3, <2>4
  <2> QED
    BY <2>1, <2>2, <2>3, <2>4
<1>8. Batch!Distinct(g)
  <2> SUFFICES ASSUME NEW r \in DOMAIN g, NEW s \in DOMAIN g, NEW i \in DOMAIN g[r], NEW j \in DOMAIN g[s],
                      g[r][i] = g[s][j]
               PROVE  r = s /\ i = j
    BY Zenon DEF Batch!Distinct
  <2>0. r \in P /\ s \in P
    BY <1>3
  <2>1. PICK m \in P : \E c \in DOMAIN f[m] : g[r][i] = f[m][c] /\ Was(r, i, m, c)
    BY <1>7, <2>0
  <2>2. PICK c \in DOMAIN f[m] : g[r][i] = f[m][c] /\ Was(r, i, m, c)
    BY <2>1
  <2>3. PICK n \in P : \E d \in DOMAIN f[n] : g[s][j] = f[n][d] /\ Was(s, j, n, d)
    BY <1>7, <2>0
  <2>4. PICK d \in DOMAIN f[n] : g[s][j] = f[n][d] /\ Was(s, j, n, d)
    BY <2>3
  <2>5. m \in DOMAIN f /\ n \in DOMAIN f /\ f[m][c] = f[n][d]
    BY <1>3, <2>2, <2>4
  <2>6. m = n /\ c = d
    BY <2>5 DEF Batch!Distinct
  <2> QED
    BY <2>2, <2>4, <2>6
<1>11. \A r \in P : \A i \in DOMAIN f[r] : \E s \in P : \E j \in DOMAIN g[s] : f[r][i] = g[s][j]
  <2> TAKE r \in P
  <2> TAKE i \in DOMAIN f[r]
  <2>1. CASE r = p /\ i = 1
    <3>1. k \in DOMAIN g[q] /\ g[q][k] = f[p][1]
      BY <1>1, <1>2, <1>3, <1>4 DEF a
    <3> QED
      BY <2>1, <3>1
  <2>2. CASE r = p /\ i # 1
    <3>1. i - 1 \in DOMAIN Tail(a) /\ Tail(a)[i - 1] = a[i]
      BY <1>1, <2>2 DEF a
    <3> QED
      BY <1>3, <2>2, <3>1 DEF a
  <2>3. CASE r = q
    <3>1. i \in DOMAIN g[q] /\ g[q][i] = f[q][i]
      BY <1>2, <1>3, <1>4, <2>3 DEF b
    <3> QED
      BY <2>3, <3>1
  <2>4. CASE r # p /\ r # q
    BY <1>3, <2>4
  <2> QED
    BY <2>1, <2>2, <2>3, <2>4
<1>12. \A r \in P : \A i \in DOMAIN g[r] : \E s \in P : \E j \in DOMAIN f[s] : g[r][i] = f[s][j]
  BY <1>7
<1>13. Batch!Contents(g) = Batch!Contents(f)
  <2>1. ASSUME NEW y, y \in Batch!Contents(g) PROVE y \in Batch!Contents(f)
    <3>1. PICK r \in DOMAIN g : \E i \in DOMAIN g[r] : y = g[r][i]
      BY <2>1, Zenon DEF Batch!Contents, Batch!ToSet
    <3>2. r \in P
      BY <1>3
    <3>3. PICK i \in DOMAIN g[r] : y = g[r][i]
      BY <3>1
    <3>4. \E s \in P : \E j \in DOMAIN f[s] : g[r][i] = f[s][j]
      BY <1>12, <3>2
    <3>5. PICK s \in P : \E j \in DOMAIN f[s] : g[r][i] = f[s][j]
      BY <3>4
    <3>6. s \in DOMAIN f /\ \E j \in DOMAIN f[s] : y = f[s][j]
      BY <1>3, <3>3, <3>5
    <3> QED
      BY <3>6, InContents
  <2>2. ASSUME NEW y, y \in Batch!Contents(f) PROVE y \in Batch!Contents(g)
    <3>1. PICK r \in DOMAIN f : \E i \in DOMAIN f[r] : y = f[r][i]
      BY <2>2, InContents
    <3>2. r \in P
      BY <1>3
    <3>3. PICK i \in DOMAIN f[r] : y = f[r][i]
      BY <3>1
    <3>4. \E s \in P : \E j \in DOMAIN g[s] : f[r][i] = g[s][j]
      BY <1>11, <3>2
    <3>5. PICK s \in P : \E j \in DOMAIN g[s] : f[r][i] = g[s][j]
      BY <3>4
    <3>6. s \in DOMAIN g /\ \E j \in DOMAIN g[s] : y = g[s][j]
      BY <1>3, <3>3, <3>5
    <3> QED
      BY <3>6, InContents
  <2> QED
    BY <2>1, <2>2
<1> QED
  BY <1>8, <1>13

LEMMA DistinctSwap ==
    ASSUME NEW S, NEW P, NEW f \in [P -> Seq(S)], Batch!Distinct(f),
           NEW p \in P, NEW q \in P, p # q,
           NEW g, IsSwap(f, g, p, q)
    PROVE  Batch!Distinct(g) /\ Batch!Contents(g) = Batch!Contents(f)
<1>1. /\ DOMAIN g = P /\ DOMAIN f = P /\ g[p] = <<>> /\ g[q] = f[p]
      /\ \A r \in P : r # p /\ r # q => g[r] = f[r]
      /\ DOMAIN g[p] = {} /\ DOMAIN f[q] = {}
  BY DEF IsSwap
<1>2. Batch!Distinct(g)
  BY <1>1 DEF Batch!Distinct
<1>3. Batch!Contents(g) = Batch!Contents(f)
  <2>1. ASSUME NEW y, y \in Batch!Contents(g) PROVE y \in Batch!Contents(f)
    <3>1. PICK r \in DOMAIN g : \E i \in DOMAIN g[r] : y = g[r][i]
      BY <2>1, Zenon DEF Batch!Contents, Batch!ToSet
    <3>2. r \in P
      BY <1>1
    <3>3. PICK i \in DOMAIN g[r] : y = g[r][i]
      BY <3>1
    <3>4. \E s \in P : \E j \in DOMAIN f[s] : g[r][i] = f[s][j]
      BY <1>1, <3>2
    <3>5. PICK s \in P : \E j \in DOMAIN f[s] : g[r][i] = f[s][j]
      BY <3>4
    <3>6. s \in DOMAIN f /\ \E j \in DOMAIN f[s] : y = f[s][j]
      BY <1>1, <3>3, <3>5
    <3> QED
      BY <3>6, InContents
  <2>2. ASSUME NEW y, y \in Batch!Contents(f) PROVE y \in Batch!Contents(g)
    <3>1. PICK r \in DOMAIN f : \E i \in DOMAIN f[r] : y = f[r][i]
      BY <2>2, InContents
    <3>2. r \in P
      BY <1>1
    <3>3. PICK i \in DOMAIN f[r] : y = f[r][i]
      BY <3>1
    <3>4. \E s \in P : \E j \in DOMAIN g[s] : f[r][i] = g[s][j]
      BY <1>1, <3>2
    <3>5. PICK s \in P : \E j \in DOMAIN g[s] : f[r][i] = g[s][j]
      BY <3>4
    <3>6. s \in DOMAIN g /\ \E j \in DOMAIN g[s] : y = g[s][j]
      BY <1>1, <3>3, <3>5
    <3> QED
      BY <3>6, InContents
  <2> QED
    BY <2>1, <2>2
<1> QED
  BY <1>2, <1>3

-----------------------------------------------------------------------------

AtFacts ==
    /\ DOMAIN Batch!At = Batch!Places /\ Batch!At \in [Batch!Places -> Seq(Items)]
    /\ Batch!At["queue"] = queue /\ Batch!At["hand"] = Batch!HandSeq
    /\ Batch!At["buffer"] = buffer /\ Batch!At["handled"] = handled
    /\ Batch!At["run"] = batch["run"] /\ Batch!At["flush"] = batch["flush"]
    /\ Batch!At["stop"] = batch["stop"]
    /\ Batch!HandSeq \in Seq(Items)

LEMMA PlaceNames ==
    /\ Batch!Writers = {"run", "flush", "stop"}
    /\ Batch!Places = {"queue", "hand", "buffer", "handled", "run", "flush", "stop"}
  BY DEF Batch!Places, Batch!Writers

LEMMA BatchAt == (Batch!TypeOK => AtFacts) /\ (Batch!TypeOK' => AtFacts')
<1>1. ASSUME Batch!TypeOK PROVE AtFacts
  <2>1. Batch!HandSeq \in Seq(Items)
    BY <1>1 DEF Batch!TypeOK, Batch!HandSeq
  <2>2. /\ queue \in Seq(Items) /\ buffer \in Seq(Items) /\ handled \in Seq(Items)
        /\ batch["run"] \in Seq(Items) /\ batch["flush"] \in Seq(Items) /\ batch["stop"] \in Seq(Items)
    BY <1>1 DEF Batch!TypeOK, Batch!Writers
  <2> HIDE DEF Batch!HandSeq
  <2> QED
    BY <2>1, <2>2, PlaceNames DEF AtFacts, Batch!At
<1>2. ASSUME Batch!TypeOK' PROVE AtFacts'
  <2>1. Batch!HandSeq' \in Seq(Items)
    BY <1>2 DEF Batch!TypeOK, Batch!HandSeq
  <2>2. /\ queue' \in Seq(Items) /\ buffer' \in Seq(Items) /\ handled' \in Seq(Items)
        /\ batch'["run"] \in Seq(Items) /\ batch'["flush"] \in Seq(Items) /\ batch'["stop"] \in Seq(Items)
    BY <1>2 DEF Batch!TypeOK, Batch!Writers
  <2> HIDE DEF Batch!HandSeq
  <2> QED
    BY <2>1, <2>2, PlaceNames DEF AtFacts, Batch!At
<1> QED
  BY <1>1, <1>2

LEMMA BatchInit == Batch!Init => Batch!IInv
<1> SUFFICES ASSUME Batch!Init PROVE Batch!IInv
  OBVIOUS
<1>1. Batch!TypeOK
  <2>1. batchClosed \in BOOLEAN /\ batchRunning \in BOOLEAN /\ flushed \in BOOLEAN
    BY DEF Batch!Init
  <2> QED
    BY <2>1 DEF Batch!Init, Batch!TypeOK
<1>2. Batch!HandSeq = <<>> /\ \A w \in Batch!Writers : batch[w] = <<>>
  BY DEF Batch!Init, Batch!HandSeq
<1>3. Batch!Owned /\ Batch!Stopped
  BY <1>2, PlaceNames DEF Batch!Init, Batch!Owned, Batch!Stopped
<1>4. \A p \in Batch!Places : Batch!At[p] = <<>>
  BY <1>1, <1>2, BatchAt, PlaceNames DEF AtFacts, Batch!Init
<1>5. Batch!Distinct(Batch!At)
  BY <1>1, <1>4, BatchAt DEF AtFacts, Batch!Distinct
<1>6. Batch!Contents(Batch!At) = {}
  BY <1>1, <1>4, BatchAt DEF AtFacts, Batch!Contents, Batch!ToSet
<1>7. Batch!ToSet(batchAccepted) = {}
  BY DEF Batch!Init, Batch!ToSet
<1>8. Batch!InOrder
  BY <1>2, PlaceNames DEF Batch!Init, Batch!InOrder
<1> QED
  BY <1>1, <1>3, <1>5, <1>6, <1>7, <1>8 DEF Batch!IInv

\* A step that moves no item.
LEMMA BatchQuiet ==
    ASSUME Batch!IInv, Batch!TypeOK', Batch!Owned', Batch!Stopped',
           UNCHANGED <<queue, buffer, hand, batch, handled, batchAccepted, flushed>>
    PROVE  Batch!IInv'
<1>1. Batch!At' = Batch!At
  BY DEF Batch!At, Batch!HandSeq
<1>2. Batch!InOrder'
  BY DEF Batch!IInv, Batch!InOrder, Batch!HandSeq
<1>3. Batch!Distinct(Batch!At)' /\ (Batch!Contents(Batch!At) = Batch!ToSet(batchAccepted))'
  BY <1>1 DEF Batch!IInv
<1> QED
  BY <1>2, <1>3 DEF Batch!IInv

\* A step that moves one, from the front of a place to the end of another.
LEMMA BatchMove ==
    ASSUME Batch!IInv, Batch!TypeOK', Batch!Owned', Batch!Stopped', Batch!InOrder',
           NEW p \in Batch!Places, NEW q \in Batch!Places, p # q, Batch!At[p] # <<>>,
           IsMove(Batch!At, Batch!At', p, q), UNCHANGED batchAccepted
    PROVE  Batch!IInv'
<1>1. Batch!At \in [Batch!Places -> Seq(Items)] /\ Batch!Distinct(Batch!At)
  BY BatchAt DEF Batch!IInv, AtFacts
<1>2. Batch!Distinct(Batch!At') /\ Batch!Contents(Batch!At') = Batch!Contents(Batch!At)
  BY <1>1, DistinctMove
<1>3. Batch!Distinct(Batch!At)' /\ (Batch!Contents(Batch!At) = Batch!ToSet(batchAccepted))'
  BY <1>2 DEF Batch!IInv
<1> QED
  BY <1>3 DEF Batch!IInv

\* A step that moves all of a place to one that was empty.
LEMMA BatchSwap ==
    ASSUME Batch!IInv, Batch!TypeOK', Batch!Owned', Batch!Stopped', Batch!InOrder',
           NEW p \in Batch!Places, NEW q \in Batch!Places, p # q,
           IsSwap(Batch!At, Batch!At', p, q), UNCHANGED batchAccepted
    PROVE  Batch!IInv'
<1>1. Batch!At \in [Batch!Places -> Seq(Items)] /\ Batch!Distinct(Batch!At)
  BY BatchAt DEF Batch!IInv, AtFacts
<1>2. Batch!Distinct(Batch!At') /\ Batch!Contents(Batch!At') = Batch!Contents(Batch!At)
  BY <1>1, DistinctSwap
<1>3. Batch!Distinct(Batch!At)' /\ (Batch!Contents(Batch!At) = Batch!ToSet(batchAccepted))'
  BY <1>2 DEF Batch!IInv
<1> QED
  BY <1>3 DEF Batch!IInv

LEMMA BatchControl ==
    ASSUME Batch!IInv,
           \/ Batch!Start \/ Batch!Check \/ Batch!Written
           \/ Batch!FlushDrained \/ Batch!FlushEnds
           \/ Batch!StopRunning \/ Batch!StopClose \/ Batch!StopDrained \/ Batch!StopEnds
    PROVE  Batch!IInv'
<1>1. CASE Batch!Start
  <2>1. Batch!TypeOK'
    BY <1>1 DEF Batch!Start, Batch!IInv, Batch!TypeOK
  <2>2. Batch!Owned' /\ Batch!Stopped'
    BY <1>1 DEF Batch!Start, Batch!IInv, Batch!TypeOK, Batch!Owned, Batch!Stopped, Batch!Joined
  <2>3. UNCHANGED <<queue, buffer, hand, batch, handled, batchAccepted, flushed>>
    BY <1>1 DEF Batch!Start
  <2> QED
    BY <2>1, <2>2, <2>3, BatchQuiet
<1>2. CASE Batch!Check
  <2>1. Batch!TypeOK'
    BY <1>2 DEF Batch!Check, Batch!IInv, Batch!TypeOK
  <2>2. Batch!Owned' /\ Batch!Stopped'
    BY <1>2 DEF Batch!Check, Batch!IInv, Batch!TypeOK, Batch!Owned, Batch!Stopped, Batch!Joined
  <2>3. UNCHANGED <<queue, buffer, hand, batch, handled, batchAccepted, flushed>>
    BY <1>2 DEF Batch!Check
  <2> QED
    BY <2>1, <2>2, <2>3, BatchQuiet
<1>3. CASE Batch!Written
  <2>1. Batch!TypeOK'
    BY <1>3 DEF Batch!Written, Batch!IInv, Batch!TypeOK
  <2>2. Batch!Owned' /\ Batch!Stopped'
    BY <1>3 DEF Batch!Written, Batch!IInv, Batch!TypeOK, Batch!Owned, Batch!Stopped, Batch!Joined
  <2>3. UNCHANGED <<queue, buffer, hand, batch, handled, batchAccepted, flushed>>
    BY <1>3 DEF Batch!Written
  <2> QED
    BY <2>1, <2>2, <2>3, BatchQuiet
<1>4. CASE Batch!FlushDrained
  <2>1. Batch!TypeOK'
    BY <1>4 DEF Batch!FlushDrained, Batch!IInv, Batch!TypeOK
  <2>2. Batch!Owned' /\ Batch!Stopped'
    BY <1>4 DEF Batch!FlushDrained, Batch!IInv, Batch!TypeOK, Batch!Owned, Batch!Stopped, Batch!Joined
  <2>3. UNCHANGED <<queue, buffer, hand, batch, handled, batchAccepted, flushed>>
    BY <1>4 DEF Batch!FlushDrained
  <2> QED
    BY <2>1, <2>2, <2>3, BatchQuiet
<1>5. CASE Batch!FlushEnds
  <2>1. Batch!TypeOK'
    BY <1>5 DEF Batch!FlushEnds, Batch!IInv, Batch!TypeOK
  <2>2. Batch!Owned' /\ Batch!Stopped'
    BY <1>5 DEF Batch!FlushEnds, Batch!IInv, Batch!TypeOK, Batch!Owned, Batch!Stopped, Batch!Joined
  <2>3. UNCHANGED <<queue, buffer, hand, batch, handled, batchAccepted, flushed>>
    BY <1>5 DEF Batch!FlushEnds
  <2> QED
    BY <2>1, <2>2, <2>3, BatchQuiet
<1>6. CASE Batch!StopRunning
  <2>1. Batch!TypeOK'
    BY <1>6 DEF Batch!StopRunning, Batch!IInv, Batch!TypeOK
  <2>2. Batch!Owned' /\ Batch!Stopped'
    BY <1>6 DEF Batch!StopRunning, Batch!IInv, Batch!TypeOK, Batch!Owned, Batch!Stopped, Batch!Joined
  <2>3. UNCHANGED <<queue, buffer, hand, batch, handled, batchAccepted, flushed>>
    BY <1>6 DEF Batch!StopRunning
  <2> QED
    BY <2>1, <2>2, <2>3, BatchQuiet
<1>7. CASE Batch!StopClose
  <2>1. Batch!TypeOK'
    BY <1>7 DEF Batch!StopClose, Batch!IInv, Batch!TypeOK
  <2>2. Batch!Owned' /\ Batch!Stopped'
    BY <1>7 DEF Batch!StopClose, Batch!IInv, Batch!TypeOK, Batch!Owned, Batch!Stopped, Batch!Joined
  <2>3. UNCHANGED <<queue, buffer, hand, batch, handled, batchAccepted, flushed>>
    BY <1>7 DEF Batch!StopClose
  <2> QED
    BY <2>1, <2>2, <2>3, BatchQuiet
<1>8. CASE Batch!StopDrained
  <2>1. Batch!TypeOK'
    BY <1>8 DEF Batch!StopDrained, Batch!IInv, Batch!TypeOK
  <2>2. Batch!Owned' /\ Batch!Stopped'
    BY <1>8 DEF Batch!StopDrained, Batch!IInv, Batch!TypeOK, Batch!Owned, Batch!Stopped, Batch!Joined
  <2>3. UNCHANGED <<queue, buffer, hand, batch, handled, batchAccepted, flushed>>
    BY <1>8 DEF Batch!StopDrained
  <2> QED
    BY <2>1, <2>2, <2>3, BatchQuiet
<1>9. CASE Batch!StopEnds
  <2>1. Batch!TypeOK'
    BY <1>9 DEF Batch!StopEnds, Batch!IInv, Batch!TypeOK
  <2>2. Batch!Owned' /\ Batch!Stopped'
    BY <1>9 DEF Batch!StopEnds, Batch!IInv, Batch!TypeOK, Batch!Owned, Batch!Stopped, Batch!Joined
  <2>3. UNCHANGED <<queue, buffer, hand, batch, handled, batchAccepted, flushed>>
    BY <1>9 DEF Batch!StopEnds
  <2> QED
    BY <2>1, <2>2, <2>3, BatchQuiet
<1> QED
  BY <1>1, <1>2, <1>3, <1>4, <1>5, <1>6, <1>7, <1>8, <1>9

LEMMA BatchUnchanged == Batch!IInv /\ UNCHANGED Batch!vars => Batch!IInv'
<1> SUFFICES ASSUME Batch!IInv, UNCHANGED Batch!vars PROVE Batch!IInv'
  OBVIOUS
<1>1. Batch!TypeOK'
  BY DEF Batch!vars, Batch!IInv, Batch!TypeOK
<1>2. Batch!Owned' /\ Batch!Stopped'
  BY DEF Batch!vars, Batch!IInv, Batch!Owned, Batch!Stopped, Batch!Joined
<1>3. UNCHANGED <<queue, buffer, hand, batch, handled, batchAccepted, flushed>>
  BY DEF Batch!vars
<1> QED
  BY <1>1, <1>2, <1>3, BatchQuiet

\* An item comes in at p.
IsAdd(f, g, p, x) ==
    /\ DOMAIN g = DOMAIN f /\ g[p] = Append(f[p], x)
    /\ \A r \in DOMAIN f : r # p => g[r] = f[r]

LEMMA DistinctAdd ==
    ASSUME NEW S, NEW P, NEW f \in [P -> Seq(S)], Batch!Distinct(f),
           NEW p \in P, NEW x \in S, x \notin Batch!Contents(f),
           NEW g, IsAdd(f, g, p, x)
    PROVE  Batch!Distinct(g) /\ Batch!Contents(g) = Batch!Contents(f) \cup {x}
<1> DEFINE b == f[p]
           k == Len(f[p]) + 1
<1>1. /\ DOMAIN b = 1 .. Len(b) /\ Len(b) \in Nat /\ k \in Nat
      /\ DOMAIN Append(b, x) = 1 .. k /\ Append(b, x)[k] = x
      /\ \A i \in 1 .. Len(b) : Append(b, x)[i] = b[i]
  BY AppendIsJoin
<1>2. /\ DOMAIN g = P /\ DOMAIN f = P /\ g[p] = Append(b, x)
      /\ \A r \in P : r # p => g[r] = f[r]
  BY DEF IsAdd
<1>3. DOMAIN Append(b, x) = DOMAIN b \cup {k} /\ k \notin DOMAIN b
  BY <1>1
<1> HIDE DEF b, k
<1>4. \A r \in P : \A i \in DOMAIN g[r] :
          \/ r = p /\ i = k /\ g[r][i] = x
          \/ ~(r = p /\ i = k) /\ i \in DOMAIN f[r] /\ g[r][i] = f[r][i]
  <2> TAKE r \in P
  <2> TAKE i \in DOMAIN g[r]
  <2>1. CASE r = p /\ i = k
    BY <1>1, <1>2, <2>1
  <2>2. CASE r = p /\ i # k
    <3>1. i \in DOMAIN b
      BY <1>2, <1>3, <2>2
    <3>2. g[r][i] = b[i]
      BY <1>1, <1>2, <2>2, <3>1
    <3> QED
      BY <2>2, <3>1, <3>2 DEF b
  <2>3. CASE r # p
    BY <1>2, <2>3
  <2> QED
    BY <2>1, <2>2, <2>3
<1>5. \A r \in P : \A i \in DOMAIN f[r] : f[r][i] # x
  BY <1>2, InContents
<1>6. Batch!Distinct(g)
  <2> SUFFICES ASSUME NEW r \in DOMAIN g, NEW s \in DOMAIN g, NEW i \in DOMAIN g[r], NEW j \in DOMAIN g[s],
                      g[r][i] = g[s][j]
               PROVE  r = s /\ i = j
    BY Zenon DEF Batch!Distinct
  <2>0. r \in P /\ s \in P
    BY <1>2
  <2>1. CASE r = p /\ i = k
    <3>1. g[s][j] = x
      BY <1>4, <2>0, <2>1
    <3> QED
      BY <1>4, <1>5, <2>0, <2>1, <3>1
  <2>2. CASE s = p /\ j = k
    <3>1. g[r][i] = x
      BY <1>4, <2>0, <2>2
    <3> QED
      BY <1>4, <1>5, <2>0, <2>2, <3>1
  <2>3. CASE ~(r = p /\ i = k) /\ ~(s = p /\ j = k)
    <3>1. i \in DOMAIN f[r] /\ j \in DOMAIN f[s] /\ f[r][i] = f[s][j]
      BY <1>4, <2>0, <2>3
    <3> QED
      BY <1>2, <2>0, <3>1 DEF Batch!Distinct
  <2> QED
    BY <2>1, <2>2, <2>3
<1>7. Batch!Contents(g) = Batch!Contents(f) \cup {x}
  <2>1. ASSUME NEW y, y \in Batch!Contents(g) PROVE y \in Batch!Contents(f) \cup {x}
    <3>1. PICK r \in DOMAIN g : \E i \in DOMAIN g[r] : y = g[r][i]
      BY <2>1, InContents
    <3>2. PICK i \in DOMAIN g[r] : y = g[r][i]
      BY <3>1
    <3>3. r \in P /\ r \in DOMAIN f
      BY <1>2
    <3>4. y = x \/ \E j \in DOMAIN f[r] : y = f[r][j]
      BY <1>4, <3>2, <3>3
    <3> QED
      BY <3>3, <3>4, InContents
  <2>2. ASSUME NEW y, y \in Batch!Contents(f) PROVE y \in Batch!Contents(g)
    <3>1. PICK r \in DOMAIN f : \E i \in DOMAIN f[r] : y = f[r][i]
      BY <2>2, InContents
    <3>2. PICK i \in DOMAIN f[r] : y = f[r][i]
      BY <3>1
    <3>3. r \in DOMAIN g /\ i \in DOMAIN g[r] /\ g[r][i] = f[r][i]
      <4>1. CASE r = p
        BY <1>1, <1>2, <1>3, <4>1 DEF b
      <4>2. CASE r # p
        BY <1>2, <4>2
      <4> QED
        BY <4>1, <4>2
    <3> QED
      BY <3>2, <3>3, InContents
  <2>3. x \in Batch!Contents(g)
    <3>1. p \in DOMAIN g /\ k \in DOMAIN g[p] /\ x = g[p][k]
      BY <1>1, <1>2, <1>3
    <3> QED
      BY <3>1, InContents
  <2> QED
    BY <2>1, <2>2, <2>3
<1> QED
  BY <1>6, <1>7

LEMMA AppendInside ==
    \A s, t \in Seq(Items), x \in Items : Append(s \o t, x) = s \o Append(t, x)
<1> TAKE s, t \in Seq(Items), x \in Items
<1> DEFINE e == <<x>>
<1>1. \A a, b, c \in Seq(Items) : (a \o b) \o c = a \o (b \o c)
  BY ConcatAssociative
<1>2. e \in Seq(Items) /\ s \o t \in Seq(Items)
  OBVIOUS
<1>3. \A u \in Seq(Items) : Append(u, x) = u \o e
  BY AppendIsJoin
<1> HIDE DEF e
<1>4. Append(s \o t, x) = (s \o t) \o e /\ Append(t, x) = t \o e
  BY <1>2, <1>3, Zenon
<1>5. (s \o t) \o e = s \o (t \o e)
  BY <1>1, <1>2, Zenon
<1> QED
  BY <1>4, <1>5, Zenon

LEMMA BatchEnqueue ==
    ASSUME Batch!IInv, NEW i \in Items, Batch!Enqueue(i)
    PROVE  Batch!IInv'
<1>0. /\ i \notin Batch!ToSet(batchAccepted) /\ ~batchClosed
      /\ queue' = Append(queue, i) /\ batchAccepted' = Append(batchAccepted, i)
      /\ UNCHANGED <<batchClosed, buffer, batchRunning, thread, hand, batch, flusher, stopper, handled, flushed>>
  BY DEF Batch!Enqueue
<1>1. Batch!TypeOK'
  BY <1>0 DEF Batch!IInv, Batch!TypeOK
<1>2. Batch!Owned' /\ Batch!Stopped'
  BY <1>0 DEF Batch!IInv, Batch!Owned, Batch!Stopped, Batch!Joined
<1>3. AtFacts /\ AtFacts'
  BY <1>1, BatchAt DEF Batch!IInv
<1>4. IsAdd(Batch!At, Batch!At', "queue", i)
  <2>1. Batch!HandSeq' = Batch!HandSeq
    BY <1>0 DEF Batch!HandSeq
  <2> QED
    BY <1>0, <1>3, <2>1, PlaceNames DEF IsAdd, AtFacts
<1>5. Batch!Distinct(Batch!At') /\ Batch!Contents(Batch!At') = Batch!Contents(Batch!At) \cup {i}
  <2>1. /\ Batch!At \in [Batch!Places -> Seq(Items)] /\ Batch!Distinct(Batch!At)
        /\ "queue" \in Batch!Places /\ i \notin Batch!Contents(Batch!At)
    BY <1>0, <1>3, PlaceNames DEF Batch!IInv, AtFacts
  <2> QED
    BY <1>4, <2>1, DistinctAdd
<1>6. Batch!ToSet(batchAccepted') = Batch!ToSet(batchAccepted) \cup {i}
  <2>1. batchAccepted \in Seq(Items)
    BY DEF Batch!IInv, Batch!TypeOK
  <2> DEFINE n == Len(batchAccepted)
  <2>2. /\ n \in Nat /\ DOMAIN batchAccepted = 1 .. n /\ DOMAIN batchAccepted' = 1 .. n + 1
        /\ batchAccepted'[n + 1] = i
        /\ \A j \in 1 .. n : batchAccepted'[j] = batchAccepted[j]
    BY <1>0, <2>1, AppendIsJoin
  <2> HIDE DEF n
  <2>3. DOMAIN batchAccepted' = DOMAIN batchAccepted \cup {n + 1}
    BY <2>2
  <2> QED
    BY <2>2, <2>3 DEF Batch!ToSet
<1>7. Batch!InOrder'
  <2> SUFFICES ASSUME ~flushed'
               PROVE  batchAccepted' = handled' \o (batch'["run"] \o (batch'["stop"] \o (buffer' \o (Batch!HandSeq' \o queue'))))
    BY DEF Batch!InOrder
  <2> DEFINE h == handled
             r == batch["run"]
             s == batch["stop"]
             b == buffer
             x == Batch!HandSeq
  <2>1. batchAccepted = h \o (r \o (s \o (b \o (x \o queue))))
    BY <1>0 DEF Batch!IInv, Batch!InOrder
  <2>2. /\ h \in Seq(Items) /\ r \in Seq(Items) /\ s \in Seq(Items) /\ b \in Seq(Items)
        /\ x \in Seq(Items) /\ queue \in Seq(Items)
    BY <1>3, PlaceNames DEF Batch!IInv, Batch!TypeOK, AtFacts
  <2>3. handled' = h /\ batch'["run"] = r /\ batch'["stop"] = s /\ buffer' = b /\ Batch!HandSeq' = x
    BY <1>0 DEF Batch!HandSeq
  <2> HIDE DEF h, r, s, b, x
  <2>4. /\ x \o queue \in Seq(Items) /\ b \o (x \o queue) \in Seq(Items)
        /\ s \o (b \o (x \o queue)) \in Seq(Items) /\ r \o (s \o (b \o (x \o queue))) \in Seq(Items)
    <3>1. \A u, v \in Seq(Items) : u \o v \in Seq(Items)
      OBVIOUS
    <3> QED
      BY <2>2, <3>1, Zenon
  <2>5. \A u, v \in Seq(Items) : Append(u \o v, i) = u \o Append(v, i)
    BY AppendInside, Zenon
  <2>6. Append(x \o queue, i) = x \o Append(queue, i)
    BY <2>2, <2>5, Zenon
  <2>7. Append(b \o (x \o queue), i) = b \o Append(x \o queue, i)
    BY <2>2, <2>4, <2>5, Zenon
  <2>8. Append(s \o (b \o (x \o queue)), i) = s \o Append(b \o (x \o queue), i)
    BY <2>2, <2>4, <2>5, Zenon
  <2>9. Append(r \o (s \o (b \o (x \o queue))), i) = r \o Append(s \o (b \o (x \o queue)), i)
    BY <2>2, <2>4, <2>5, Zenon
  <2>10. Append(h \o (r \o (s \o (b \o (x \o queue)))), i) = h \o Append(r \o (s \o (b \o (x \o queue))), i)
    BY <2>2, <2>4, <2>5, Zenon
  <2> QED
    BY <1>0, <2>1, <2>3, <2>6, <2>7, <2>8, <2>9, <2>10, Zenon
<1>8. Batch!Distinct(Batch!At)' /\ (Batch!Contents(Batch!At) = Batch!ToSet(batchAccepted))'
  BY <1>5, <1>6 DEF Batch!IInv
<1> QED
  BY <1>1, <1>2, <1>7, <1>8 DEF Batch!IInv

LEMMA NoItems == \A s \in Seq(Items) : <<>> \o s = s /\ s \o <<>> = s
  BY ConcatEmptySeq

\* What the steps that move items start from.
LEMMA BatchTypes ==
    ASSUME Batch!IInv
    PROVE  /\ queue \in Seq(Items) /\ buffer \in Seq(Items) /\ handled \in Seq(Items)
           /\ batch["run"] \in Seq(Items) /\ batch["stop"] \in Seq(Items) /\ batch["flush"] \in Seq(Items)
           /\ batch \in [Batch!Writers -> Seq(Items)]
           /\ Batch!HandSeq \in Seq(Items) /\ AtFacts
           /\ hand \in Items \cup {Nothing}
           /\ \A s, t \in Seq(Items) : s \o t \in Seq(Items)
  BY BatchAt, PlaceNames DEF Batch!IInv, Batch!TypeOK, AtFacts

LEMMA BatchPop == ASSUME Batch!IInv, Batch!Pop PROVE Batch!IInv'
<1>0. /\ thread = "pop"
      /\ UNCHANGED <<batchClosed, buffer, batchRunning, batch, flusher, stopper, batchAccepted, handled, flushed>>
  BY DEF Batch!Pop
<1>1. CASE queue = <<>>
  <2>1. thread' = "check" /\ hand' = hand /\ queue' = queue
    BY <1>1 DEF Batch!Pop
  <2>2. Batch!TypeOK'
    BY <1>0, <2>1 DEF Batch!IInv, Batch!TypeOK
  <2>3. Batch!Owned' /\ Batch!Stopped'
    BY <1>0, <2>1 DEF Batch!IInv, Batch!Owned, Batch!Stopped, Batch!Joined
  <2> QED
    BY <1>0, <2>1, <2>2, <2>3, BatchQuiet
<1>2. CASE queue # <<>>
  <2>1. hand' = Head(queue) /\ queue' = Tail(queue) /\ thread' = "put"
    BY <1>2 DEF Batch!Pop
  <2>2. /\ Head(queue) \in Items /\ Head(queue) # Nothing /\ Tail(queue) \in Seq(Items)
        /\ <<Head(queue)>> \o Tail(queue) = queue
    BY <1>2, BatchTypes, HeadAndTail, BatchAssumption
  <2>3. Batch!TypeOK'
    BY <1>0, <2>1, <2>2 DEF Batch!IInv, Batch!TypeOK
  <2>4. hand = Nothing /\ Batch!HandSeq = <<>> /\ Batch!HandSeq' = <<Head(queue)>>
    BY <1>0, <2>1, <2>2 DEF Batch!IInv, Batch!Owned, Batch!HandSeq
  <2>5. Batch!Owned' /\ Batch!Stopped'
    <3>1. stopper \notin {"drain", "write", "done"}
      BY <1>0 DEF Batch!IInv, Batch!Stopped, Batch!Joined
    <3> QED
      BY <1>0, <2>1, <2>2, <3>1 DEF Batch!IInv, Batch!TypeOK, Batch!Owned, Batch!Stopped
  <2>6. Batch!InOrder'
    <3>1. Batch!HandSeq' \o queue' = Batch!HandSeq \o queue
      BY <2>1, <2>2, <2>4, BatchTypes, NoItems
    <3> QED
      BY <1>0, <3>1, Zenon DEF Batch!IInv, Batch!InOrder
  <2>7. AtFacts /\ AtFacts'
    BY <2>3, BatchAt DEF Batch!IInv
  <2>8. IsMove(Batch!At, Batch!At', "queue", "hand") /\ Batch!At["queue"] # <<>>
    <3>1. Append(<<>>, Head(queue)) = <<Head(queue)>>
      OBVIOUS
    <3> QED
      BY <1>0, <1>2, <2>1, <2>4, <2>7, <3>1, PlaceNames DEF IsMove, AtFacts
  <2>9. "queue" \in Batch!Places /\ "hand" \in Batch!Places
    BY PlaceNames
  <2> QED
    BY <1>0, <2>3, <2>5, <2>6, <2>8, <2>9, BatchMove
<1> QED
  BY <1>1, <1>2

\* DistinctMove for the places of the writer.
LEMMA MoveKeeps ==
    \A f, g : \A p, q \in Batch!Places :
        /\ f \in [Batch!Places -> Seq(Items)] /\ Batch!Distinct(f)
        /\ p # q /\ f[p] # <<>> /\ IsMove(f, g, p, q)
        => Batch!Distinct(g) /\ Batch!Contents(g) = Batch!Contents(f)
  BY DistinctMove

\* The same for a place that moves as a whole.
LEMMA SwapKeeps ==
    \A f, g : \A p, q \in Batch!Places :
        /\ f \in [Batch!Places -> Seq(Items)] /\ Batch!Distinct(f)
        /\ p # q /\ IsSwap(f, g, p, q)
        => Batch!Distinct(g) /\ Batch!Contents(g) = Batch!Contents(f)
  BY DistinctSwap

LEMMA BatchPut == ASSUME Batch!IInv, Batch!Put PROVE Batch!IInv'
<1> DEFINE b == Append(buffer, hand)
<1>0. /\ thread = "put" /\ hand' = Nothing
      /\ UNCHANGED <<queue, batchClosed, batchRunning, flusher, stopper, batchAccepted, handled, flushed>>
  BY DEF Batch!Put
<1>1. /\ hand \in Items /\ Batch!HandSeq = <<hand>> /\ Batch!HandSeq' = <<>>
      /\ batch["run"] = <<>> /\ stopper \notin {"drain", "write", "done"} /\ batch["stop"] = <<>>
  <2>1. hand # Nothing /\ batch["run"] = <<>>
    BY <1>0 DEF Batch!IInv, Batch!Owned
  <2>2. stopper \notin {"drain", "write", "done"}
    BY <1>0 DEF Batch!IInv, Batch!Stopped, Batch!Joined
  <2>3. batch["stop"] = <<>>
    BY <2>2 DEF Batch!IInv, Batch!Owned
  <2> QED
    BY <1>0, <2>1, <2>2, <2>3, BatchTypes DEF Batch!HandSeq
<1>2. b \in Seq(Items) /\ b = Append(buffer, Head(Batch!HandSeq)) /\ Tail(Batch!HandSeq) = <<>> /\ Batch!HandSeq # <<>>
  BY <1>1, BatchTypes
<1>3. b \o queue = buffer \o (Batch!HandSeq \o queue)
  <2>0. buffer \in Seq(Items) /\ Batch!HandSeq \in Seq(Items) /\ queue \in Seq(Items)
    BY BatchTypes
  <2> HIDE DEF b
  <2>1. Append(buffer, Head(Batch!HandSeq)) \o (Tail(Batch!HandSeq) \o queue) = buffer \o (Batch!HandSeq \o queue)
    BY <1>2, <2>0, MovedAlong, Zenon
  <2>2. <<>> \o queue = queue
    BY <2>0, NoItems
  <2> QED
    BY <1>2, <2>1, <2>2
<1>4. <<>> \o queue = queue /\ <<>> \o (b \o queue) = b \o queue /\ <<>> \o (<<>> \o (b \o queue)) = b \o queue
      /\ b \o queue \in Seq(Items)
  BY <1>2, BatchTypes, NoItems
<1>5. /\ "hand" \in Batch!Places /\ "buffer" \in Batch!Places /\ "run" \in Batch!Places
      /\ "hand" # "buffer" /\ "buffer" # "run"
  BY PlaceNames
<1>6. CASE Len(b) < BatchSize
  <2>1. buffer' = b /\ thread' = "check" /\ batch' = batch
    <3>1. ~(Len(b) >= BatchSize)
      BY <1>2, <1>6, BatchAssumption
    <3> QED
      BY <3>1 DEF Batch!Put
  <2>2. Batch!TypeOK'
    BY <1>0, <1>2, <2>1 DEF Batch!IInv, Batch!TypeOK
  <2>3. Batch!Owned' /\ Batch!Stopped'
    BY <1>0, <1>1, <2>1 DEF Batch!IInv, Batch!Owned, Batch!Stopped
  <2>4. Batch!InOrder'
    <3>1. buffer' \o (Batch!HandSeq' \o queue') = buffer \o (Batch!HandSeq \o queue)
      BY <1>0, <1>1, <1>3, <1>4, <2>1
    <3> QED
      BY <1>0, <2>1, <3>1, Zenon DEF Batch!IInv, Batch!InOrder
  <2>5. AtFacts /\ AtFacts'
    BY <2>2, BatchAt DEF Batch!IInv
  <2>6. IsMove(Batch!At, Batch!At', "hand", "buffer") /\ Batch!At["hand"] # <<>>
    <3> HIDE DEF b
    <3> QED
      BY <1>0, <1>1, <1>2, <2>1, <2>5, PlaceNames DEF IsMove, AtFacts
  <2> QED
    BY <1>0, <1>5, <2>2, <2>3, <2>4, <2>6, BatchMove
<1>7. CASE Len(b) >= BatchSize
  <2>1. buffer' = <<>> /\ thread' = "write" /\ batch' = [batch EXCEPT !["run"] = b]
    BY <1>7 DEF Batch!Put, Batch!Swapped
  <2>2. /\ batch'["run"] = b /\ batch'["flush"] = batch["flush"] /\ batch'["stop"] = batch["stop"]
        /\ batch' \in [Batch!Writers -> Seq(Items)]
    BY <1>2, <2>1, BatchTypes, PlaceNames
  <2> HIDE DEF b
  <2>3. Batch!TypeOK'
    BY <1>0, <1>2, <2>1, <2>2 DEF Batch!IInv, Batch!TypeOK
  <2>4. Batch!Owned' /\ Batch!Stopped'
    BY <1>0, <1>1, <2>1, <2>2 DEF Batch!IInv, Batch!Owned, Batch!Stopped
  <2>5. AtFacts /\ AtFacts'
    BY <2>3, BatchAt DEF Batch!IInv
  <2>6. Batch!InOrder'
    <3> DEFINE new == batch'["run"] \o (batch'["stop"] \o (buffer' \o (Batch!HandSeq' \o queue')))
               old == batch["run"] \o (batch["stop"] \o (buffer \o (Batch!HandSeq \o queue)))
    <3>1. new = b \o queue
      BY <1>0, <1>1, <1>4, <2>1, <2>2
    <3>2. old = b \o queue
      BY <1>1, <1>3, <1>4
    <3>3. new = old /\ handled' = handled /\ batchAccepted' = batchAccepted /\ flushed' = flushed
      BY <1>0, <3>1, <3>2
    <3> QED
      BY <3>3, Zenon DEF Batch!IInv, Batch!InOrder
  <2> DEFINE f == [Batch!At EXCEPT !["hand"] = <<>>, !["buffer"] = b]
  <2>7. IsMove(Batch!At, f, "hand", "buffer") /\ Batch!At["hand"] # <<>> /\ f \in [Batch!Places -> Seq(Items)]
    BY <1>1, <1>2, <2>5, PlaceNames DEF IsMove, AtFacts
  <2>8. IsSwap(f, Batch!At', "buffer", "run")
    BY <1>0, <1>1, <2>1, <2>2, <2>5, PlaceNames DEF IsSwap, AtFacts
  <2> HIDE DEF f
  <2>9. Batch!Distinct(f) /\ Batch!Contents(f) = Batch!Contents(Batch!At)
    <3>1. Batch!At \in [Batch!Places -> Seq(Items)] /\ Batch!Distinct(Batch!At)
      BY <2>5 DEF Batch!IInv, AtFacts
    <3> QED
      BY <1>5, <2>7, <3>1, MoveKeeps
  <2>10. Batch!Distinct(Batch!At') /\ Batch!Contents(Batch!At') = Batch!Contents(f)
    BY <1>5, <2>7, <2>8, <2>9, SwapKeeps, Zenon
  <2>11. Batch!Distinct(Batch!At)' /\ (Batch!Contents(Batch!At) = Batch!ToSet(batchAccepted))'
    BY <1>0, <2>9, <2>10 DEF Batch!IInv
  <2> QED
    BY <2>3, <2>4, <2>6, <2>11 DEF Batch!IInv
<1>8. Len(b) < BatchSize \/ Len(b) >= BatchSize
  BY <1>2, BatchAssumption
<1> QED
  BY <1>6, <1>7, <1>8

LEMMA BatchWrite ==
    ASSUME Batch!IInv, NEW w \in Batch!Writers, Batch!WriteBatch(w)
    PROVE  Batch!IInv'
<1>0. /\ Batch!Writing(w) /\ batch[w] # <<>>
      /\ handled' = Append(handled, Head(batch[w])) /\ batch' = [batch EXCEPT ![w] = Tail(batch[w])]
      /\ UNCHANGED <<queue, batchClosed, buffer, batchRunning, thread, hand, flusher, stopper, batchAccepted, flushed>>
  BY DEF Batch!WriteBatch
<1>1. /\ batch \in [Batch!Writers -> Seq(Items)] /\ handled \in Seq(Items) /\ batch[w] \in Seq(Items)
      /\ AtFacts
  BY BatchTypes
<1>2. Head(batch[w]) \in Items /\ Tail(batch[w]) \in Seq(Items)
  BY <1>0, <1>1, HeadAndTail
<1>3. /\ batch' \in [Batch!Writers -> Seq(Items)] /\ handled' \in Seq(Items)
      /\ batch'[w] = Tail(batch[w]) /\ \A v \in Batch!Writers : v # w => batch'[v] = batch[v]
  BY <1>0, <1>1, <1>2
<1>4. Batch!TypeOK'
  BY <1>0, <1>3 DEF Batch!IInv, Batch!TypeOK
<1>5. AtFacts'
  BY <1>4, BatchAt
<1>6. Batch!Owned' /\ Batch!Stopped'
  <2>1. w \in {"run", "flush", "stop"}
    BY PlaceNames
  <2>2. \A v \in Batch!Writers : v # w => batch'[v] = batch[v]
    BY <1>3
  <2>3. /\ w = "run" => thread = "write"
        /\ w = "flush" => flusher = "write"
        /\ w = "stop" => stopper = "write"
    BY <1>0 DEF Batch!Writing
  <2> QED
    BY <1>0, <2>1, <2>2, <2>3, PlaceNames DEF Batch!IInv, Batch!Owned, Batch!Stopped, Batch!Joined
<1>7. Batch!InOrder'
  <2> SUFFICES ASSUME ~flushed'
               PROVE  batchAccepted' = handled' \o (batch'["run"] \o (batch'["stop"] \o (buffer' \o (Batch!HandSeq' \o queue'))))
    BY DEF Batch!InOrder
  <2> DEFINE u == buffer \o (Batch!HandSeq \o queue)
             v == batch["stop"] \o u
  <2>1. /\ u \in Seq(Items) /\ v \in Seq(Items) /\ batch["run"] \in Seq(Items) /\ batch["stop"] \in Seq(Items)
        /\ Batch!HandSeq' = Batch!HandSeq
    BY <1>0, BatchTypes DEF Batch!HandSeq
  <2>2. batchAccepted = handled \o (batch["run"] \o v)
    BY <1>0 DEF Batch!IInv, Batch!InOrder
  <2>3. w # "flush"
    <3>1. flusher = "idle"
      BY <1>0 DEF Batch!IInv, Batch!Owned
    <3> QED
      BY <1>0, <3>1 DEF Batch!Writing
  <2>4. u = buffer' \o (Batch!HandSeq' \o queue')
    BY <1>0, <2>1
  <2> HIDE DEF u
  <2>5. CASE w = "run"
    <3>1. batch'["run"] = Tail(batch["run"]) /\ batch'["stop"] = batch["stop"] /\ batch["run"] # <<>>
          /\ handled' = Append(handled, Head(batch["run"]))
      BY <1>0, <1>3, <2>5, PlaceNames
    <3>2. Append(handled, Head(batch["run"])) \o (Tail(batch["run"]) \o v) = handled \o (batch["run"] \o v)
      <4> HIDE DEF v
      <4> QED
        BY <1>1, <2>1, <3>1, MovedAlong
    <3> QED
      BY <1>0, <2>2, <2>4, <3>1, <3>2
  <2>6. CASE w = "stop"
    <3>1. batch'["stop"] = Tail(batch["stop"]) /\ batch'["run"] = batch["run"] /\ batch["stop"] # <<>>
          /\ handled' = Append(handled, Head(batch["stop"]))
      BY <1>0, <1>3, <2>6, PlaceNames
    <3>2. batch["run"] = <<>>
      <4>1. stopper = "write"
        BY <1>0, <2>6 DEF Batch!Writing
      <4>2. thread # "write"
        BY <4>1 DEF Batch!IInv, Batch!Stopped, Batch!Joined
      <4> QED
        BY <4>2 DEF Batch!IInv, Batch!Owned
    <3>3. Append(handled, Head(batch["stop"])) \o (Tail(batch["stop"]) \o u) = handled \o (batch["stop"] \o u)
      BY <1>1, <2>1, <3>1, MovedAlong
    <3>4. Tail(batch["stop"]) \o u \in Seq(Items) /\ batch["stop"] \o u \in Seq(Items)
      BY <1>2, <2>1, <2>6, BatchTypes
    <3>5. <<>> \o (Tail(batch["stop"]) \o u) = Tail(batch["stop"]) \o u /\ <<>> \o (batch["stop"] \o u) = batch["stop"] \o u
      BY <3>4, NoItems, Zenon
    <3> QED
      BY <1>0, <2>2, <2>4, <3>1, <3>2, <3>3, <3>5
  <2> QED
    BY <2>3, <2>5, <2>6, PlaceNames
<1>8. w \in Batch!Places /\ "handled" \in Batch!Places /\ w # "handled"
  BY PlaceNames
<1>9. IsMove(Batch!At, Batch!At', w, "handled") /\ Batch!At[w] # <<>>
  <2>1. \A v \in Batch!Writers : Batch!At[v] = batch[v] /\ Batch!At'[v] = batch'[v]
    BY <1>1, <1>5, PlaceNames DEF AtFacts
  <2>2. /\ Batch!At'["queue"] = Batch!At["queue"] /\ Batch!At'["hand"] = Batch!At["hand"]
        /\ Batch!At'["buffer"] = Batch!At["buffer"]
        /\ Batch!At["handled"] = handled /\ Batch!At'["handled"] = handled'
        /\ DOMAIN Batch!At = Batch!Places /\ DOMAIN Batch!At' = Batch!Places
    BY <1>0, <1>1, <1>5 DEF AtFacts, Batch!HandSeq
  <2>3. \A r \in Batch!Places : r \in Batch!Writers \/ r \in {"queue", "hand", "buffer", "handled"}
    BY PlaceNames
  <2> QED
    BY <1>0, <1>3, <2>1, <2>2, <2>3 DEF IsMove
<1> QED
  BY <1>0, <1>4, <1>6, <1>7, <1>8, <1>9, BatchMove

LEMMA BatchFlushSwap == ASSUME Batch!IInv, Batch!FlushSwap PROVE Batch!IInv'
<1>0. /\ flusher = "idle" /\ stopper = "idle"
      /\ batch' = [batch EXCEPT !["flush"] = buffer] /\ buffer' = <<>>
      /\ flusher' = "drain" /\ flushed' = TRUE
      /\ UNCHANGED <<queue, batchClosed, batchRunning, thread, hand, stopper, batchAccepted, handled>>
  BY DEF Batch!FlushSwap, Batch!Swapped
<1>1. /\ batch'["flush"] = buffer /\ batch'["run"] = batch["run"] /\ batch'["stop"] = batch["stop"]
      /\ batch' \in [Batch!Writers -> Seq(Items)]
  BY <1>0, BatchTypes, PlaceNames
<1>2. Batch!TypeOK'
  <2>1. flushed' \in BOOLEAN /\ batchClosed' \in BOOLEAN /\ batchRunning' \in BOOLEAN
    BY <1>0 DEF Batch!IInv, Batch!TypeOK
  <2> QED
    BY <1>0, <1>1, <2>1 DEF Batch!IInv, Batch!TypeOK
<1>3. Batch!Owned' /\ Batch!Stopped'
  BY <1>0, <1>1 DEF Batch!IInv, Batch!Owned, Batch!Stopped
<1>4. Batch!InOrder'
  BY <1>0 DEF Batch!InOrder
<1>5. AtFacts /\ AtFacts'
  BY <1>2, BatchAt DEF Batch!IInv
<1>6. IsSwap(Batch!At, Batch!At', "buffer", "flush")
  <2>1. batch["flush"] = <<>>
    BY <1>0 DEF Batch!IInv, Batch!Owned
  <2>2. Batch!HandSeq' = Batch!HandSeq
    BY <1>0 DEF Batch!HandSeq
  <2> QED
    BY <1>0, <1>1, <1>5, <2>1, <2>2, PlaceNames DEF IsSwap, AtFacts
<1>7. "buffer" \in Batch!Places /\ "flush" \in Batch!Places /\ "buffer" # "flush"
  BY PlaceNames
<1> QED
  BY <1>0, <1>2, <1>3, <1>4, <1>6, <1>7, BatchSwap

LEMMA BatchStopJoin == ASSUME Batch!IInv, Batch!StopJoin PROVE Batch!IInv'
<1>0. /\ stopper = "join" /\ Batch!Joined
      /\ batch' = [batch EXCEPT !["stop"] = buffer] /\ buffer' = <<>> /\ stopper' = "drain"
      /\ UNCHANGED <<queue, batchClosed, batchRunning, thread, hand, flusher, batchAccepted, handled, flushed>>
  BY DEF Batch!StopJoin, Batch!Swapped
<1>1. /\ batch'["stop"] = buffer /\ batch'["run"] = batch["run"] /\ batch'["flush"] = batch["flush"]
      /\ batch' \in [Batch!Writers -> Seq(Items)] /\ batch["stop"] = <<>>
  <2>1. batch["stop"] = <<>>
    BY <1>0 DEF Batch!IInv, Batch!Owned
  <2> QED
    BY <1>0, <2>1, BatchTypes, PlaceNames
<1>2. Batch!TypeOK'
  BY <1>0, <1>1 DEF Batch!IInv, Batch!TypeOK
<1>3. Batch!Owned' /\ Batch!Stopped'
  BY <1>0, <1>1 DEF Batch!IInv, Batch!Owned, Batch!Stopped, Batch!Joined
<1>4. Batch!HandSeq' = Batch!HandSeq
  BY <1>0 DEF Batch!HandSeq
<1>5. Batch!InOrder'
  <2> DEFINE u == Batch!HandSeq \o queue
  <2>1. u \in Seq(Items) /\ buffer \in Seq(Items) /\ buffer \o u \in Seq(Items)
    BY BatchTypes
  <2> HIDE DEF u
  <2>2. <<>> \o u = u /\ <<>> \o (buffer \o u) = buffer \o u
    BY <2>1, NoItems, Zenon
  <2>3. batch'["stop"] \o (buffer' \o u) = batch["stop"] \o (buffer \o u)
    BY <1>0, <1>1, <2>2
  <2>4. u = Batch!HandSeq \o queue /\ u = Batch!HandSeq' \o queue'
    BY <1>0, <1>4 DEF u
  <2>5. batch'["stop"] \o (buffer' \o (Batch!HandSeq' \o queue')) = batch["stop"] \o (buffer \o (Batch!HandSeq \o queue))
    BY <2>3, <2>4, Zenon
  <2> QED
    BY <1>0, <1>1, <2>5, Zenon DEF Batch!IInv, Batch!InOrder
<1>6. AtFacts /\ AtFacts'
  BY <1>2, BatchAt DEF Batch!IInv
<1>7. IsSwap(Batch!At, Batch!At', "buffer", "stop")
  BY <1>0, <1>1, <1>4, <1>6, PlaceNames DEF IsSwap, AtFacts
<1>8. "buffer" \in Batch!Places /\ "stop" \in Batch!Places /\ "buffer" # "stop"
  BY PlaceNames
<1> QED
  BY <1>0, <1>2, <1>3, <1>5, <1>7, <1>8, BatchSwap

LEMMA BatchDrain ==
    ASSUME Batch!IInv, NEW w \in {"flush", "stop"}, Batch!Drain(w),
           w = "flush" => flusher = "drain", w = "stop" => stopper = "drain"
    PROVE  Batch!IInv'
<1>0. /\ queue # <<>> /\ batch' = [batch EXCEPT ![w] = Append(batch[w], Head(queue))] /\ queue' = Tail(queue)
      /\ UNCHANGED <<batchClosed, buffer, batchRunning, thread, hand, flusher, stopper, batchAccepted, handled, flushed>>
  BY DEF Batch!Drain, Batch!Behind
<1>1. /\ batch \in [Batch!Writers -> Seq(Items)] /\ w \in Batch!Writers /\ queue \in Seq(Items) /\ AtFacts
  BY BatchTypes, PlaceNames
<1>2. Head(queue) \in Items /\ Tail(queue) \in Seq(Items)
  BY <1>0, <1>1, HeadAndTail
<1>3. /\ batch' \in [Batch!Writers -> Seq(Items)]
      /\ batch'[w] = Append(batch[w], Head(queue)) /\ \A v \in Batch!Writers : v # w => batch'[v] = batch[v]
  BY <1>0, <1>1, <1>2
<1>4. Batch!TypeOK'
  BY <1>0, <1>2, <1>3 DEF Batch!IInv, Batch!TypeOK
<1>5. AtFacts'
  BY <1>4, BatchAt
<1>6. Batch!Owned' /\ Batch!Stopped'
  <2>1. stopper \notin {"write", "done"}
    BY <1>0 DEF Batch!IInv, Batch!Stopped
  <2>2. "run" \in Batch!Writers /\ "flush" \in Batch!Writers /\ "stop" \in Batch!Writers
    BY PlaceNames
  <2> QED
    BY <1>0, <1>3, <2>1, <2>2 DEF Batch!IInv, Batch!Owned, Batch!Stopped, Batch!Joined
<1>7. Batch!InOrder'
  <2> SUFFICES ASSUME ~flushed'
               PROVE  batchAccepted' = handled' \o (batch'["run"] \o (batch'["stop"] \o (buffer' \o (Batch!HandSeq' \o queue'))))
    BY DEF Batch!InOrder
  <2>1. w = "stop" /\ stopper = "drain"
    <3>1. flusher = "idle"
      BY <1>0 DEF Batch!IInv, Batch!Owned
    <3> QED
      BY <3>1
  <2>2. buffer = <<>> /\ Batch!HandSeq = <<>>
    <3>1. buffer = <<>> /\ thread # "put"
      BY <2>1 DEF Batch!IInv, Batch!Stopped, Batch!Joined
    <3>2. hand = Nothing
      BY <3>1 DEF Batch!IInv, Batch!Owned
    <3> QED
      BY <3>1, <3>2 DEF Batch!HandSeq
  <2>3. /\ batch'["run"] = batch["run"] /\ batch'["stop"] = Append(batch["stop"], Head(queue))
        /\ Batch!HandSeq' = <<>> /\ batch["stop"] \in Seq(Items)
    <3>1. Batch!HandSeq' = Batch!HandSeq
      BY <1>0 DEF Batch!HandSeq
    <3> QED
      BY <1>1, <1>3, <2>1, <2>2, <3>1, PlaceNames
  <2>4. <<>> \o (<<>> \o queue) = queue /\ <<>> \o (<<>> \o Tail(queue)) = Tail(queue)
    BY <1>1, <1>2, NoItems
  <2>5. Append(batch["stop"], Head(queue)) \o Tail(queue) = batch["stop"] \o queue
    <3>1. Append(batch["stop"], Head(queue)) \o (Tail(queue) \o <<>>) = batch["stop"] \o (queue \o <<>>)
      <4>1. <<>> \in Seq(Items)
        OBVIOUS
      <4> QED
        BY <1>0, <1>1, <2>3, <4>1, MovedAlong
    <3>2. Tail(queue) \o <<>> = Tail(queue) /\ queue \o <<>> = queue
      BY <1>1, <1>2, NoItems
    <3> QED
      BY <3>1, <3>2
  <2>6. batchAccepted = handled \o (batch["run"] \o (batch["stop"] \o (buffer \o (Batch!HandSeq \o queue))))
    BY <1>0 DEF Batch!IInv, Batch!InOrder
  <2>7. batch["stop"] \o (buffer \o (Batch!HandSeq \o queue)) = batch["stop"] \o queue
    BY <2>2, <2>4
  <2>8. batch'["stop"] \o (buffer' \o (Batch!HandSeq' \o queue')) = batch["stop"] \o queue
    BY <1>0, <2>2, <2>3, <2>4, <2>5
  <2> QED
    BY <1>0, <2>3, <2>6, <2>7, <2>8, Zenon
<1>8. w \in Batch!Places /\ "queue" \in Batch!Places /\ w # "queue"
  BY PlaceNames
<1>9. IsMove(Batch!At, Batch!At', "queue", w) /\ Batch!At["queue"] # <<>>
  <2>1. \A v \in Batch!Writers : Batch!At[v] = batch[v] /\ Batch!At'[v] = batch'[v]
    BY <1>1, <1>5, PlaceNames DEF AtFacts
  <2>2. /\ Batch!At'["handled"] = Batch!At["handled"] /\ Batch!At'["hand"] = Batch!At["hand"]
        /\ Batch!At'["buffer"] = Batch!At["buffer"]
        /\ Batch!At["queue"] = queue /\ Batch!At'["queue"] = queue'
        /\ DOMAIN Batch!At = Batch!Places /\ DOMAIN Batch!At' = Batch!Places
    BY <1>0, <1>1, <1>5 DEF AtFacts, Batch!HandSeq
  <2>3. \A r \in Batch!Places : r \in Batch!Writers \/ r \in {"queue", "hand", "buffer", "handled"}
    BY PlaceNames
  <2> QED
    BY <1>0, <1>1, <1>3, <2>1, <2>2, <2>3 DEF IsMove
<1> QED
  BY <1>0, <1>4, <1>6, <1>7, <1>8, <1>9, BatchMove

\* Only writeBatch settles an item, and it settles each item it goes over.
LEMMA BatchSettles ==
    ASSUME Batch!IInv, Batch!Settled, [Batch!Next]_(Batch!vars)
    PROVE  Batch!Settled'
<1>1. ASSUME NEW w \in Batch!Writers, Batch!WriteBatch(w) PROVE Batch!Settled'
  <2> DEFINE x == Head(batch[w])
             n == Len(handled)
  <2>1. handled \in Seq(Items) /\ x \in Items /\ n \in Nat
    <3>1. batch[w] \in Seq(Items) /\ handled \in Seq(Items) /\ batch[w] # <<>>
      BY <1>1, BatchTypes DEF Batch!WriteBatch
    <3> QED
      BY <3>1, HeadAndTail
  <2>2. PICK f \in Batch!Fates : fate' = [fate EXCEPT ![x] = f]
    BY <1>1 DEF Batch!WriteBatch
  <2>3. handled' = Append(handled, x)
    BY <1>1 DEF Batch!WriteBatch
  <2> HIDE DEF x
  <2>4. Batch!ToSet(handled') = Batch!ToSet(handled) \cup {x}
    <3>1. /\ DOMAIN handled = 1 .. n /\ DOMAIN handled' = 1 .. n + 1
          /\ handled'[n + 1] = x /\ \A j \in 1 .. n : handled'[j] = handled[j]
      BY <2>1, <2>3, AppendIsJoin
    <3> HIDE DEF n
    <3>2. DOMAIN handled' = DOMAIN handled \cup {n + 1}
      BY <2>1, <3>1
    <3> QED
      BY <3>1, <3>2 DEF Batch!ToSet
  <2>5. f # "none" /\ fate \in [Items -> Batch!Fates \cup {"none"}]
    BY <2>2 DEF Batch!Fates, Batch!Settled
  <2> QED
    BY <2>1, <2>2, <2>4, <2>5 DEF Batch!Settled
<1>2. CASE UNCHANGED <<handled, fate>>
  BY <1>2 DEF Batch!Settled, Batch!ToSet
<1>3. (\E w \in Batch!Writers : Batch!WriteBatch(w)) \/ UNCHANGED <<handled, fate>>
  BY DEF Batch!Next, Batch!vars, Batch!Start, Batch!Enqueue, Batch!Run, Batch!Check, Batch!Pop, Batch!Put,
         Batch!Written, Batch!Flush, Batch!FlushSwap, Batch!FlushDrain, Batch!Drain, Batch!FlushDrained,
         Batch!FlushEnds, Batch!Stop, Batch!StopRunning, Batch!StopGoesOn, Batch!StopClose, Batch!StopJoin,
         Batch!StopDrain, Batch!StopDrained, Batch!StopEnds
<1> QED
  BY <1>1, <1>2, <1>3

\* What the places give of the accepted items.
LEMMA BatchSafe == Batch!IInv /\ Batch!Settled => ItemsSafe
<1> SUFFICES ASSUME Batch!IInv, Batch!Settled PROVE ItemsSafe
  OBVIOUS
<1>0. Batch!InTable \cup Batch!Counted = Batch!ToSet(handled)
  <2>1. \A i \in Items : i \in Batch!InTable \cup Batch!Counted <=> fate[i] # "none"
    <3>1. \A i \in Items : fate[i] \in {"written", "failed", "unanswered", "offline", "none"}
      BY DEF Batch!Settled, Batch!Fates
    <3> QED
      BY <3>1 DEF Batch!InTable, Batch!Counted
  <2>2. Batch!ToSet(handled) \subseteq Items
    BY BatchTypes DEF Batch!ToSet
  <2> QED
    BY <2>1, <2>2 DEF Batch!Settled, Batch!InTable, Batch!Counted
<1>1. AtFacts /\ Batch!Distinct(Batch!At) /\ Batch!Contents(Batch!At) = Batch!ToSet(batchAccepted)
  BY BatchTypes DEF Batch!IInv
<1>2. \A p, q \in Batch!Places : \A i \in DOMAIN Batch!At[p], j \in DOMAIN Batch!At[q] :
          Batch!At[p][i] = Batch!At[q][j] => p = q /\ i = j
  BY <1>1 DEF AtFacts, Batch!Distinct
<1>3. Batch!ToSet(Batch!HandSeq) = Batch!InHand
  BY DEF Batch!HandSeq, Batch!InHand, Batch!ToSet
<1>4. Batch!NeitherLostNorTwice
  <2>1. Batch!IsInjective(handled)
    <3>1. \A i, j \in DOMAIN handled : handled[i] = handled[j] => i = j
      <4>1. "handled" \in Batch!Places /\ Batch!At["handled"] = handled
        BY <1>1, PlaceNames DEF AtFacts
      <4> QED
        BY <1>2, <4>1
    <3> QED
      BY <3>1 DEF Batch!IsInjective
  <2> DEFINE T(p) == Batch!ToSet(Batch!At[p])
  <2>2. Batch!InMemory = UNION {T(p) : p \in Batch!Places \ {"handled"}}
    <3>1. Batch!Places \ {"handled"} = {"queue", "hand", "buffer", "run", "flush", "stop"}
      BY PlaceNames
    <3>2. Batch!InMemory = Batch!ToSet(queue) \cup Batch!ToSet(buffer) \cup Batch!ToSet(Batch!HandSeq)
              \cup (Batch!ToSet(batch["run"]) \cup Batch!ToSet(batch["flush"]) \cup Batch!ToSet(batch["stop"]))
      BY <1>3, PlaceNames DEF Batch!InMemory
    <3>3. /\ T("queue") = Batch!ToSet(queue) /\ T("hand") = Batch!ToSet(Batch!HandSeq)
          /\ T("buffer") = Batch!ToSet(buffer) /\ T("run") = Batch!ToSet(batch["run"])
          /\ T("flush") = Batch!ToSet(batch["flush"]) /\ T("stop") = Batch!ToSet(batch["stop"])
      BY <1>1 DEF AtFacts
    <3> HIDE DEF T
    <3> QED
      BY <3>1, <3>2, <3>3
  <2>3. Batch!ToSet(handled) = T("handled") /\ "handled" \in Batch!Places
    BY <1>1, PlaceNames DEF AtFacts
  <2>4. Batch!ToSet(handled) \cap Batch!InMemory = {}
    <3>1. \A p \in Batch!Places \ {"handled"} : T("handled") \cap T(p) = {}
      BY <1>2, <2>3 DEF Batch!ToSet
    <3> HIDE DEF T
    <3> QED
      BY <2>2, <2>3, <3>1
  <2>5. Batch!ToSet(batchAccepted) = Batch!ToSet(handled) \cup Batch!InMemory
    <3>1. Batch!Contents(Batch!At) = UNION {T(p) : p \in Batch!Places}
      BY <1>1 DEF AtFacts, Batch!Contents
    <3> HIDE DEF T
    <3> QED
      BY <1>1, <2>2, <2>3, <3>1
  <2> QED
    BY <1>0, <2>1, <2>4, <2>5 DEF Batch!NeitherLostNorTwice
<1>5. Batch!HandledInOrder
  <2> SUFFICES ASSUME ~flushed PROVE Batch!IsPrefix(handled, batchAccepted)
    BY DEF Batch!HandledInOrder
  <2> DEFINE u == batch["run"] \o (batch["stop"] \o (buffer \o (Batch!HandSeq \o queue)))
             m == Len(handled)
  <2>1. batchAccepted = handled \o u /\ u \in Seq(Items) /\ handled \in Seq(Items)
    <3>1. batchAccepted = handled \o u
      BY DEF Batch!IInv, Batch!InOrder
    <3> QED
      BY <3>1, BatchTypes, Zenon
  <2> HIDE DEF u
  <2>2. /\ m \in Nat /\ Len(u) \in Nat /\ Len(batchAccepted) = m + Len(u)
        /\ \A i \in 1 .. m + Len(u) : batchAccepted[i] = IF i <= m THEN handled[i] ELSE u[i - m]
    BY <2>1, ConcatProperties
  <2> HIDE DEF m
  <2>3. \A i \in 1 .. m : batchAccepted[i] = handled[i]
    BY <2>2
  <2>4. SubSeq(handled, 1, m) = SubSeq(batchAccepted, 1, m)
    <3>1. \A i \in 1 .. m : handled[i] \in Items
      BY <2>1 DEF m
    <3>2. /\ SubSeq(handled, 1, m) \in Seq(Items) /\ Len(SubSeq(handled, 1, m)) = IF 1 <= m THEN m - 1 + 1 ELSE 0
          /\ \A i \in 1 .. m - 1 + 1 : SubSeq(handled, 1, m)[i] = handled[1 + i - 1]
      BY <2>2, <3>1, SubSeqProperties
    <3>3. /\ SubSeq(batchAccepted, 1, m) \in Seq(Items) /\ Len(SubSeq(batchAccepted, 1, m)) = IF 1 <= m THEN m - 1 + 1 ELSE 0
          /\ \A i \in 1 .. m - 1 + 1 : SubSeq(batchAccepted, 1, m)[i] = batchAccepted[1 + i - 1]
      BY <2>2, <2>3, <3>1, SubSeqProperties
    <3> DEFINE a == SubSeq(handled, 1, m)
               b == SubSeq(batchAccepted, 1, m)
    <3> HIDE DEF a, b
    <3>4. a \in Seq(Items) /\ b \in Seq(Items) /\ Len(a) = m /\ Len(b) = m
      BY <2>2, <3>2, <3>3 DEF a, b
    <3>5. \A i \in 1 .. m : a[i] = b[i]
      BY <2>2, <2>3, <3>2, <3>3 DEF a, b
    <3>6. a = b
      BY <3>4, <3>5, SeqEqual
    <3> QED
      BY <3>6 DEF a, b
  <2>5. m <= Len(batchAccepted)
    BY <2>2
  <2> QED
    BY <2>4, <2>5 DEF Batch!IsPrefix, m
<1>6. Batch!StopLeavesNothing
  <2> SUFFICES ASSUME stopper = "done"
               PROVE  Batch!ToSet(batchAccepted) = Batch!InTable \cup Batch!Counted \cup Batch!ToSet(batch["flush"])
    BY DEF Batch!StopLeavesNothing
  <2>1. queue = <<>> /\ buffer = <<>> /\ thread \notin {"put", "write"}
    BY DEF Batch!IInv, Batch!Stopped, Batch!Joined
  <2>2. hand = Nothing /\ batch["run"] = <<>> /\ batch["stop"] = <<>>
    BY <2>1 DEF Batch!IInv, Batch!Owned
  <2>3. Batch!ToSet(<<>>) = {} /\ Batch!InHand = {}
    BY <2>2 DEF Batch!ToSet, Batch!InHand
  <2>4. Batch!InMemory = Batch!ToSet(batch["flush"])
    BY <2>1, <2>2, <2>3, PlaceNames DEF Batch!InMemory
  <2> QED
    BY <1>4, <2>4 DEF Batch!NeitherLostNorTwice
<1> QED
  BY <1>4, <1>5, <1>6 DEF ItemsSafe, Batch!ItemsSafe

(* BatchWriter writes each item it accepted once, or counts it as an error *)
(* or an offline drop, in the order in which they were accepted unless     *)
(* flush is called beside its thread, and stop leaves none behind, for     *)
(* every queue and batch size.                                             *)
THEOREM WriterLosesNothing == Batch!Spec => []ItemsSafe
<1>1. Batch!IInv /\ [Batch!Next]_(Batch!vars) => Batch!IInv'
  <2> SUFFICES ASSUME Batch!IInv, [Batch!Next]_(Batch!vars) PROVE Batch!IInv'
    OBVIOUS
  <2>1. ASSUME Batch!FlushDrain \/ Batch!StopDrain PROVE Batch!IInv'
    <3>1. CASE Batch!FlushDrain
      BY <3>1, BatchDrain DEF Batch!FlushDrain
    <3>2. CASE Batch!StopDrain
      BY <3>2, BatchDrain DEF Batch!StopDrain
    <3> QED
      BY <2>1, <3>1, <3>2
  <2> QED
    BY <2>1, BatchControl, BatchEnqueue, BatchPop, BatchPut, BatchWrite, BatchFlushSwap, BatchStopJoin, BatchUnchanged
       DEF Batch!Next, Batch!Run, Batch!Flush, Batch!Stop, Batch!StopGoesOn
<1>2. Batch!Init => Batch!Settled
  BY DEF Batch!Init, Batch!Settled, Batch!ToSet
<1>3. Batch!IInv /\ Batch!Settled /\ [Batch!Next]_(Batch!vars) => Batch!Settled'
  BY BatchSettles
<1> QED
  BY <1>1, <1>2, <1>3, BatchInit, BatchSafe, PTL DEF Batch!Spec

-----------------------------------------------------------------------------

(* MpscQueue.                                                              *)

(* The constructor makes at least two cells.                               *)
MpscRingOK == Cells \in Nat /\ Cells >= 2

MpscItems == MpscValues \cup {NoValue}
MpscClaimed(p) == push[p].pc \in {"write", "publish"}
MpscOwned(k) == \E p \in MpscProducers : MpscClaimed(p) /\ push[p].pos = k

MpscTypes ==
    /\ mpscHead \in Nat /\ mpscTail \in Nat
    /\ sequence \in [0 .. Cells - 1 -> Nat]
    /\ data \in [0 .. Cells - 1 -> MpscItems]
    /\ push \in [MpscProducers -> [pc : {"idle", "compare", "swap", "write", "publish"},
                               pos : Nat, item : MpscItems]]
    /\ pop \in {"idle", "free", "move"}
    /\ mpscItem \in MpscItems

(* The positions in use are at most one lap, and the consumer holds the    *)
(* oldest of them between its two stores.                                  *)
MpscWindow ==
    /\ Mpsc!First <= mpscTail /\ mpscTail <= Mpsc!First + Cells
    /\ pop = "free" => mpscHead < mpscTail /\ mpscItem \in MpscValues

(* A producer that has won the swap is alone with its cell until it        *)
(* publishes.                                                              *)
MpscClaimsOK ==
    /\ \A p \in MpscProducers : MpscClaimed(p) =>
          /\ Mpsc!First <= push[p].pos /\ push[p].pos < mpscTail
          /\ pop = "free" => push[p].pos # mpscHead
          /\ sequence[Mpsc!Cell(push[p].pos)] = push[p].pos
          /\ push[p].item \in MpscValues
    /\ \A p, q \in MpscProducers :
          MpscClaimed(p) /\ MpscClaimed(q) /\ push[p].pos = push[q].pos => p = q
    /\ \A p \in MpscProducers :
          push[p].pc = "publish" => data[Mpsc!Cell(push[p].pos)] = push[p].item

(* What no producer owns has been published, or is free for this lap.      *)
MpscCellsOK ==
    /\ \A k \in Nat : Mpsc!First <= k /\ k < mpscTail /\ ~MpscOwned(k) =>
          /\ sequence[Mpsc!Cell(k)] = k + 1
          /\ (pop = "free" /\ k = mpscHead) \/ data[Mpsc!Cell(k)] \in MpscValues
    /\ \A k \in Nat : mpscTail <= k /\ k < Mpsc!First + Cells => sequence[Mpsc!Cell(k)] = k

(* A producer that found its cell free still finds it free if the tail has *)
(* not moved.                                                              *)
MpscTriesOK ==
    \A p \in MpscProducers :
        /\ push[p].pc \in {"compare", "swap"} => push[p].pos <= mpscTail /\ push[p].item \in MpscValues
        /\ push[p].pc = "swap" /\ push[p].pos = mpscTail => sequence[Mpsc!Cell(mpscTail)] = mpscTail

MpscIInv == MpscTypes /\ MpscWindow /\ MpscClaimsOK /\ MpscCellsOK /\ MpscTriesOK /\ Mpsc!NeverUnwritten

-----------------------------------------------------------------------------
(* Cells of positions.                                                     *)

LEMMA MpscCellRange == MpscRingOK => \A k \in Nat : Mpsc!Cell(k) \in 0 .. Cells - 1
  BY DEF MpscRingOK, Mpsc!Cell

(* Positions less than a lap apart have different cells.                   *)
LEMMA MpscCellsDiffer ==
    ASSUME MpscRingOK, NEW a \in Nat, NEW b \in Nat, a < b, b < a + Cells
    PROVE  Mpsc!Cell(a) # Mpsc!Cell(b)
<1> DEFINE qa == a \div Cells
           qb == b \div Cells
<1>1. /\ a = Cells * qa + (a % Cells) /\ b = Cells * qb + (b % Cells)
      /\ qa \in Int /\ qb \in Int /\ a % Cells \in Int /\ b % Cells \in Int
  BY DEF MpscRingOK
<1>2. SUFFICES ASSUME a % Cells = b % Cells PROVE FALSE
  BY DEF Mpsc!Cell
<1>3. b - a = Cells * (qb - qa)
  <2> HIDE DEF qa, qb
  <2> QED
    BY <1>1, <1>2 DEF MpscRingOK
<1>4. qb - qa <= 0 \/ qb - qa >= 1
  BY <1>1
<1>5. qb - qa <= 0 => Cells * (qb - qa) <= 0
  <2> HIDE DEF qa, qb
  <2> QED
    BY <1>1 DEF MpscRingOK
<1>6. qb - qa >= 1 => Cells * (qb - qa) >= Cells
  <2> HIDE DEF qa, qb
  <2> QED
    BY <1>1 DEF MpscRingOK
<1> HIDE DEF qa, qb
<1> QED
  BY <1>1, <1>3, <1>4, <1>5, <1>6 DEF MpscRingOK

(* A position and the one a lap later share a cell.                        *)
LEMMA MpscCellLap ==
    ASSUME MpscRingOK, NEW k \in Nat
    PROVE  Mpsc!Cell(k + Cells) = Mpsc!Cell(k)
<1> DEFINE q == k \div Cells
           s == (k + Cells) \div Cells
<1>1. /\ k = Cells * q + (k % Cells) /\ k + Cells = Cells * s + ((k + Cells) % Cells)
      /\ q \in Int /\ s \in Int
      /\ k % Cells \in 0 .. Cells - 1 /\ (k + Cells) % Cells \in 0 .. Cells - 1
  BY DEF MpscRingOK
<1> HIDE DEF q, s
<1> DEFINE d == s - q - 1
<1>2. Cells * d = (k % Cells) - ((k + Cells) % Cells)
  <2>1. Cells * (s - q - 1) = Cells * s - Cells * q - Cells
    BY <1>1 DEF MpscRingOK
  <2> QED
    BY <1>1, <2>1 DEF MpscRingOK
<1>3. d \in Int /\ (d >= 1 \/ d <= -1 \/ d = 0)
  BY <1>1
<1> HIDE DEF d
<1>4. d >= 1 => Cells * d >= Cells
  BY <1>3 DEF MpscRingOK
<1>5. d <= -1 => Cells * d <= -Cells
  BY <1>3 DEF MpscRingOK
<1>6. d = 0 => Cells * d = 0
  BY DEF MpscRingOK
<1> QED
  BY <1>1, <1>2, <1>3, <1>4, <1>5, <1>6 DEF MpscRingOK, Mpsc!Cell

-----------------------------------------------------------------------------
(* The invariant is inductive.                                             *)

LEMMA MpscInitIInv == MpscRingOK /\ Mpsc!Init => MpscIInv
<1> SUFFICES ASSUME MpscRingOK, Mpsc!Init PROVE MpscIInv
  OBVIOUS
<1>1. MpscTypes
  BY DEF MpscRingOK, Mpsc!Init, MpscTypes, MpscItems, Mpsc!Resting
<1>2. Mpsc!First = 0 /\ \A p \in MpscProducers : push[p].pc = "idle"
  BY DEF Mpsc!Init, Mpsc!First, Mpsc!Resting
<1>3. \A k \in Nat : k < Cells => Mpsc!Cell(k) = k /\ sequence[k] = k
  BY DEF MpscRingOK, Mpsc!Init, Mpsc!Cell
<1>4. MpscWindow /\ MpscClaimsOK /\ MpscTriesOK /\ Mpsc!NeverUnwritten
  BY <1>2 DEF MpscRingOK, Mpsc!Init, MpscWindow, MpscClaimsOK, MpscTriesOK, Mpsc!NeverUnwritten, MpscClaimed
<1>5. MpscCellsOK
  <2>1. mpscHead = 0 /\ mpscTail = 0 /\ Cells \in Nat
    BY DEF MpscRingOK, Mpsc!Init
  <2> QED
    BY <1>2, <1>3, <2>1 DEF MpscCellsOK
<1> QED
  BY <1>1, <1>4, <1>5 DEF MpscIInv

(* A cell that is free at the tail is within the lap.                      *)
LEMMA MpscRoom ==
    ASSUME MpscRingOK, MpscIInv, sequence[Mpsc!Cell(mpscTail)] = mpscTail
    PROVE  mpscTail < Mpsc!First + Cells
<1>1. SUFFICES ASSUME mpscTail = Mpsc!First + Cells PROVE FALSE
  BY DEF MpscRingOK, MpscIInv, MpscTypes, MpscWindow, Mpsc!First
<1>2. Mpsc!First \in Nat /\ Mpsc!First < mpscTail /\ Cells >= 2 /\ Cells \in Nat /\ mpscTail \in Nat
  BY <1>1 DEF MpscRingOK, MpscIInv, MpscTypes, Mpsc!First
<1>3. Mpsc!Cell(mpscTail) = Mpsc!Cell(Mpsc!First)
  BY <1>1, <1>2, MpscCellLap
<1>4. MpscOwned(Mpsc!First) => sequence[Mpsc!Cell(Mpsc!First)] = Mpsc!First
  BY DEF MpscOwned, MpscIInv, MpscClaimsOK
<1>5. ~MpscOwned(Mpsc!First) => sequence[Mpsc!Cell(Mpsc!First)] = Mpsc!First + 1
  BY <1>2 DEF MpscIInv, MpscCellsOK
<1> HIDE DEF Mpsc!First
<1> QED
  BY <1>1, <1>2, <1>3, <1>4, <1>5

(* Steps of producers that own no cell, before and after.                  *)
LEMMA MpscQuiet ==
    ASSUME MpscIInv, UNCHANGED <<mpscHead, mpscTail, sequence, data, pop, mpscItem, mpscOut>>,
           \A q \in MpscProducers : MpscClaimed(q)' <=> MpscClaimed(q),
           \A q \in MpscProducers : MpscClaimed(q) => push'[q] = push[q]
    PROVE  MpscWindow' /\ MpscClaimsOK' /\ MpscCellsOK' /\ Mpsc!NeverUnwritten'
<1>1. Mpsc!First' = Mpsc!First
  BY DEF Mpsc!First
<1>2. \A k : MpscOwned(k)' <=> MpscOwned(k)
  BY DEF MpscOwned
<1>3. \A q \in MpscProducers : push'[q].pc = "publish" => push[q].pc = "publish" /\ push'[q] = push[q]
  BY DEF MpscClaimed
<1>4. MpscWindow' /\ Mpsc!NeverUnwritten'
  BY <1>1 DEF MpscIInv, MpscWindow, Mpsc!NeverUnwritten
<1>5. MpscCellsOK'
  BY <1>1, <1>2 DEF MpscIInv, MpscCellsOK, Mpsc!Cell
<1>6. MpscClaimsOK'
  BY <1>1, <1>3 DEF MpscIInv, MpscClaimsOK, Mpsc!Cell
<1> QED
  BY <1>4, <1>5, <1>6

LEMMA MpscLoadIInv ==
    ASSUME MpscRingOK, MpscIInv, NEW p \in MpscProducers, NEW x \in MpscValues, Mpsc!PushLoad(p, x)
    PROVE  MpscIInv'
<1>1. /\ push'[p] = [pc |-> "compare", pos |-> mpscTail, item |-> x]
      /\ push[p].pc = "idle"
      /\ \A q \in MpscProducers : q # p => push'[q] = push[q]
  BY DEF Mpsc!PushLoad, MpscIInv, MpscTypes
<1>2. \A q \in MpscProducers : /\ MpscClaimed(q)' <=> MpscClaimed(q)
                               /\ MpscClaimed(q) => push'[q] = push[q]
  BY <1>1 DEF MpscClaimed
<1>3. MpscWindow' /\ MpscClaimsOK' /\ MpscCellsOK' /\ Mpsc!NeverUnwritten'
  BY <1>2, MpscQuiet DEF Mpsc!PushLoad
<1>4. MpscTypes'
  BY DEF Mpsc!PushLoad, MpscIInv, MpscTypes, MpscItems
<1>5. MpscTriesOK'
  BY <1>1 DEF Mpsc!PushLoad, MpscIInv, MpscTypes, MpscTriesOK, Mpsc!Cell
<1> QED
  BY <1>3, <1>4, <1>5 DEF MpscIInv

LEMMA MpscCompareIInv ==
    ASSUME MpscRingOK, MpscIInv, NEW p \in MpscProducers, Mpsc!PushCompare(p)
    PROVE  MpscIInv'
<1>0. push[p].pos \in Nat /\ push[p].pos <= mpscTail /\ push[p].item \in MpscValues /\ mpscTail \in Nat
  BY DEF Mpsc!PushCompare, MpscIInv, MpscTypes, MpscTriesOK
<1>1. /\ push[p].pc = "compare"
      /\ \/ Mpsc!Free(push[p].pos) /\ push'[p] = [push[p] EXCEPT !.pc = "swap"]
         \/ push'[p] = Mpsc!Resting
         \/ push'[p] = [push[p] EXCEPT !.pos = mpscTail]
      /\ \A q \in MpscProducers : q # p => push'[q] = push[q]
  BY DEF Mpsc!PushCompare, MpscIInv, MpscTypes
<1>2. /\ push'[p].pc \in {"idle", "compare", "swap"}
      /\ push'[p].pc # "idle" => push'[p].pos \in Nat /\ push'[p].pos <= mpscTail /\ push'[p].item \in MpscValues
      /\ push'[p].pc = "swap" => push'[p].pos = push[p].pos /\ Mpsc!Free(push[p].pos)
  BY <1>0, <1>1 DEF Mpsc!Resting, MpscIInv, MpscTypes
<1>3. \A q \in MpscProducers : /\ MpscClaimed(q)' <=> MpscClaimed(q)
                               /\ MpscClaimed(q) => push'[q] = push[q]
  BY <1>1, <1>2 DEF MpscClaimed
<1>4. MpscWindow' /\ MpscClaimsOK' /\ MpscCellsOK' /\ Mpsc!NeverUnwritten'
  BY <1>3, MpscQuiet DEF Mpsc!PushCompare
<1>5. MpscTypes'
  BY DEF Mpsc!PushCompare, MpscIInv, MpscTypes, MpscItems, Mpsc!Resting
<1>6. MpscTriesOK'
  BY <1>1, <1>2 DEF Mpsc!PushCompare, MpscIInv, MpscTriesOK, Mpsc!Cell, Mpsc!Free
<1> QED
  BY <1>4, <1>5, <1>6 DEF MpscIInv

LEMMA MpscSwapIInv ==
    ASSUME MpscRingOK, MpscIInv, NEW p \in MpscProducers, Mpsc!PushSwap(p)
    PROVE  MpscIInv'
<1>0. /\ push[p].pos \in Nat /\ push[p].pos <= mpscTail /\ push[p].item \in MpscValues /\ mpscTail \in Nat
      /\ push[p].pc = "swap" /\ Mpsc!First \in Nat
  BY DEF Mpsc!PushSwap, MpscIInv, MpscTypes, MpscTriesOK, Mpsc!First
<1>1. CASE ~Mpsc!Swaps(p)
  <2>1. /\ push'[p].pc = "compare" /\ push'[p].pos = mpscTail /\ push'[p].item = push[p].item
        /\ \A q \in MpscProducers : q # p => push'[q] = push[q]
        /\ UNCHANGED <<mpscHead, mpscTail, sequence, data, pop, mpscItem, mpscOut>>
    BY <1>1 DEF Mpsc!PushSwap, MpscIInv, MpscTypes
  <2>2. \A q \in MpscProducers : /\ MpscClaimed(q)' <=> MpscClaimed(q)
                                 /\ MpscClaimed(q) => push'[q] = push[q]
    BY <1>0, <2>1 DEF MpscClaimed
  <2>3. MpscWindow' /\ MpscClaimsOK' /\ MpscCellsOK' /\ Mpsc!NeverUnwritten'
    BY <2>1, <2>2, MpscQuiet
  <2>4. MpscTypes'
    BY <1>1 DEF Mpsc!PushSwap, MpscIInv, MpscTypes
  <2>5. MpscTriesOK'
    BY <1>0, <2>1 DEF MpscIInv, MpscTypes, MpscTriesOK, Mpsc!Cell
  <2> QED
    BY <2>3, <2>4, <2>5 DEF MpscIInv
<1>2. CASE Mpsc!Swaps(p)
  <2>1. /\ push'[p].pc = "write" /\ push'[p].pos = mpscTail /\ push'[p].item = push[p].item
        /\ \A q \in MpscProducers : q # p => push'[q] = push[q]
        /\ UNCHANGED <<mpscHead, sequence, data, pop, mpscItem, mpscOut>>
        /\ mpscTail' = mpscTail + 1 /\ push[p].pos = mpscTail
    BY <1>2 DEF Mpsc!PushSwap, Mpsc!Swaps, MpscIInv, MpscTypes
  <2>2. sequence[Mpsc!Cell(mpscTail)] = mpscTail /\ mpscTail < Mpsc!First + Cells
    BY <1>0, <2>1, MpscRoom DEF MpscIInv, MpscTriesOK
  <2>3. Mpsc!First' = Mpsc!First /\ Mpsc!First <= mpscTail
    BY <2>1 DEF Mpsc!First, MpscIInv, MpscWindow
  <2>4. \A q \in MpscProducers : /\ MpscClaimed(q)' <=> (q = p \/ MpscClaimed(q))
                                 /\ MpscClaimed(q) => q # p /\ push'[q] = push[q] /\ push[q].pos < mpscTail
    BY <1>0, <2>1 DEF MpscClaimed, MpscIInv, MpscClaimsOK
  <2>5. MpscTypes'
    <3>1. push' = [push EXCEPT ![p].pc = "write"] /\ mpscTail' \in Nat
      BY <1>0, <1>2, <2>1 DEF Mpsc!PushSwap
    <3>2. push' \in [MpscProducers -> [pc : {"idle", "compare", "swap", "write", "publish"},
                                   pos : Nat, item : MpscItems]]
      BY <3>1 DEF MpscIInv, MpscTypes
    <3> QED
      BY <2>1, <3>1, <3>2 DEF MpscIInv, MpscTypes
  <2>6. MpscWindow'
    BY <1>0, <2>1, <2>2, <2>3 DEF MpscIInv, MpscTypes, MpscWindow, MpscRingOK
  <2>7. MpscClaimsOK'
    <3>1. \A q \in MpscProducers : MpscClaimed(q)' =>
             /\ Mpsc!First' <= push'[q].pos /\ push'[q].pos < mpscTail'
             /\ pop' = "free" => push'[q].pos # mpscHead'
             /\ sequence'[Mpsc!Cell(push'[q].pos)] = push'[q].pos
             /\ push'[q].item \in MpscValues
      <4>1. \A q \in MpscProducers : MpscClaimed(q) => push[q].pos < mpscTail + 1
        BY <1>0, <2>4 DEF MpscIInv, MpscTypes
      <4>2. pop = "free" => mpscTail # mpscHead
        BY <1>0 DEF MpscIInv, MpscTypes, MpscWindow
      <4> QED
        BY <1>0, <2>1, <2>2, <2>3, <2>4, <4>1, <4>2 DEF MpscIInv, MpscClaimsOK
    <3>2. \A q, r \in MpscProducers :
             MpscClaimed(q)' /\ MpscClaimed(r)' /\ push'[q].pos = push'[r].pos => q = r
      <4>1. \A q \in MpscProducers : MpscClaimed(q) => push[q].pos # mpscTail
        BY <1>0, <2>4 DEF MpscIInv, MpscTypes
      <4> QED
        BY <2>1, <2>4, <4>1 DEF MpscIInv, MpscClaimsOK
    <3>3. \A q \in MpscProducers :
             push'[q].pc = "publish" => data'[Mpsc!Cell(push'[q].pos)] = push'[q].item
      BY <2>1 DEF MpscIInv, MpscClaimsOK
    <3> QED
      BY <3>1, <3>2, <3>3 DEF MpscClaimsOK, Mpsc!Cell
  <2>8. MpscCellsOK'
    <3>1. \A k : MpscOwned(k)' <=> (k = mpscTail \/ MpscOwned(k))
      BY <2>1, <2>4 DEF MpscOwned
    <3>2. \A k \in Nat : /\ k < mpscTail + 1 /\ k # mpscTail => k < mpscTail
                         /\ mpscTail + 1 <= k => mpscTail <= k
      BY <1>0
    <3> QED
      BY <2>1, <2>3, <3>1, <3>2 DEF MpscIInv, MpscCellsOK, Mpsc!Cell
  <2>9. MpscTriesOK'
    <3>1. \A q \in MpscProducers : push[q].pos \in Nat /\ (push[q].pos <= mpscTail => push[q].pos <= mpscTail + 1 /\ push[q].pos # mpscTail + 1)
      BY <1>0 DEF MpscIInv, MpscTypes
    <3> QED
      BY <2>1, <3>1 DEF MpscIInv, MpscTriesOK, Mpsc!Cell
  <2>10. Mpsc!NeverUnwritten'
    BY <2>1 DEF MpscIInv, Mpsc!NeverUnwritten
  <2> QED
    BY <2>5, <2>6, <2>7, <2>8, <2>9, <2>10 DEF MpscIInv
<1> QED
  BY <1>1, <1>2

(* A producer writes only its own cell.                                    *)
LEMMA MpscWriteIInv ==
    ASSUME MpscRingOK, MpscIInv, NEW p \in MpscProducers, Mpsc!PushWrite(p)
    PROVE  MpscIInv'
<1>0. /\ push[p].pos \in Nat /\ push[p].item \in MpscValues /\ mpscTail \in Nat /\ Mpsc!First \in Nat
      /\ Mpsc!First <= push[p].pos /\ push[p].pos < mpscTail /\ MpscClaimed(p) /\ Cells \in Nat
      /\ mpscTail <= Mpsc!First + Cells /\ Mpsc!Cell(push[p].pos) \in 0 .. Cells - 1
  BY MpscCellRange DEF Mpsc!PushWrite, MpscIInv, MpscTypes, MpscClaimsOK, MpscClaimed, Mpsc!First, MpscRingOK, MpscWindow
<1>1. /\ push'[p].pc = "publish" /\ push'[p].pos = push[p].pos /\ push'[p].item = push[p].item
      /\ \A q \in MpscProducers : q # p => push'[q] = push[q]
      /\ UNCHANGED <<mpscHead, mpscTail, sequence, pop, mpscItem, mpscOut>>
  BY DEF Mpsc!PushWrite, MpscIInv, MpscTypes
<1>2. \A k \in Nat : Mpsc!First <= k /\ k < mpscTail /\ k # push[p].pos => Mpsc!Cell(k) # Mpsc!Cell(push[p].pos)
  <2> SUFFICES ASSUME NEW k \in Nat, Mpsc!First <= k, k < mpscTail, k # push[p].pos
               PROVE Mpsc!Cell(k) # Mpsc!Cell(push[p].pos)
    OBVIOUS
  <2>1. CASE k < push[p].pos
    <3>1. push[p].pos < k + Cells
      BY <1>0
    <3> QED
      BY <1>0, <2>1, <3>1, MpscCellsDiffer
  <2>2. CASE push[p].pos < k
    <3>1. k < push[p].pos + Cells
      BY <1>0
    <3> QED
      BY <1>0, <2>2, <3>1, MpscCellsDiffer
  <2> QED
    BY <1>0, <2>1, <2>2
<1>3. /\ data' \in [0 .. Cells - 1 -> MpscItems]
      /\ data'[Mpsc!Cell(push[p].pos)] = push[p].item
      /\ \A k \in Nat : Mpsc!First <= k /\ k < mpscTail /\ k # push[p].pos => data'[Mpsc!Cell(k)] = data[Mpsc!Cell(k)]
  BY <1>0, <1>2, MpscCellRange DEF Mpsc!PushWrite, MpscIInv, MpscTypes, MpscItems
<1>4. Mpsc!First' = Mpsc!First
  BY <1>1 DEF Mpsc!First
<1>5. \A q \in MpscProducers : /\ MpscClaimed(q)' <=> MpscClaimed(q)
                               /\ push'[q].pos = push[q].pos /\ push'[q].item = push[q].item
  BY <1>0, <1>1 DEF MpscClaimed
<1>6. MpscTypes'
  BY <1>3 DEF Mpsc!PushWrite, MpscIInv, MpscTypes
<1>7. MpscWindow' /\ Mpsc!NeverUnwritten'
  BY <1>1, <1>4 DEF MpscIInv, MpscWindow, Mpsc!NeverUnwritten
<1>8. MpscClaimsOK'
  <2>1. /\ \A q \in MpscProducers : MpscClaimed(q)' =>
          /\ Mpsc!First' <= push'[q].pos /\ push'[q].pos < mpscTail'
          /\ pop' = "free" => push'[q].pos # mpscHead'
          /\ sequence'[Mpsc!Cell(push'[q].pos)] = push'[q].pos
          /\ push'[q].item \in MpscValues
        /\ \A q, r \in MpscProducers :
          MpscClaimed(q)' /\ MpscClaimed(r)' /\ push'[q].pos = push'[r].pos => q = r
    BY <1>1, <1>4, <1>5 DEF MpscIInv, MpscClaimsOK
  <2>2. ASSUME NEW q \in MpscProducers, push'[q].pc = "publish"
        PROVE  data'[Mpsc!Cell(push'[q].pos)] = push'[q].item
    <3>1. CASE q = p
      BY <1>1, <1>3, <3>1
    <3>2. CASE q # p
      <4>1. MpscClaimed(q) /\ push[q].pos \in Nat /\ Mpsc!First <= push[q].pos /\ push[q].pos < mpscTail
        BY <1>1, <2>2, <3>2 DEF MpscClaimed, MpscIInv, MpscClaimsOK, MpscTypes
      <4>2. push[q].pos # push[p].pos
        BY <1>0, <3>2, <4>1 DEF MpscIInv, MpscClaimsOK
      <4> QED
        BY <1>1, <1>3, <2>2, <3>2, <4>1, <4>2 DEF MpscIInv, MpscClaimsOK
    <3> QED
      BY <3>1, <3>2
  <2> QED
    BY <2>1, <2>2 DEF MpscClaimsOK, Mpsc!Cell
<1>9. MpscCellsOK'
  <2>1. \A k : MpscOwned(k)' <=> MpscOwned(k)
    BY <1>5 DEF MpscOwned
  <2>2. MpscOwned(push[p].pos)
    BY <1>0 DEF MpscOwned
  <2> QED
    BY <1>1, <1>3, <1>4, <2>1, <2>2 DEF MpscIInv, MpscCellsOK, Mpsc!Cell
<1>10. MpscTriesOK'
  BY <1>1 DEF MpscIInv, MpscTriesOK, Mpsc!Cell
<1> QED
  BY <1>6, <1>7, <1>8, <1>9, <1>10 DEF MpscIInv

(* Publishing a cell changes no other cell of the lap.                     *)
LEMMA MpscPublishIInv ==
    ASSUME MpscRingOK, MpscIInv, NEW p \in MpscProducers, Mpsc!PushPublish(p)
    PROVE  MpscIInv'
<1> DEFINE at == push[p].pos
<1>0. /\ at \in Nat /\ push[p].item \in MpscValues /\ mpscTail \in Nat /\ Mpsc!First \in Nat
      /\ Mpsc!First <= at /\ at < mpscTail /\ MpscClaimed(p) /\ Cells \in Nat
      /\ mpscTail <= Mpsc!First + Cells /\ Mpsc!Cell(at) \in 0 .. Cells - 1
      /\ data[Mpsc!Cell(at)] = push[p].item /\ sequence[Mpsc!Cell(at)] = at
  <2>1. push[p].pc = "publish" /\ MpscClaimed(p)
    BY DEF Mpsc!PushPublish, MpscClaimed
  <2>2. at \in Nat /\ mpscTail \in Nat /\ Mpsc!First \in Nat /\ Cells \in Nat
    BY DEF MpscIInv, MpscTypes, Mpsc!First, MpscRingOK
  <2>3. /\ push[p].item \in MpscValues /\ Mpsc!First <= at /\ at < mpscTail
        /\ data[Mpsc!Cell(at)] = push[p].item /\ sequence[Mpsc!Cell(at)] = at
    BY <2>1 DEF MpscIInv, MpscClaimsOK
  <2>4. mpscTail <= Mpsc!First + Cells /\ Mpsc!Cell(at) \in 0 .. Cells - 1
    BY <2>2, MpscCellRange DEF MpscIInv, MpscWindow
  <2> QED
    BY <2>1, <2>2, <2>3, <2>4
<1>1. /\ push'[p] = Mpsc!Resting
      /\ \A q \in MpscProducers : q # p => push'[q] = push[q]
      /\ UNCHANGED <<mpscHead, mpscTail, data, pop, mpscItem, mpscOut>>
      /\ sequence' = [sequence EXCEPT ![Mpsc!Cell(at)] = at + 1]
  BY DEF Mpsc!PushPublish, MpscIInv, MpscTypes
<1> HIDE DEF at
<1>2. ASSUME NEW k \in Nat, Mpsc!First <= k, k < Mpsc!First + Cells, k # at
      PROVE  Mpsc!Cell(k) # Mpsc!Cell(at)
  <2>1. CASE k < at
    <3>1. at < k + Cells
      BY <1>0, <1>2
    <3> QED
      BY <1>0, <2>1, <3>1, MpscCellsDiffer
  <2>2. CASE at < k
    <3>1. k < at + Cells
      BY <1>0, <1>2
    <3> QED
      BY <1>0, <2>2, <3>1, MpscCellsDiffer
  <2> QED
    BY <1>0, <1>2, <2>1, <2>2
<1>3. /\ sequence' \in [0 .. Cells - 1 -> Nat]
      /\ sequence'[Mpsc!Cell(at)] = at + 1
      /\ \A k \in Nat : Mpsc!First <= k /\ k < Mpsc!First + Cells /\ k # at =>
             sequence'[Mpsc!Cell(k)] = sequence[Mpsc!Cell(k)]
  <2>1. sequence \in [0 .. Cells - 1 -> Nat] /\ at + 1 \in Nat
    BY <1>0 DEF MpscIInv, MpscTypes
  <2>2. \A k \in Nat : Mpsc!Cell(k) \in 0 .. Cells - 1
    BY MpscCellRange
  <2> QED
    BY <1>0, <1>1, <1>2, <2>1, <2>2
<1>4. Mpsc!First' = Mpsc!First
  BY <1>1 DEF Mpsc!First
<1>5. \A q \in MpscProducers : MpscClaimed(q)' <=> MpscClaimed(q) /\ q # p
  BY <1>1 DEF MpscClaimed, Mpsc!Resting
<1>6. MpscTypes'
  <2>1. push' \in [MpscProducers -> [pc : {"idle", "compare", "swap", "write", "publish"},
                                   pos : Nat, item : MpscItems]]
    BY DEF Mpsc!PushPublish, MpscIInv, MpscTypes, Mpsc!Resting, MpscItems
  <2> QED
    BY <1>1, <1>3, <2>1 DEF MpscIInv, MpscTypes
<1>7. MpscWindow' /\ Mpsc!NeverUnwritten'
  BY <1>1, <1>4 DEF MpscIInv, MpscWindow, Mpsc!NeverUnwritten
<1>8. MpscClaimsOK'
  <2>1. ASSUME NEW q \in MpscProducers, MpscClaimed(q)'
        PROVE /\ Mpsc!First' <= push'[q].pos /\ push'[q].pos < mpscTail'
              /\ pop' = "free" => push'[q].pos # mpscHead'
              /\ sequence'[Mpsc!Cell(push'[q].pos)] = push'[q].pos
              /\ push'[q].item \in MpscValues
    <3>1. q # p /\ MpscClaimed(q) /\ push'[q] = push[q] /\ push[q].pos \in Nat
      BY <1>1, <1>5, <2>1 DEF MpscIInv, MpscTypes
    <3>2. push[q].pos # at
      BY <1>0, <3>1 DEF MpscIInv, MpscClaimsOK, at
    <3>3. Mpsc!First <= push[q].pos /\ push[q].pos < mpscTail /\ push[q].pos < Mpsc!First + Cells
      BY <1>0, <3>1 DEF MpscIInv, MpscClaimsOK
    <3> QED
      BY <1>1, <1>3, <1>4, <3>1, <3>2, <3>3 DEF MpscIInv, MpscClaimsOK
  <2>2. \A q, r \in MpscProducers :
          MpscClaimed(q)' /\ MpscClaimed(r)' /\ push'[q].pos = push'[r].pos => q = r
    BY <1>1, <1>5 DEF MpscIInv, MpscClaimsOK
  <2>3. \A q \in MpscProducers :
          push'[q].pc = "publish" => data'[Mpsc!Cell(push'[q].pos)] = push'[q].item
    BY <1>1 DEF MpscIInv, MpscClaimsOK, Mpsc!Resting
  <2> QED
    BY <2>1, <2>2, <2>3 DEF MpscClaimsOK, Mpsc!Cell
<1>9. MpscCellsOK'
  <2>1. \A k : MpscOwned(k)' <=> MpscOwned(k) /\ k # at
    <3>1. \A q \in MpscProducers : MpscClaimed(q) /\ q # p => push'[q] = push[q] /\ push[q].pos # at
      BY <1>0, <1>1 DEF MpscIInv, MpscClaimsOK, at
    <3>2. \A q \in MpscProducers : MpscClaimed(q) /\ push[q].pos # at => q # p
      BY DEF at
    <3> QED
      BY <1>5, <3>1, <3>2 DEF MpscOwned
  <2>2. \A k \in Nat : /\ k < mpscTail => k < Mpsc!First + Cells
                       /\ mpscTail <= k => k # at /\ Mpsc!First <= k
    BY <1>0
  <2> QED
    BY <1>0, <1>1, <1>3, <1>4, <2>1, <2>2 DEF MpscIInv, MpscCellsOK, Mpsc!Cell
<1>10. MpscTriesOK'
  <2>1. ASSUME sequence[Mpsc!Cell(mpscTail)] = mpscTail PROVE sequence'[Mpsc!Cell(mpscTail)] = mpscTail
    <3>1. mpscTail < Mpsc!First + Cells
      BY <2>1, MpscRoom
    <3>2. Mpsc!First <= mpscTail /\ mpscTail # at
      BY <1>0
    <3> QED
      BY <1>0, <1>3, <2>1, <3>1, <3>2
  <2> QED
    BY <1>1, <2>1 DEF MpscIInv, MpscTriesOK, Mpsc!Cell, Mpsc!Resting
<1> QED
  BY <1>6, <1>7, <1>8, <1>9, <1>10 DEF MpscIInv

(* The consumer takes the oldest item, whose cell no producer owns.        *)
LEMMA MpscTakeIInv ==
    ASSUME MpscRingOK, MpscIInv, Mpsc!PopTake
    PROVE  /\ MpscIInv'
           /\ mpscHead < mpscTail /\ ~MpscOwned(mpscHead)
<1>0. /\ mpscHead \in Nat /\ mpscTail \in Nat /\ Mpsc!First = mpscHead /\ Mpsc!First' = mpscHead /\ Cells \in Nat
      /\ mpscHead <= mpscTail /\ mpscTail <= mpscHead + Cells /\ Mpsc!Cell(mpscHead) \in 0 .. Cells - 1
      /\ sequence[Mpsc!Cell(mpscHead)] = mpscHead + 1 /\ pop = "idle" /\ pop' = "free" /\ mpscHead' = mpscHead
  BY MpscCellRange DEF Mpsc!PopTake, MpscIInv, MpscTypes, Mpsc!First, MpscRingOK, MpscWindow
<1>1. mpscHead < mpscTail
  <2>1. mpscHead = mpscTail => sequence[Mpsc!Cell(mpscHead)] = mpscHead
    BY <1>0 DEF MpscIInv, MpscCellsOK, MpscRingOK
  <2> QED
    BY <1>0, <2>1
<1>2. \A q \in MpscProducers : MpscClaimed(q) => push[q].pos # mpscHead
  BY <1>0 DEF MpscIInv, MpscClaimsOK
<1>3. ~MpscOwned(mpscHead) /\ data[Mpsc!Cell(mpscHead)] \in MpscValues
  <2>1. ~MpscOwned(mpscHead)
    BY <1>2 DEF MpscOwned
  <2> QED
    BY <1>0, <1>1, <2>1 DEF MpscIInv, MpscCellsOK
<1>4. /\ data' \in [0 .. Cells - 1 -> MpscItems]
      /\ \A k \in Nat : mpscHead < k /\ k < mpscTail => data'[Mpsc!Cell(k)] = data[Mpsc!Cell(k)]
  <2>1. data' = [data EXCEPT ![Mpsc!Cell(mpscHead)] = NoValue]
    BY DEF Mpsc!PopTake
  <2>2. ASSUME NEW k \in Nat, mpscHead < k, k < mpscTail PROVE Mpsc!Cell(mpscHead) # Mpsc!Cell(k)
    <3>1. k < mpscHead + Cells
      BY <1>0, <2>2
    <3> QED
      BY <1>0, <2>2, <3>1, MpscCellsDiffer
  <2> QED
    BY <1>0, <2>1, <2>2, MpscCellRange DEF MpscIInv, MpscTypes, MpscItems
<1>5. UNCHANGED <<mpscHead, mpscTail, sequence, push, mpscOut>> /\ mpscItem' = data[Mpsc!Cell(mpscHead)]
  BY DEF Mpsc!PopTake
<1>6. MpscTypes'
  BY <1>0, <1>3, <1>4, <1>5 DEF MpscIInv, MpscTypes, MpscItems
<1>7. MpscWindow' /\ Mpsc!NeverUnwritten'
  BY <1>0, <1>1, <1>3, <1>5 DEF MpscIInv, MpscWindow, Mpsc!NeverUnwritten
<1>8. MpscClaimsOK'
  <2>1. \A q \in MpscProducers : MpscClaimed(q)' <=> MpscClaimed(q)
    BY <1>5 DEF MpscClaimed
  <2>2. \A q \in MpscProducers : MpscClaimed(q) => push[q].pos \in Nat /\ mpscHead < push[q].pos /\ push[q].pos < mpscTail
    BY <1>0, <1>2 DEF MpscIInv, MpscTypes, MpscClaimsOK
  <2>3. \A q \in MpscProducers : push[q].pc = "publish" => data'[Mpsc!Cell(push[q].pos)] = push[q].item
    BY <1>4, <2>2 DEF MpscIInv, MpscClaimsOK, MpscClaimed
  <2> QED
    BY <1>0, <1>2, <1>5, <2>1, <2>3 DEF MpscIInv, MpscClaimsOK, Mpsc!Cell
<1>9. MpscCellsOK'
  <2>1. \A k : MpscOwned(k)' <=> MpscOwned(k)
    BY <1>5 DEF MpscOwned, MpscClaimed
  <2>2. \A k \in Nat : mpscHead <= k /\ k # mpscHead => mpscHead < k
    BY <1>0
  <2> QED
    BY <1>0, <1>4, <1>5, <2>1, <2>2 DEF MpscIInv, MpscCellsOK, Mpsc!Cell
<1>10. MpscTriesOK'
  BY <1>5 DEF MpscIInv, MpscTriesOK, Mpsc!Cell
<1> QED
  BY <1>1, <1>3, <1>6, <1>7, <1>8, <1>9, <1>10 DEF MpscIInv

(* The cell the consumer frees is the one of the last position of the next *)
(* lap.                                                                    *)
LEMMA MpscFreeIInv ==
    ASSUME MpscRingOK, MpscIInv, Mpsc!PopFree
    PROVE  MpscIInv'
<1>0. /\ mpscHead \in Nat /\ mpscTail \in Nat /\ Mpsc!First = mpscHead /\ Mpsc!First' = mpscHead + 1 /\ Cells \in Nat
      /\ mpscHead < mpscTail /\ mpscTail <= mpscHead + Cells /\ Mpsc!Cell(mpscHead) \in 0 .. Cells - 1
      /\ pop = "free" /\ pop' = "move" /\ mpscHead' = mpscHead /\ mpscItem \in MpscValues
  BY MpscCellRange DEF Mpsc!PopFree, MpscIInv, MpscTypes, Mpsc!First, MpscRingOK, MpscWindow
<1>1. /\ UNCHANGED <<mpscHead, mpscTail, data, push>> /\ mpscItem' = NoValue /\ mpscOut' = <<mpscItem>>
      /\ sequence' = [sequence EXCEPT ![Mpsc!Cell(mpscHead)] = mpscHead + Cells]
  BY DEF Mpsc!PopFree
<1>2. ASSUME NEW k \in Nat, mpscHead < k, k < mpscHead + Cells PROVE Mpsc!Cell(mpscHead) # Mpsc!Cell(k)
  BY <1>0, <1>2, MpscCellsDiffer
<1>3. /\ sequence' \in [0 .. Cells - 1 -> Nat]
      /\ sequence'[Mpsc!Cell(mpscHead + Cells)] = mpscHead + Cells
      /\ \A k \in Nat : mpscHead < k /\ k < mpscHead + Cells => sequence'[Mpsc!Cell(k)] = sequence[Mpsc!Cell(k)]
  <2>1. sequence \in [0 .. Cells - 1 -> Nat] /\ mpscHead + Cells \in Nat
    BY <1>0 DEF MpscIInv, MpscTypes
  <2>2. \A k \in Nat : Mpsc!Cell(k) \in 0 .. Cells - 1
    BY MpscCellRange
  <2>3. Mpsc!Cell(mpscHead + Cells) = Mpsc!Cell(mpscHead)
    BY <1>0, MpscCellLap
  <2> QED
    BY <1>0, <1>1, <1>2, <2>1, <2>2, <2>3
<1>4. \A q \in MpscProducers : /\ MpscClaimed(q)' <=> MpscClaimed(q)
                               /\ MpscClaimed(q) => /\ push[q].pos \in Nat /\ mpscHead < push[q].pos
                                                    /\ mpscHead + 1 <= push[q].pos /\ push[q].pos < mpscTail
                                                    /\ push[q].pos < mpscHead + Cells
  <2>1. \A q \in MpscProducers : MpscClaimed(q) => /\ push[q].pos \in Nat /\ mpscHead <= push[q].pos
                                                   /\ push[q].pos # mpscHead /\ push[q].pos < mpscTail
    BY <1>0 DEF MpscIInv, MpscTypes, MpscClaimsOK
  <2> QED
    BY <1>0, <1>1, <2>1 DEF MpscClaimed
<1>5. MpscTypes'
  BY <1>0, <1>1, <1>3 DEF MpscIInv, MpscTypes, MpscItems
<1>6. MpscWindow' /\ Mpsc!NeverUnwritten'
  BY <1>0, <1>1 DEF MpscIInv, MpscWindow, Mpsc!NeverUnwritten
<1>7. MpscClaimsOK'
  BY <1>0, <1>1, <1>3, <1>4 DEF MpscIInv, MpscClaimsOK, Mpsc!Cell
<1>8. MpscCellsOK'
  <2>1. \A k : MpscOwned(k)' <=> MpscOwned(k)
    BY <1>1 DEF MpscOwned, MpscClaimed
  <2>2. \A k \in Nat : /\ mpscHead + 1 <= k /\ k < mpscTail => mpscHead < k /\ mpscHead <= k /\ k < mpscHead + Cells /\ k # mpscHead
                       /\ mpscTail <= k /\ k < (mpscHead + 1) + Cells =>
                            mpscHead < k /\ (k < mpscHead + Cells \/ k = mpscHead + Cells)
    BY <1>0
  <2>3. ASSUME NEW k \in Nat, mpscHead + 1 <= k, k < mpscTail, ~MpscOwned(k)
        PROVE  sequence'[Mpsc!Cell(k)] = k + 1 /\ data[Mpsc!Cell(k)] \in MpscValues
    BY <1>0, <1>3, <2>2, <2>3 DEF MpscIInv, MpscCellsOK
  <2>4. ASSUME NEW k \in Nat, mpscTail <= k, k < (mpscHead + 1) + Cells
        PROVE  sequence'[Mpsc!Cell(k)] = k
    BY <1>0, <1>3, <2>2, <2>4 DEF MpscIInv, MpscCellsOK
  <2> QED
    BY <1>0, <1>1, <2>1, <2>3, <2>4 DEF MpscCellsOK, Mpsc!Cell
<1>9. MpscTriesOK'
  <2>1. ASSUME sequence[Mpsc!Cell(mpscTail)] = mpscTail PROVE sequence'[Mpsc!Cell(mpscTail)] = mpscTail
    <3>1. mpscTail < mpscHead + Cells
      BY <1>0, <2>1, MpscRoom
    <3> QED
      BY <1>0, <1>3, <2>1, <3>1
  <2> QED
    BY <1>1, <2>1 DEF MpscIInv, MpscTriesOK, Mpsc!Cell
<1> QED
  BY <1>5, <1>6, <1>7, <1>8, <1>9 DEF MpscIInv

LEMMA MpscMoveIInv ==
    ASSUME MpscRingOK, MpscIInv, Mpsc!PopMove
    PROVE  MpscIInv'
<1>1. /\ Mpsc!First' = Mpsc!First /\ pop = "move" /\ pop' = "idle" /\ mpscHead \in Nat /\ mpscHead' = mpscHead + 1
      /\ UNCHANGED <<mpscTail, sequence, data, push, mpscItem, mpscOut>>
  BY DEF Mpsc!PopMove, Mpsc!First, MpscIInv, MpscTypes
<1>2. MpscTypes'
  BY <1>1 DEF MpscIInv, MpscTypes
<1>3. MpscWindow' /\ Mpsc!NeverUnwritten'
  BY <1>1 DEF MpscIInv, MpscWindow, Mpsc!NeverUnwritten
<1>4. \A q \in MpscProducers : MpscClaimed(q)' <=> MpscClaimed(q)
  BY <1>1 DEF MpscClaimed
<1>5. MpscClaimsOK'
  BY <1>1, <1>4 DEF MpscIInv, MpscClaimsOK, Mpsc!Cell
<1>6. MpscCellsOK'
  <2>1. \A k : MpscOwned(k)' <=> MpscOwned(k)
    BY <1>1, <1>4 DEF MpscOwned
  <2> QED
    BY <1>1, <2>1 DEF MpscIInv, MpscCellsOK, Mpsc!Cell
<1>7. MpscTriesOK'
  BY <1>1 DEF MpscIInv, MpscTriesOK, Mpsc!Cell
<1> QED
  BY <1>2, <1>3, <1>5, <1>6, <1>7 DEF MpscIInv

LEMMA MpscStutterIInv == MpscIInv /\ UNCHANGED Mpsc!vars => MpscIInv'
<1> SUFFICES ASSUME MpscIInv, UNCHANGED Mpsc!vars PROVE MpscIInv'
  OBVIOUS
<1>1. MpscWindow' /\ MpscClaimsOK' /\ MpscCellsOK' /\ Mpsc!NeverUnwritten'
  BY MpscQuiet DEF Mpsc!vars, MpscClaimed
<1>2. MpscTypes' /\ MpscTriesOK'
  BY DEF Mpsc!vars, MpscIInv, MpscTypes, MpscTriesOK, Mpsc!Cell
<1> QED
  BY <1>1, <1>2 DEF MpscIInv

LEMMA MpscStepIInv == MpscRingOK /\ MpscIInv /\ [Mpsc!Next]_(Mpsc!vars) => MpscIInv'
  BY MpscLoadIInv, MpscCompareIInv, MpscSwapIInv, MpscWriteIInv, MpscPublishIInv, MpscTakeIInv, MpscFreeIInv, MpscMoveIInv,
     MpscStutterIInv DEF Mpsc!Next, Mpsc!TryPush, Mpsc!TryPop

(* Nothing that leaves the ring is a value that was never pushed.          *)
THEOREM MpscNothingUnwritten == MpscRingOK => (Mpsc!Spec => []Mpsc!NeverUnwritten)
<1> SUFFICES ASSUME MpscRingOK PROVE Mpsc!Spec => []Mpsc!NeverUnwritten
  OBVIOUS
<1>1. Mpsc!Init => MpscIInv
  BY MpscInitIInv
<1>2. MpscIInv /\ [Mpsc!Next]_(Mpsc!vars) => MpscIInv'
  BY MpscStepIInv
<1>3. MpscIInv => Mpsc!NeverUnwritten
  BY DEF MpscIInv
<1> QED
  BY <1>1, <1>2, <1>3, PTL DEF Mpsc!Spec

-----------------------------------------------------------------------------
(* The contents of the ring, position by position.                         *)

MpscInside(k) == k \in Nat /\ Mpsc!First <= k /\ k < mpscTail
MpscHeld(k) == pop = "free" /\ k = mpscHead

(* Positions in use have cells of their own.                               *)
LEMMA MpscCellsApart ==
    ASSUME MpscRingOK, MpscIInv, NEW a, MpscInside(a), NEW b, MpscInside(b), a # b
    PROVE  Mpsc!Cell(a) # Mpsc!Cell(b)
<1>1. /\ a \in Nat /\ b \in Nat /\ Cells \in Nat
      /\ a < b \/ b < a
      /\ a < b + Cells /\ b < a + Cells
  BY DEF MpscInside, MpscRingOK, MpscIInv, MpscTypes, MpscWindow, Mpsc!First
<1> QED
  BY <1>1, MpscCellsDiffer

MpscItemsOK ==
    \A k : MpscInside(k) =>
        /\ MpscHeld(k) => Mpsc!ItemAt(k) = mpscItem
        /\ \A p \in MpscProducers : MpscClaimed(p) /\ push[p].pos = k => Mpsc!ItemAt(k) = push[p].item
        /\ ~MpscHeld(k) /\ ~MpscOwned(k) => Mpsc!ItemAt(k) = data[Mpsc!Cell(k)]
        /\ Mpsc!ItemAt(k) \in MpscValues

LEMMA MpscItemFacts == MpscIInv => MpscItemsOK
<1> SUFFICES ASSUME MpscIInv, NEW k, MpscInside(k)
             PROVE  /\ MpscHeld(k) => Mpsc!ItemAt(k) = mpscItem
                    /\ \A p \in MpscProducers : MpscClaimed(p) /\ push[p].pos = k => Mpsc!ItemAt(k) = push[p].item
                    /\ ~MpscHeld(k) /\ ~MpscOwned(k) => Mpsc!ItemAt(k) = data[Mpsc!Cell(k)]
                    /\ Mpsc!ItemAt(k) \in MpscValues
  BY DEF MpscItemsOK
<1> DEFINE owners == {p \in MpscProducers : push[p].pc \in {"write", "publish"} /\ push[p].pos = k}
<1>1. Mpsc!ItemAt(k) = IF MpscHeld(k) THEN mpscItem
                  ELSE IF owners # {} THEN push[CHOOSE p \in owners : TRUE].item
                  ELSE data[Mpsc!Cell(k)]
  BY DEF Mpsc!ItemAt, MpscHeld
<1>2. \A p \in MpscProducers : MpscClaimed(p) /\ push[p].pos = k =>
         /\ ~MpscHeld(k) /\ push[p].item \in MpscValues
         /\ \A q \in owners : q = p
  BY DEF MpscIInv, MpscClaimsOK, MpscClaimed, MpscHeld
<1>3. ASSUME NEW p \in MpscProducers, MpscClaimed(p), push[p].pos = k
      PROVE  Mpsc!ItemAt(k) = push[p].item /\ push[p].item \in MpscValues
  <2>1. p \in owners /\ (CHOOSE q \in owners : TRUE) \in owners
    BY <1>3 DEF MpscClaimed
  <2>2. (CHOOSE q \in owners : TRUE) = p
    BY <1>2, <1>3, <2>1
  <2> HIDE DEF owners
  <2> QED
    BY <1>1, <1>2, <1>3, <2>1, <2>2
<1>4. MpscHeld(k) => Mpsc!ItemAt(k) = mpscItem /\ mpscItem \in MpscValues
  BY <1>1 DEF MpscHeld, MpscIInv, MpscWindow
<1>5. ~MpscHeld(k) /\ ~MpscOwned(k) => Mpsc!ItemAt(k) = data[Mpsc!Cell(k)] /\ data[Mpsc!Cell(k)] \in MpscValues
  <2>1. ~MpscOwned(k) => owners = {}
    BY DEF MpscOwned, MpscClaimed
  <2>2. ~MpscHeld(k) /\ ~MpscOwned(k) => data[Mpsc!Cell(k)] \in MpscValues
    BY DEF MpscIInv, MpscCellsOK, MpscHeld, MpscInside
  <2> HIDE DEF owners
  <2> QED
    BY <1>1, <2>1, <2>2
<1>6. MpscOwned(k) => \E p \in MpscProducers : MpscClaimed(p) /\ push[p].pos = k
  BY DEF MpscOwned
<1> HIDE DEF owners
<1> QED
  BY <1>3, <1>4, <1>5, <1>6

MpscContentsOK ==
    /\ Mpsc!Contents \in Seq(MpscValues)
    /\ mpscTail - Mpsc!First \in 0 .. Cells
    /\ Len(Mpsc!Contents) = mpscTail - Mpsc!First
    /\ \A i \in 1 .. (mpscTail - Mpsc!First) : Mpsc!Contents[i] = Mpsc!ItemAt(Mpsc!First + i - 1)

LEMMA MpscContentsFacts == MpscRingOK /\ MpscIInv => MpscContentsOK
<1> SUFFICES ASSUME MpscRingOK, MpscIInv PROVE MpscContentsOK
  OBVIOUS
<1>1. Mpsc!First \in Nat /\ mpscTail \in Nat /\ mpscTail - Mpsc!First \in 0 .. Cells
  BY DEF MpscRingOK, MpscIInv, MpscTypes, MpscWindow, Mpsc!First
<1> DEFINE n == mpscTail - Mpsc!First
<1>2. \A i \in 1 .. n : MpscInside(Mpsc!First + i - 1)
  BY <1>1 DEF MpscInside
<1>3. \A i \in 1 .. n : Mpsc!ItemAt(Mpsc!First + i - 1) \in MpscValues
  BY <1>2, MpscItemFacts DEF MpscItemsOK
<1>4. Mpsc!Contents = [i \in 1 .. n |-> Mpsc!ItemAt(Mpsc!First + i - 1)]
  BY DEF Mpsc!Contents
<1>5. n \in Nat
  BY <1>1 DEF MpscRingOK
<1> HIDE DEF n
<1>6. Mpsc!Contents \in [1 .. n -> MpscValues]
  BY <1>3, <1>4
<1>7. Mpsc!Contents \in Seq(MpscValues) /\ Len(Mpsc!Contents) = n
  BY <1>5, <1>6
<1>8. \A i \in 1 .. n : Mpsc!Contents[i] = Mpsc!ItemAt(Mpsc!First + i - 1)
  BY <1>4
<1> QED
  BY <1>1, <1>7, <1>8 DEF MpscContentsOK, n

LEMMA MpscFactsNext == (MpscIInv' => MpscItemsOK') /\ (MpscRingOK /\ MpscIInv' => MpscContentsOK')
<1>1. MpscIInv' => MpscItemsOK'
  BY MpscItemFacts, PTL
<1>2. ASSUME MpscRingOK PROVE MpscIInv' => MpscContentsOK'
  <2>1. MpscIInv => MpscContentsOK
    BY <1>2, MpscContentsFacts
  <2> QED
    BY <2>1, PTL
<1> QED
  BY <1>1, <1>2

(* Two sequences of the same length with the same elements are equal.      *)
LEMMA MpscSeqEq ==
    ASSUME NEW S, NEW s \in Seq(S), NEW t \in Seq(S), Len(t) = Len(s),
           \A i \in 1 .. Len(s) : t[i] = s[i]
    PROVE  t = s
  BY SMT

LEMMA MpscAppendIs ==
    ASSUME NEW S, NEW s \in Seq(S), NEW t \in Seq(S), NEW x \in S,
           Len(t) = Len(s) + 1, t[Len(t)] = x,
           \A i \in 1 .. Len(s) : t[i] = s[i]
    PROVE  t = Append(s, x)
  BY SMT

LEMMA MpscTailIs ==
    ASSUME NEW S, NEW s \in Seq(S), NEW t \in Seq(S), Len(s) = Len(t) + 1,
           \A i \in 1 .. Len(t) : t[i] = s[i + 1]
    PROVE  t = Tail(s)
  BY SMT

(* A step that keeps the positions in use and every item keeps the         *)
(* contents.                                                               *)
LEMMA MpscSameContents ==
    ASSUME MpscRingOK, MpscIInv, MpscContentsOK, MpscContentsOK', Mpsc!First' = Mpsc!First, mpscTail' = mpscTail,
           \A k : MpscInside(k) => Mpsc!ItemAt(k)' = Mpsc!ItemAt(k)
    PROVE  Mpsc!Contents' = Mpsc!Contents
<1>1. Mpsc!First \in Nat /\ mpscTail \in Nat
  BY DEF MpscIInv, MpscTypes, Mpsc!First
<1>2. ASSUME NEW i \in 1 .. (mpscTail - Mpsc!First) PROVE Mpsc!Contents'[i] = Mpsc!Contents[i]
  <2>1. MpscInside(Mpsc!First + i - 1)
    BY <1>1 DEF MpscInside
  <2>2. Mpsc!Contents[i] = Mpsc!ItemAt(Mpsc!First + i - 1)
    BY DEF MpscContentsOK
  <2>3. \A k : k = Mpsc!First + i - 1 => Mpsc!Contents'[i] = Mpsc!ItemAt(k)'
    BY DEF MpscContentsOK
  <2> QED
    BY <2>1, <2>2, <2>3
<1> QED
  BY <1>2, MpscSeqEq DEF MpscContentsOK

-----------------------------------------------------------------------------
(* Every step of the ring is a step of the queue or leaves it alone.       *)

MpscFacts == MpscRingOK /\ MpscIInv /\ MpscItemsOK /\ MpscContentsOK

LEMMA MpscFactsHold == MpscRingOK /\ MpscIInv /\ MpscIInv' => MpscFacts /\ MpscFacts'
<1>1. MpscRingOK <=> MpscRingOK'
  BY DEF MpscRingOK
<1> QED
  BY <1>1, MpscItemFacts, MpscContentsFacts, MpscFactsNext DEF MpscFacts

LEMMA MpscQuietContents ==
    ASSUME MpscFacts, MpscFacts', UNCHANGED <<mpscHead, mpscTail, data, pop, mpscItem>>,
           \A q \in MpscProducers : MpscClaimed(q)' <=> MpscClaimed(q),
           \A q \in MpscProducers : MpscClaimed(q) => push'[q].pos = push[q].pos /\ push'[q].item = push[q].item
    PROVE  Mpsc!Contents' = Mpsc!Contents
<1>1. Mpsc!First' = Mpsc!First
  BY DEF Mpsc!First
<1>2. ASSUME NEW k, MpscInside(k) PROVE Mpsc!ItemAt(k)' = Mpsc!ItemAt(k)
  <2>1. MpscInside(k)' /\ (MpscHeld(k)' <=> MpscHeld(k)) /\ (MpscOwned(k)' <=> MpscOwned(k)) /\ Mpsc!Cell(k)' = Mpsc!Cell(k)
    BY <1>1, <1>2 DEF MpscInside, MpscHeld, MpscOwned, Mpsc!Cell
  <2>2. CASE MpscHeld(k)
    BY <1>2, <2>1, <2>2 DEF MpscFacts, MpscItemsOK
  <2>3. CASE ~MpscHeld(k) /\ ~MpscOwned(k)
    BY <1>2, <2>1, <2>3 DEF MpscFacts, MpscItemsOK
  <2>4. CASE MpscOwned(k)
    <3>1. PICK q \in MpscProducers : MpscClaimed(q) /\ push[q].pos = k
      BY <2>4 DEF MpscOwned
    <3>2. Mpsc!ItemAt(k) = push[q].item
      BY <1>2, <3>1 DEF MpscFacts, MpscItemsOK
    <3>3. Mpsc!ItemAt(k)' = push'[q].item
      BY <2>1, <3>1 DEF MpscFacts, MpscItemsOK
    <3> QED
      BY <3>1, <3>2, <3>3
  <2> QED
    BY <2>2, <2>3, <2>4
<1> QED
  BY <1>1, <1>2, MpscSameContents DEF MpscFacts

LEMMA MpscLoadKeeps ==
    ASSUME MpscFacts, MpscFacts', NEW p \in MpscProducers, NEW x \in MpscValues, Mpsc!PushLoad(p, x)
    PROVE  UNCHANGED <<Mpsc!Contents, mpscOut>>
<1>1. /\ push'[p].pc = "compare" /\ push[p].pc = "idle"
      /\ \A q \in MpscProducers : q # p => push'[q] = push[q]
      /\ UNCHANGED <<mpscHead, mpscTail, data, pop, mpscItem, mpscOut>>
  BY DEF Mpsc!PushLoad, MpscFacts, MpscIInv, MpscTypes
<1>2. \A q \in MpscProducers : /\ MpscClaimed(q)' <=> MpscClaimed(q)
                               /\ MpscClaimed(q) => push'[q] = push[q]
  BY <1>1 DEF MpscClaimed
<1> QED
  BY <1>1, <1>2, MpscQuietContents

LEMMA MpscCompareKeeps ==
    ASSUME MpscFacts, MpscFacts', NEW p \in MpscProducers, Mpsc!PushCompare(p)
    PROVE  UNCHANGED <<Mpsc!Contents, mpscOut>>
<1>1. /\ push'[p].pc \in {"idle", "compare", "swap"} /\ push[p].pc = "compare"
      /\ \A q \in MpscProducers : q # p => push'[q] = push[q]
      /\ UNCHANGED <<mpscHead, mpscTail, data, pop, mpscItem, mpscOut>>
  BY DEF Mpsc!PushCompare, MpscFacts, MpscIInv, MpscTypes, Mpsc!Resting
<1>2. \A q \in MpscProducers : /\ MpscClaimed(q)' <=> MpscClaimed(q)
                               /\ MpscClaimed(q) => push'[q] = push[q]
  BY <1>1 DEF MpscClaimed
<1> QED
  BY <1>1, <1>2, MpscQuietContents

(* The swap is the moment at which the item is inside.                     *)
LEMMA MpscSwapPushes ==
    ASSUME MpscFacts, MpscFacts', NEW p \in MpscProducers, Mpsc!PushSwap(p)
    PROVE  UNCHANGED <<Mpsc!Contents, mpscOut>> \/ Mpsc!Fifo!Next
<1>1. CASE ~Mpsc!Swaps(p)
  <2>1. /\ push'[p].pc = "compare" /\ push[p].pc = "swap"
        /\ \A q \in MpscProducers : q # p => push'[q] = push[q]
        /\ UNCHANGED <<mpscHead, mpscTail, data, pop, mpscItem, mpscOut>>
    BY <1>1 DEF Mpsc!PushSwap, MpscFacts, MpscIInv, MpscTypes
  <2>2. \A q \in MpscProducers : /\ MpscClaimed(q)' <=> MpscClaimed(q)
                                 /\ MpscClaimed(q) => push'[q] = push[q]
    BY <2>1 DEF MpscClaimed
  <2> QED
    BY <2>1, <2>2, MpscQuietContents
<1>2. CASE Mpsc!Swaps(p)
  <2>1. /\ push[p].pc = "swap" /\ push'[p].pc = "write"
        /\ push'[p].pos = mpscTail /\ push'[p].item = push[p].item
        /\ \A q \in MpscProducers : q # p => push'[q] = push[q]
        /\ UNCHANGED <<mpscHead, data, pop, mpscItem, mpscOut>>
        /\ mpscTail' = mpscTail + 1 /\ push[p].item \in MpscValues /\ push[p].pos = mpscTail
    BY <1>2 DEF Mpsc!PushSwap, Mpsc!Swaps, MpscFacts, MpscIInv, MpscTypes, MpscTriesOK
  <2>2. Mpsc!First' = Mpsc!First /\ Mpsc!First \in Nat /\ mpscTail \in Nat /\ Mpsc!First <= mpscTail
    BY <2>1 DEF Mpsc!First, MpscFacts, MpscIInv, MpscTypes, MpscWindow
  <2>3. sequence[Mpsc!Cell(mpscTail)] = mpscTail /\ mpscTail < Mpsc!First + Cells
    BY <2>1, MpscRoom DEF MpscFacts, MpscIInv, MpscTriesOK
  <2>4. \A q \in MpscProducers : /\ MpscClaimed(q)' <=> (q = p \/ MpscClaimed(q))
                                 /\ MpscClaimed(q) => q # p
    BY <2>1 DEF MpscClaimed
  <2>5. ASSUME NEW k, MpscInside(k) PROVE Mpsc!ItemAt(k)' = Mpsc!ItemAt(k)
    <3>1. MpscInside(k)' /\ (MpscHeld(k)' <=> MpscHeld(k)) /\ k # mpscTail /\ Mpsc!Cell(k)' = Mpsc!Cell(k)
      BY <2>1, <2>2, <2>5 DEF MpscInside, MpscHeld, Mpsc!Cell
    <3>2. MpscOwned(k)' <=> MpscOwned(k)
      BY <2>1, <2>4, <3>1 DEF MpscOwned
    <3>3. CASE MpscHeld(k)
      BY <2>1, <2>5, <3>1, <3>3 DEF MpscFacts, MpscItemsOK
    <3>4. CASE ~MpscHeld(k) /\ ~MpscOwned(k)
      BY <2>1, <2>5, <3>1, <3>2, <3>4 DEF MpscFacts, MpscItemsOK
    <3>5. CASE MpscOwned(k)
      <4>1. PICK q \in MpscProducers : MpscClaimed(q) /\ push[q].pos = k
        BY <3>5 DEF MpscOwned
      <4>2. Mpsc!ItemAt(k) = push[q].item
        BY <2>5, <4>1 DEF MpscFacts, MpscItemsOK
      <4>3. MpscClaimed(q)' /\ push'[q] = push[q]
        BY <2>1, <2>4, <4>1
      <4>4. Mpsc!ItemAt(k)' = push'[q].item
        BY <3>1, <4>1, <4>3 DEF MpscFacts, MpscItemsOK
      <4> QED
        BY <4>2, <4>3, <4>4
    <3> QED
      BY <3>3, <3>4, <3>5
  <2>6. ASSUME NEW k, k = mpscTail PROVE Mpsc!ItemAt(k)' = push[p].item
    <3>1. MpscInside(k)'
      BY <2>1, <2>2, <2>6 DEF MpscInside
    <3>2. MpscClaimed(p)' /\ push'[p].pos = k
      BY <2>1, <2>4, <2>6
    <3>3. Mpsc!ItemAt(k)' = push'[p].item
      BY <3>1, <3>2 DEF MpscFacts, MpscItemsOK
    <3> QED
      BY <2>1, <3>3
  <2>7. Len(Mpsc!Contents) = mpscTail - Mpsc!First /\ Len(Mpsc!Contents') = mpscTail - Mpsc!First + 1
    BY <2>1, <2>2 DEF MpscFacts, MpscContentsOK
  <2>8. ASSUME NEW i \in 1 .. (mpscTail - Mpsc!First) PROVE Mpsc!Contents'[i] = Mpsc!Contents[i]
    <3>1. MpscInside(Mpsc!First + i - 1)
      BY <2>2 DEF MpscInside
    <3>2. Mpsc!Contents[i] = Mpsc!ItemAt(Mpsc!First + i - 1)
      BY DEF MpscFacts, MpscContentsOK
    <3>3. i \in 1 .. (mpscTail' - Mpsc!First')
      BY <2>1, <2>2
    <3>4. \A k : k = Mpsc!First + i - 1 => Mpsc!Contents'[i] = Mpsc!ItemAt(k)'
      BY <2>2, <3>3 DEF MpscFacts, MpscContentsOK
    <3> QED
      BY <2>5, <3>1, <3>2, <3>4
  <2>9. Mpsc!Contents'[mpscTail - Mpsc!First + 1] = push[p].item
    <3>1. mpscTail - Mpsc!First + 1 \in 1 .. (mpscTail' - Mpsc!First')
      BY <2>1, <2>2
    <3>2. Mpsc!First + (mpscTail - Mpsc!First + 1) - 1 = mpscTail
      BY <2>2
    <3>3. \A k : k = mpscTail => Mpsc!Contents'[mpscTail - Mpsc!First + 1] = Mpsc!ItemAt(k)'
      BY <2>2, <3>1, <3>2 DEF MpscFacts, MpscContentsOK
    <3> QED
      BY <2>6, <3>3
  <2>10. Mpsc!Contents' = Append(Mpsc!Contents, push[p].item)
    <3>1. Mpsc!Contents \in Seq(MpscValues) /\ Mpsc!Contents' \in Seq(MpscValues)
      BY DEF MpscFacts, MpscContentsOK
    <3> QED
      BY <2>1, <2>7, <2>8, <2>9, <3>1, MpscAppendIs
  <2>11. Len(Mpsc!Contents) < Cells
    BY <2>2, <2>3, <2>7 DEF MpscFacts, MpscRingOK
  <2> QED
    BY <2>1, <2>10, <2>11 DEF Mpsc!Fifo!Next, Mpsc!Fifo!Push
<1> QED
  BY <1>1, <1>2

LEMMA MpscWriteKeeps ==
    ASSUME MpscFacts, MpscFacts', NEW p \in MpscProducers, Mpsc!PushWrite(p)
    PROVE  UNCHANGED <<Mpsc!Contents, mpscOut>>
<1>0. /\ push'[p].pc = "publish" /\ push'[p].pos = push[p].pos /\ push'[p].item = push[p].item
      /\ \A q \in MpscProducers : q # p => push'[q] = push[q]
      /\ UNCHANGED <<mpscHead, mpscTail, pop, mpscItem, mpscOut>> /\ MpscClaimed(p)
      /\ data' = [data EXCEPT ![Mpsc!Cell(push[p].pos)] = push[p].item]
  BY DEF Mpsc!PushWrite, MpscFacts, MpscIInv, MpscTypes, MpscClaimed
<1>1. Mpsc!First' = Mpsc!First
  BY <1>0 DEF Mpsc!First
<1>2. \A q \in MpscProducers : /\ MpscClaimed(q)' <=> MpscClaimed(q)
                               /\ push'[q].pos = push[q].pos /\ push'[q].item = push[q].item
  BY <1>0 DEF MpscClaimed
<1>3. MpscInside(push[p].pos)
  BY <1>0 DEF MpscInside, MpscFacts, MpscIInv, MpscTypes, MpscClaimsOK
<1>4. ASSUME NEW k, MpscInside(k) PROVE Mpsc!ItemAt(k)' = Mpsc!ItemAt(k)
  <2>1. MpscInside(k)' /\ (MpscHeld(k)' <=> MpscHeld(k)) /\ (MpscOwned(k)' <=> MpscOwned(k)) /\ Mpsc!Cell(k)' = Mpsc!Cell(k)
    BY <1>0, <1>1, <1>2, <1>4 DEF MpscInside, MpscHeld, MpscOwned, Mpsc!Cell
  <2>2. CASE MpscHeld(k)
    BY <1>0, <1>4, <2>1, <2>2 DEF MpscFacts, MpscItemsOK
  <2>3. CASE ~MpscHeld(k) /\ ~MpscOwned(k)
    <3>1. k # push[p].pos
      BY <1>0, <2>3 DEF MpscOwned
    <3>2. Mpsc!Cell(k) # Mpsc!Cell(push[p].pos)
      BY <1>3, <1>4, <3>1, MpscCellsApart DEF MpscFacts
    <3>3. data'[Mpsc!Cell(k)] = data[Mpsc!Cell(k)]
      BY <1>0, <1>4, <3>2, MpscCellRange DEF MpscFacts, MpscIInv, MpscTypes, MpscInside
    <3> QED
      BY <1>4, <2>1, <2>3, <3>3 DEF MpscFacts, MpscItemsOK
  <2>4. CASE MpscOwned(k)
    <3>1. PICK q \in MpscProducers : MpscClaimed(q) /\ push[q].pos = k
      BY <2>4 DEF MpscOwned
    <3>2. Mpsc!ItemAt(k) = push[q].item
      BY <1>4, <3>1 DEF MpscFacts, MpscItemsOK
    <3>3. Mpsc!ItemAt(k)' = push'[q].item
      BY <1>2, <2>1, <3>1 DEF MpscFacts, MpscItemsOK
    <3> QED
      BY <1>2, <3>1, <3>2, <3>3
  <2> QED
    BY <2>2, <2>3, <2>4
<1> QED
  BY <1>0, <1>1, <1>4, MpscSameContents DEF MpscFacts

(* A published cell holds the item its producer held.                      *)
LEMMA MpscPublishKeeps ==
    ASSUME MpscFacts, MpscFacts', NEW p \in MpscProducers, Mpsc!PushPublish(p)
    PROVE  UNCHANGED <<Mpsc!Contents, mpscOut>>
<1>0. /\ push'[p] = Mpsc!Resting /\ push[p].pc = "publish" /\ MpscClaimed(p)
      /\ \A q \in MpscProducers : q # p => push'[q] = push[q]
      /\ UNCHANGED <<mpscHead, mpscTail, data, pop, mpscItem, mpscOut>>
  BY DEF Mpsc!PushPublish, MpscFacts, MpscIInv, MpscTypes, MpscClaimed
<1>1. Mpsc!First' = Mpsc!First
  BY <1>0 DEF Mpsc!First
<1>2. /\ \A q \in MpscProducers : MpscClaimed(q)' <=> MpscClaimed(q) /\ q # p
      /\ \A q \in MpscProducers : MpscClaimed(q) /\ push[q].pos = push[p].pos => q = p
      /\ data[Mpsc!Cell(push[p].pos)] = push[p].item
      /\ ~MpscHeld(push[p].pos)
  BY <1>0 DEF MpscClaimed, Mpsc!Resting, MpscFacts, MpscIInv, MpscClaimsOK, MpscHeld
<1>3. ASSUME NEW k, MpscInside(k) PROVE Mpsc!ItemAt(k)' = Mpsc!ItemAt(k)
  <2>1. MpscInside(k)' /\ (MpscHeld(k)' <=> MpscHeld(k)) /\ Mpsc!Cell(k)' = Mpsc!Cell(k)
    BY <1>0, <1>1, <1>3 DEF MpscInside, MpscHeld, Mpsc!Cell
  <2>2. CASE k = push[p].pos
    <3>1. ~MpscOwned(k)'
      BY <1>0, <1>2, <2>2 DEF MpscOwned
    <3>2. Mpsc!ItemAt(k) = push[p].item
      BY <1>0, <1>3, <2>2 DEF MpscFacts, MpscItemsOK
    <3>3. Mpsc!ItemAt(k)' = data'[Mpsc!Cell(k)]
      BY <1>2, <2>1, <2>2, <3>1 DEF MpscFacts, MpscItemsOK
    <3> QED
      BY <1>0, <1>2, <2>2, <3>2, <3>3
  <2>3. CASE k # push[p].pos
    <3>1. MpscOwned(k)' <=> MpscOwned(k)
      BY <1>0, <1>2, <2>3 DEF MpscOwned
    <3>2. CASE MpscHeld(k)
      BY <1>0, <1>3, <2>1, <3>2 DEF MpscFacts, MpscItemsOK
    <3>3. CASE ~MpscHeld(k) /\ ~MpscOwned(k)
      BY <1>0, <1>3, <2>1, <3>1, <3>3 DEF MpscFacts, MpscItemsOK
    <3>4. CASE MpscOwned(k)
      <4>1. PICK q \in MpscProducers : MpscClaimed(q) /\ push[q].pos = k
        BY <3>4 DEF MpscOwned
      <4>2. MpscClaimed(q)' /\ push'[q] = push[q]
        BY <1>0, <1>2, <2>3, <4>1
      <4>3. Mpsc!ItemAt(k) = push[q].item
        BY <1>3, <4>1 DEF MpscFacts, MpscItemsOK
      <4>4. Mpsc!ItemAt(k)' = push'[q].item
        BY <2>1, <4>1, <4>2 DEF MpscFacts, MpscItemsOK
      <4> QED
        BY <4>2, <4>3, <4>4
    <3> QED
      BY <3>2, <3>3, <3>4
  <2> QED
    BY <2>2, <2>3
<1> QED
  BY <1>0, <1>1, <1>3, MpscSameContents DEF MpscFacts

(* The item the consumer takes is still the first of the queue.            *)
LEMMA MpscTakeKeeps ==
    ASSUME MpscFacts, MpscFacts', Mpsc!PopTake
    PROVE  UNCHANGED <<Mpsc!Contents, mpscOut>>
<1>0. /\ UNCHANGED <<mpscHead, mpscTail, push, mpscOut>> /\ mpscItem' = data[Mpsc!Cell(mpscHead)]
      /\ data' = [data EXCEPT ![Mpsc!Cell(mpscHead)] = NoValue]
      /\ pop = "idle" /\ pop' = "free" /\ mpscHead \in Nat /\ mpscHead < mpscTail /\ ~MpscOwned(mpscHead)
  BY MpscTakeIInv DEF Mpsc!PopTake, MpscFacts, MpscIInv, MpscTypes
<1>1. Mpsc!First' = Mpsc!First /\ Mpsc!First = mpscHead
  BY <1>0 DEF Mpsc!First
<1>2. \A q \in MpscProducers : MpscClaimed(q)' <=> MpscClaimed(q)
  BY <1>0 DEF MpscClaimed
<1>3. ASSUME NEW k, MpscInside(k) PROVE Mpsc!ItemAt(k)' = Mpsc!ItemAt(k)
  <2>1. MpscInside(k)' /\ (MpscHeld(k)' <=> k = mpscHead) /\ ~MpscHeld(k) /\ (MpscOwned(k)' <=> MpscOwned(k))
        /\ Mpsc!Cell(k)' = Mpsc!Cell(k)
    BY <1>0, <1>1, <1>2, <1>3 DEF MpscInside, MpscHeld, MpscOwned, Mpsc!Cell
  <2>2. CASE k = mpscHead
    BY <1>0, <1>3, <2>1, <2>2 DEF MpscFacts, MpscItemsOK
  <2>3. CASE k # mpscHead /\ ~MpscOwned(k)
    <3>1. MpscInside(mpscHead)
      BY <1>0, <1>1 DEF MpscInside
    <3>2. Mpsc!Cell(k) # Mpsc!Cell(mpscHead)
      BY <1>3, <2>3, <3>1, MpscCellsApart DEF MpscFacts
    <3>3. data'[Mpsc!Cell(k)] = data[Mpsc!Cell(k)]
      BY <1>0, <1>3, <3>2, MpscCellRange DEF MpscFacts, MpscIInv, MpscTypes, MpscInside
    <3> QED
      BY <1>3, <2>1, <2>3, <3>3 DEF MpscFacts, MpscItemsOK
  <2>4. CASE MpscOwned(k)
    <3>1. PICK q \in MpscProducers : MpscClaimed(q) /\ push[q].pos = k
      BY <2>4 DEF MpscOwned
    <3>2. Mpsc!ItemAt(k) = push[q].item
      BY <1>3, <3>1 DEF MpscFacts, MpscItemsOK
    <3>3. Mpsc!ItemAt(k)' = push'[q].item
      BY <1>0, <1>2, <2>1, <3>1 DEF MpscFacts, MpscItemsOK
    <3> QED
      BY <1>0, <3>2, <3>3
  <2> QED
    BY <2>2, <2>3, <2>4
<1> QED
  BY <1>0, <1>1, <1>3, MpscSameContents DEF MpscFacts

(* Handing the cell on is the moment at which the item is outside.         *)
LEMMA MpscFreePops ==
    ASSUME MpscFacts, MpscFacts', Mpsc!PopFree
    PROVE  Mpsc!Fifo!Pop
<1>0. /\ UNCHANGED <<mpscHead, mpscTail, data, push>> /\ mpscOut' = <<mpscItem>>
      /\ pop = "free" /\ pop' = "move" /\ mpscHead \in Nat /\ mpscTail \in Nat /\ mpscHead < mpscTail
  BY DEF Mpsc!PopFree, MpscFacts, MpscIInv, MpscTypes, MpscWindow
<1>1. Mpsc!First' = mpscHead + 1 /\ Mpsc!First = mpscHead
  BY <1>0 DEF Mpsc!First
<1>2. \A q \in MpscProducers : MpscClaimed(q)' <=> MpscClaimed(q)
  BY <1>0 DEF MpscClaimed
<1>3. ASSUME NEW k, MpscInside(k), k # mpscHead PROVE Mpsc!ItemAt(k)' = Mpsc!ItemAt(k)
  <2>1. MpscInside(k)' /\ ~MpscHeld(k)' /\ ~MpscHeld(k) /\ (MpscOwned(k)' <=> MpscOwned(k)) /\ Mpsc!Cell(k)' = Mpsc!Cell(k)
    BY <1>0, <1>1, <1>2, <1>3 DEF MpscInside, MpscHeld, MpscOwned, Mpsc!Cell
  <2>2. CASE ~MpscOwned(k)
    BY <1>0, <1>3, <2>1, <2>2 DEF MpscFacts, MpscItemsOK
  <2>3. CASE MpscOwned(k)
    <3>1. PICK q \in MpscProducers : MpscClaimed(q) /\ push[q].pos = k
      BY <2>3 DEF MpscOwned
    <3>2. Mpsc!ItemAt(k) = push[q].item
      BY <1>3, <3>1 DEF MpscFacts, MpscItemsOK
    <3>3. Mpsc!ItemAt(k)' = push'[q].item
      BY <1>0, <1>2, <2>1, <3>1 DEF MpscFacts, MpscItemsOK
    <3> QED
      BY <1>0, <3>2, <3>3
  <2> QED
    BY <2>2, <2>3
<1>4. /\ Mpsc!Contents \in Seq(MpscValues) /\ Mpsc!Contents' \in Seq(MpscValues)
      /\ Len(Mpsc!Contents) = mpscTail - mpscHead /\ Len(Mpsc!Contents') = mpscTail - mpscHead - 1
  BY <1>0, <1>1 DEF MpscFacts, MpscContentsOK
<1>5. Mpsc!Contents[1] = mpscItem
  <2>1. MpscInside(mpscHead) /\ MpscHeld(mpscHead) /\ 1 \in 1 .. (mpscTail - Mpsc!First) /\ Mpsc!First + 1 - 1 = mpscHead
    BY <1>0, <1>1 DEF MpscInside, MpscHeld
  <2>2. Mpsc!Contents[1] = Mpsc!ItemAt(mpscHead)
    BY <2>1 DEF MpscFacts, MpscContentsOK
  <2> QED
    BY <2>1, <2>2 DEF MpscFacts, MpscItemsOK
<1>6. ASSUME NEW i \in 1 .. (mpscTail - mpscHead - 1) PROVE Mpsc!Contents'[i] = Mpsc!Contents[i + 1]
  <2>1. /\ i \in 1 .. (mpscTail' - Mpsc!First') /\ i + 1 \in 1 .. (mpscTail - Mpsc!First)
        /\ Mpsc!First' + i - 1 = mpscHead + i /\ Mpsc!First + (i + 1) - 1 = mpscHead + i
        /\ MpscInside(mpscHead + i) /\ mpscHead + i # mpscHead
    BY <1>0, <1>1 DEF MpscInside
  <2>2. Mpsc!Contents[i + 1] = Mpsc!ItemAt(mpscHead + i)
    BY <2>1 DEF MpscFacts, MpscContentsOK
  <2>3. \A k : k = mpscHead + i => Mpsc!Contents'[i] = Mpsc!ItemAt(k)'
    BY <2>1 DEF MpscFacts, MpscContentsOK
  <2> QED
    BY <1>3, <2>1, <2>2, <2>3
<1>7. Mpsc!Contents' = Tail(Mpsc!Contents)
  <2>1. Len(Mpsc!Contents) = Len(Mpsc!Contents') + 1
    BY <1>0, <1>4
  <2> QED
    BY <1>4, <1>6, <2>1, MpscTailIs
<1>8. Mpsc!Contents # <<>> /\ Head(Mpsc!Contents) = mpscItem
  BY <1>0, <1>4, <1>5
<1> QED
  BY <1>0, <1>7, <1>8 DEF Mpsc!Fifo!Pop

LEMMA MpscMoveKeeps ==
    ASSUME MpscFacts, MpscFacts', Mpsc!PopMove
    PROVE  UNCHANGED <<Mpsc!Contents, mpscOut>>
<1>0. /\ UNCHANGED <<mpscTail, data, push, mpscOut>> /\ pop = "move" /\ pop' = "idle" /\ Mpsc!First' = Mpsc!First
  BY DEF Mpsc!PopMove, Mpsc!First
<1>1. \A q \in MpscProducers : MpscClaimed(q)' <=> MpscClaimed(q)
  BY <1>0 DEF MpscClaimed
<1>2. ASSUME NEW k, MpscInside(k) PROVE Mpsc!ItemAt(k)' = Mpsc!ItemAt(k)
  <2>1. MpscInside(k)' /\ ~MpscHeld(k)' /\ ~MpscHeld(k) /\ (MpscOwned(k)' <=> MpscOwned(k)) /\ Mpsc!Cell(k)' = Mpsc!Cell(k)
    BY <1>0, <1>1, <1>2 DEF MpscInside, MpscHeld, MpscOwned, Mpsc!Cell
  <2>2. CASE ~MpscOwned(k)
    BY <1>0, <1>2, <2>1, <2>2 DEF MpscFacts, MpscItemsOK
  <2>3. CASE MpscOwned(k)
    <3>1. PICK q \in MpscProducers : MpscClaimed(q) /\ push[q].pos = k
      BY <2>3 DEF MpscOwned
    <3>2. Mpsc!ItemAt(k) = push[q].item
      BY <1>2, <3>1 DEF MpscFacts, MpscItemsOK
    <3>3. Mpsc!ItemAt(k)' = push'[q].item
      BY <1>0, <1>1, <2>1, <3>1 DEF MpscFacts, MpscItemsOK
    <3> QED
      BY <1>0, <3>2, <3>3
  <2> QED
    BY <2>2, <2>3
<1> QED
  BY <1>0, <1>2, MpscSameContents DEF MpscFacts

LEMMA MpscStepSimulates ==
    MpscRingOK /\ MpscIInv /\ MpscIInv' /\ [Mpsc!Next]_(Mpsc!vars) => [Mpsc!Fifo!Next]_<<Mpsc!Contents, mpscOut>>
<1> SUFFICES ASSUME MpscRingOK, MpscIInv, MpscIInv', [Mpsc!Next]_(Mpsc!vars)
             PROVE  [Mpsc!Fifo!Next]_<<Mpsc!Contents, mpscOut>>
  OBVIOUS
<1>0. MpscFacts /\ MpscFacts'
  BY MpscFactsHold
<1>1. ASSUME NEW p \in MpscProducers, Mpsc!TryPush(p)
      PROVE  UNCHANGED <<Mpsc!Contents, mpscOut>> \/ Mpsc!Fifo!Next
  BY <1>0, <1>1, MpscLoadKeeps, MpscCompareKeeps, MpscSwapPushes, MpscWriteKeeps, MpscPublishKeeps DEF Mpsc!TryPush
<1>2. ASSUME Mpsc!TryPop PROVE UNCHANGED <<Mpsc!Contents, mpscOut>> \/ Mpsc!Fifo!Next
  BY <1>0, <1>2, MpscTakeKeeps, MpscFreePops, MpscMoveKeeps DEF Mpsc!TryPop, Mpsc!Fifo!Next
<1>3. ASSUME UNCHANGED Mpsc!vars PROVE UNCHANGED <<Mpsc!Contents, mpscOut>>
  <2>1. UNCHANGED <<mpscHead, mpscTail, data, pop, mpscItem>>
    BY <1>3 DEF Mpsc!vars
  <2>2. push' = push /\ mpscOut' = mpscOut
    BY <1>3 DEF Mpsc!vars
  <2> QED
    BY <1>0, <2>1, <2>2, MpscQuietContents DEF MpscClaimed
<1> QED
  BY <1>1, <1>2, <1>3 DEF Mpsc!Next

LEMMA MpscInitFifo == Mpsc!Init => Mpsc!Fifo!Init
  BY DEF Mpsc!Init, Mpsc!Fifo!Init, Mpsc!Contents, Mpsc!First

(* However many producers race for the tail, MpscQueue is a bounded queue, *)
(* for every set of items and every ring of at least two cells.            *)
THEOREM MpscRingIsFifo == Mpsc!Spec => MpscIsFifo
<1>0. MpscRingOK
  BY MpscAssumption DEF MpscRingOK
<1>1. Mpsc!Init => MpscIInv
  BY <1>0, MpscInitIInv
<1>2. MpscIInv /\ [Mpsc!Next]_(Mpsc!vars) => MpscIInv'
  BY <1>0, MpscStepIInv
<1>3. MpscIInv /\ MpscIInv' /\ [Mpsc!Next]_(Mpsc!vars) => [Mpsc!Fifo!Next]_<<Mpsc!Contents, mpscOut>>
  BY <1>0, MpscStepSimulates
<1> QED
  BY <1>1, <1>2, <1>3, MpscInitFifo, PTL DEF MpscIsFifo, Mpsc!Spec, Mpsc!MpscIsFifo, Mpsc!Fifo!Spec

-----------------------------------------------------------------------------

(* The single-producer ring.                                               *)

OneProducer == \A p, q \in Producers : p = q

USE DEF vars

-----------------------------------------------------------------------------

LEMMA SuccFacts ==
    ASSUME NEW i \in Indexes
    PROVE  Succ(i) \in Indexes /\ Succ(i) # i
  BY SlotsAssumption DEF Succ, Indexes

LEMMA SizeFacts ==
    ASSUME TypeOK
    PROVE  /\ Size \in 0..(Slots - 1)
           /\ head = tail <=> Size = 0
           /\ Full <=> Size = Slots - 1
           /\ \A i \in 1..Size : SlotOf(i) \in Indexes /\ SlotOf(i) # tail
           /\ \A i \in 1..Size : SlotOf(i) = head <=> i = 1
  BY SlotsAssumption DEF TypeOK, Size, Full, Succ, SlotOf, Indexes

LEMMA InitIInv == Init => IInv
  BY SlotsAssumption DEF Init, IInv, TypeOK, ProducerOwnsSlot, ConsumerOwnsItem,
     InsideAreValues, Size, Indexes

LEMMA IInvStep == OneProducer /\ IInv /\ [Next]_vars => IInv'
<1> SUFFICES ASSUME OneProducer, IInv, [Next]_vars PROVE IInv'
  OBVIOUS
<1> USE SlotsAssumption, NoValueAssumption DEF IInv
<1>1. ASSUME NEW p \in Producers, NEW x \in Values, PushCheck(p, x) PROVE IInv'
  <2>1. TypeOK'
    BY <1>1 DEF PushCheck, TypeOK
  <2>2. ProducerOwnsSlot'
    BY <1>1 DEF PushCheck, TypeOK, ProducerOwnsSlot, Full, OneProducer
  <2>3. ConsumerOwnsItem' /\ InsideAreValues'
    BY <1>1 DEF PushCheck, ConsumerOwnsItem, InsideAreValues, Size, SlotOf
  <2> QED
    BY <2>1, <2>2, <2>3
<1>2. ASSUME NEW p \in Producers, PushWrite(p) PROVE IInv'
  <2>1. TypeOK'
    BY <1>2 DEF PushWrite, TypeOK
  <2>2. ProducerOwnsSlot'
    BY <1>2 DEF PushWrite, TypeOK, ProducerOwnsSlot, Full, OneProducer
  <2>3. ConsumerOwnsItem'
    BY <1>2 DEF PushWrite, ConsumerOwnsItem
  <2>4. InsideAreValues'
    BY <1>2, SizeFacts DEF PushWrite, TypeOK, ProducerOwnsSlot, InsideAreValues, Size, SlotOf
  <2> QED
    BY <2>1, <2>2, <2>3, <2>4
<1>3. ASSUME NEW p \in Producers, PushPublish(p) PROVE IInv'
  <2>0. pushAt[p] = tail /\ tail' = Succ(tail) /\ ~Full /\ buf[tail] \in Values
    BY <1>3 DEF PushPublish, ProducerOwnsSlot
  <2>1. TypeOK'
    BY <1>3, <2>0, SuccFacts DEF PushPublish, TypeOK
  <2>2. ProducerOwnsSlot'
    BY <1>3 DEF PushPublish, TypeOK, ProducerOwnsSlot, OneProducer
  <2>3. ConsumerOwnsItem'
    BY <1>3, <2>0 DEF PushPublish, ConsumerOwnsItem, Full
  <2>4. InsideAreValues'
    <3>1. Size' = Size + 1 /\ SlotOf(Size + 1) = tail
      BY <1>3, <2>0 DEF PushPublish, TypeOK, Size, SlotOf, Full, Succ, Indexes
    <3>2. Size \in Nat
      BY SizeFacts
    <3>3. \A i \in 1..Size' : i \in 1..Size \/ i = Size + 1
      BY <3>1, <3>2
    <3>4. \A i \in 1..Size' : SlotOf(i)' = SlotOf(i)
      BY <1>3 DEF PushPublish, SlotOf
    <3> QED
      BY <1>3, <2>0, <3>1, <3>3, <3>4 DEF PushPublish, InsideAreValues
  <2> QED
    BY <2>1, <2>2, <2>3, <2>4
<1>4. CASE PopCheck
  BY <1>4 DEF PopCheck, TypeOK, ProducerOwnsSlot, ConsumerOwnsItem, InsideAreValues,
     Size, SlotOf, Full
<1>5. CASE PopTake
  <2>0. head # tail /\ Size >= 1 /\ SlotOf(1) = head /\ buf[head] \in Values
    BY <1>5, SizeFacts DEF PopTake, ConsumerOwnsItem, InsideAreValues, TypeOK, SlotOf, Indexes
  <2>1. TypeOK'
    BY <1>5, <2>0 DEF PopTake, TypeOK
  <2>2. ProducerOwnsSlot'
    BY <1>5, <2>0 DEF PopTake, TypeOK, ProducerOwnsSlot, Full
  <2>3. ConsumerOwnsItem'
    BY <1>5, <2>0 DEF PopTake, ConsumerOwnsItem
  <2>4. InsideAreValues'
    BY <1>5, <2>0, SizeFacts DEF PopTake, TypeOK, InsideAreValues, Size, SlotOf
  <2> QED
    BY <2>1, <2>2, <2>3, <2>4
<1>6. CASE PopFree
  <2>0. head # tail
    BY <1>6 DEF PopFree, ConsumerOwnsItem
  <2>1. TypeOK'
    BY <1>6, SuccFacts DEF PopFree, TypeOK
  <2>2. ProducerOwnsSlot'
    BY <1>6, <2>0 DEF PopFree, TypeOK, ProducerOwnsSlot, Full, Succ, Indexes
  <2>3. ConsumerOwnsItem'
    BY <1>6 DEF PopFree, ConsumerOwnsItem
  <2>4. InsideAreValues'
    <3> SUFFICES ASSUME NEW i \in 1..Size' PROVE buf[SlotOf(i)'] \in Values
      BY <1>6 DEF PopFree, InsideAreValues
    <3>1. i + 1 \in 1..Size /\ SlotOf(i)' = SlotOf(i + 1)
      BY <1>6, <2>0 DEF PopFree, TypeOK, Size, SlotOf, Succ, Indexes
    <3> QED
      BY <3>1 DEF InsideAreValues
  <2> QED
    BY <2>1, <2>2, <2>3, <2>4
<1>7. CASE UNCHANGED vars
  BY <1>7 DEF TypeOK, ProducerOwnsSlot, ConsumerOwnsItem, InsideAreValues, Size, SlotOf, Full
<1> QED
  BY <1>1, <1>2, <1>3, <1>4, <1>5, <1>6, <1>7 DEF Next, TryPush, TryPop

-----------------------------------------------------------------------------

\* Two sequences of the same length with the same elements are equal.
LEMMA AppendIs ==
    ASSUME NEW S, NEW s \in Seq(S), NEW t \in Seq(S), NEW x \in S,
           Len(t) = Len(s) + 1,
           t[Len(t)] = x,
           \A i \in 1..Len(s) : t[i] = s[i]
    PROVE  t = Append(s, x)
  BY SMT

LEMMA TailIs ==
    ASSUME NEW S, NEW s \in Seq(S), NEW t \in Seq(S),
           Len(s) = Len(t) + 1,
           \A i \in 1..Len(t) : t[i] = s[i + 1]
    PROVE  t = Tail(s)
  BY SMT

ContentsOK ==
    /\ Contents \in Seq(Values)
    /\ Len(Contents) = Size
    /\ Size \in 0..(Slots - 1)

LEMMA ContentsFacts == IInv => ContentsOK
<1> SUFFICES ASSUME IInv PROVE ContentsOK
  OBVIOUS
<1>1. Size \in 0..(Slots - 1)
  BY SizeFacts DEF IInv
<1>2. Contents \in [1..Size -> Values]
  BY DEF Contents, IInv, InsideAreValues, ConsumerOwnsItem
<1> QED
  BY <1>1, <1>2 DEF Contents, ContentsOK

LEMMA ContentsFactsNext == IInv' => ContentsOK'
  BY ContentsFacts, PTL

-----------------------------------------------------------------------------

\* Publishing the new tail is the moment at which the item is inside.
LEMMA PublishPushes ==
    ASSUME IInv, ContentsOK, ContentsOK', NEW p \in Producers, PushPublish(p)
    PROVE  Fifo!Push(pushItem[p])
<1> USE SlotsAssumption
<1>1. /\ tail' = Succ(tail) /\ ~Full
      /\ pushItem[p] \in Values /\ buf[tail] = pushItem[p]
  BY DEF PushPublish, IInv, ProducerOwnsSlot
<1>2. Size' = Size + 1 /\ SlotOf(Size + 1) = tail
  <2>1. head \in Indexes /\ tail \in Indexes /\ head' = head
    BY DEF IInv, TypeOK, PushPublish
  <2> QED
    BY <1>1, <2>1 DEF Size, SlotOf, Full, Succ, Indexes
<1>3. popPc = "free" => Size >= 1
  BY SizeFacts DEF IInv, ConsumerOwnsItem
<1>4. \A i \in 1..Size' : SlotOf(i)' = SlotOf(i)
  BY DEF PushPublish, SlotOf
<1>5. Contents'[Size + 1] = pushItem[p]
  BY <1>1, <1>2, <1>3, <1>4 DEF PushPublish, Contents, ContentsOK
<1>6. \A i \in 1..Size : Contents'[i] = Contents[i]
  BY <1>2, <1>4 DEF PushPublish, Contents, ContentsOK
<1>7. Contents' = Append(Contents, pushItem[p])
  BY <1>1, <1>2, <1>5, <1>6, AppendIs DEF ContentsOK
<1>8. Len(Contents) < Slots - 1
  BY <1>2 DEF ContentsOK
<1> QED
  BY <1>7, <1>8 DEF Fifo!Push, PushPublish

\* Publishing the new head is the moment at which it is outside.
LEMMA FreePops ==
    ASSUME IInv, ContentsOK, ContentsOK', PopFree
    PROVE  Fifo!Pop
<1> USE SlotsAssumption
<1>1. head # tail /\ head' = Succ(head)
  BY DEF PopFree, IInv, ConsumerOwnsItem
<1>2. Size = Size' + 1 /\ Size' \in Nat
  BY <1>1 DEF PopFree, IInv, TypeOK, Size, Succ, Indexes
<1>3. \A i \in 1..Size' : SlotOf(i)' = SlotOf(i + 1)
  BY <1>1 DEF PopFree, IInv, TypeOK, Size, SlotOf, Succ, Indexes
<1>4. /\ 1 \in 1..Size
      /\ \A i \in 1..Size' : i + 1 \in 1..Size /\ i + 1 # 1
  <2>1. ASSUME NEW m, NEW n \in Nat, m = n + 1
        PROVE  1 \in 1..m /\ \A i \in 1..n : i + 1 \in 1..m /\ i + 1 # 1
    BY <2>1
  <2> QED
    BY <1>2, <2>1
<1>5. Contents[1] = item
  BY <1>4 DEF PopFree, Contents
<1>6. \A i \in 1..Size' : Contents'[i] = Contents[i + 1]
  BY <1>3, <1>4 DEF PopFree, Contents
<1>7. Contents' = Tail(Contents)
  BY <1>2, <1>6, TailIs DEF ContentsOK
<1>8. Contents # <<>> /\ Head(Contents) = item
  BY <1>4, <1>5 DEF ContentsOK
<1> QED
  BY <1>7, <1>8 DEF Fifo!Pop, PopFree

\* Every step of the ring is a step of the queue or leaves it alone.
LEMMA StepSimulates ==
    OneProducer /\ IInv /\ IInv' /\ [Next]_vars => [Fifo!Next]_<<Contents, out>>
<1> SUFFICES ASSUME OneProducer, IInv, IInv', [Next]_vars
             PROVE  [Fifo!Next]_<<Contents, out>>
  OBVIOUS
<1> USE SlotsAssumption
<1>0. ContentsOK /\ ContentsOK'
  BY ContentsFacts, ContentsFactsNext
<1>1. ASSUME NEW p \in Producers, NEW x \in Values, PushCheck(p, x)
      PROVE UNCHANGED <<Contents, out>>
  BY <1>1 DEF PushCheck, Contents, Size, SlotOf
<1>2. ASSUME NEW p \in Producers, PushWrite(p) PROVE UNCHANGED <<Contents, out>>
  BY <1>2, SizeFacts DEF PushWrite, Contents, Size, SlotOf, IInv, TypeOK, ProducerOwnsSlot
<1>3. ASSUME NEW p \in Producers, PushPublish(p) PROVE Fifo!Next
  BY <1>0, <1>3, PublishPushes DEF Fifo!Next, IInv, ProducerOwnsSlot, PushPublish
<1>4. ASSUME PopCheck PROVE UNCHANGED <<Contents, out>>
  BY <1>4 DEF PopCheck, Contents, Size, SlotOf
<1>5. ASSUME PopTake PROVE UNCHANGED <<Contents, out>>
  <2>1. SlotOf(1) = head /\ \A i \in 1..Size : SlotOf(i) = head <=> i = 1
    BY SizeFacts DEF SlotOf, IInv, TypeOK, Indexes
  <2>2. Size' = Size /\ \A i \in 1..Size : SlotOf(i)' = SlotOf(i)
    BY <1>5 DEF PopTake, Size, SlotOf
  <2> QED
    BY <1>5, <2>1, <2>2, SizeFacts DEF PopTake, Contents, IInv, TypeOK
<1>6. ASSUME PopFree PROVE Fifo!Next
  BY <1>0, <1>6, FreePops DEF Fifo!Next
<1>7. ASSUME UNCHANGED vars PROVE UNCHANGED <<Contents, out>>
  BY <1>7 DEF Contents, Size, SlotOf
<1> QED
  BY <1>1, <1>2, <1>3, <1>4, <1>5, <1>6, <1>7 DEF Next, TryPush, TryPop

\* The empty ring is the empty queue.
LEMMA InitFifo == Init => Fifo!Init
  BY SlotsAssumption DEF Init, Fifo!Init, Contents, Size

\* A ring with one producer implements the bounded queue.
THEOREM RingIsFifo == OneProducer => (Spec => IsFifo)
<1> SUFFICES ASSUME OneProducer PROVE Spec => IsFifo
  OBVIOUS
<1>1. IInv /\ [Next]_vars => IInv'
  BY IInvStep
<1>2. IInv /\ IInv' /\ [Next]_vars => [Fifo!Next]_<<Contents, out>>
  BY StepSimulates
<1> QED
  BY <1>1, <1>2, InitIInv, InitFifo, PTL DEF Spec, IsFifo, Fifo!Spec
=============================================================================
