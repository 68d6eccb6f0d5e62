---------------------------- MODULE ConnectionPool --------------------------
(***************************************************************************)
(* ConnectionPool: slots that hold a connection or are empty, the count    *)
(* available_, and threads that wait on the condition variable.  A thread  *)
(* that waits has released the mutex: it acts again only when notified.    *)
(* start, stop, acquire up to its wait, and release hold the mutex.        *)
(*                                                                         *)
(* start and stop have no guard: a pool may be started twice, stopped with *)
(* connections handed out, and started again after that.                   *)
(***************************************************************************)
EXTENDS Integers, Sequences, SequencesExt, FiniteSets

CONSTANTS
    Threads,
    Size,       \* size_
    MaxMade     \* bound: connections made in all

Empty == 0      \* a slot whose connection is handed out

VARIABLES
    pool,       \* pool_: the slots
    available,  \* available_
    thread,     \* by thread: where it is
    held,       \* by thread: its connection
    made,       \* connections made so far
    discarded,  \* history: connections that a stop destroyed
    over,       \* history: the last start found slots that were empty
    under,      \* history: a start since has failed part-way
    passed      \* history: threads asleep when a start or a stop went by

vars == <<pool, available, thread, held, made, discarded, over, under, passed>>

Init ==
    /\ pool = <<>> /\ available = 0 /\ made = 0 /\ discarded = 0
    /\ thread = [t \in Threads |-> "idle"] /\ held = [t \in Threads |-> Empty]
    /\ over = FALSE /\ under = FALSE /\ passed = {}

AtState(s) == {t \in Threads : thread[t] = s}
Free == {i \in DOMAIN pool : pool[i] # Empty}
Holders == {t \in Threads : held[t] # Empty}

-----------------------------------------------------------------------------

\* start: the connections are made one by one and the count is set at the end,
\* from the number of slots; at the first connection that fails start returns,
\* and keeps those it has made.
Start(k) ==
    /\ made + k <= MaxMade
    /\ pool' = pool \o [i \in 1 .. k |-> made + i] /\ made' = made + k
    /\ \/ /\ k = Size
          /\ available' = Len(pool') /\ passed' = AtState("asleep")
          /\ over' = (Free # DOMAIN pool) /\ under' = FALSE
       \/ /\ k < Size
          /\ under' = (under \/ k > 0) /\ UNCHANGED <<available, over, passed>>
    /\ UNCHANGED <<thread, held, discarded>>

\* stop wakes nobody.
Stop ==
    /\ pool' = <<>> /\ available' = 0
    /\ discarded' = discarded + Cardinality(Free)
    /\ over' = FALSE /\ under' = FALSE /\ passed' = AtState("asleep")
    /\ UNCHANGED <<thread, held, made>>

First(full) == CHOOSE i \in DOMAIN pool :
    /\ (pool[i] # Empty) = full
    /\ \A j \in 1 .. i - 1 : (pool[j] # Empty) # full

\* --available_.
CountTaken == available - 1

\* acquire finds its condition true: it takes the first connection there is, or
\* comes back with none.
Acquire(t) ==
    /\ thread[t] \in {"idle", "woken"} /\ (available > 0 \/ pool = <<>>)
    /\ \/ /\ \E i \in DOMAIN pool : pool[i] # Empty
          /\ held' = [held EXCEPT ![t] = pool[First(TRUE)]]
          /\ pool' = [pool EXCEPT ![First(TRUE)] = Empty]
          /\ available' = CountTaken /\ thread' = [thread EXCEPT ![t] = "holds"]
       \/ /\ \A i \in DOMAIN pool : pool[i] = Empty
          /\ thread' = [thread EXCEPT ![t] = "idle"] /\ UNCHANGED <<pool, available, held>>
    /\ UNCHANGED <<made, discarded, over, under, passed>>

\* acquire finds it false, and waits.
Wait(t) ==
    /\ thread[t] \in {"idle", "woken"} /\ available = 0 /\ pool # <<>>
    /\ thread' = [thread EXCEPT ![t] = "asleep"]
    /\ UNCHANGED <<pool, available, held, made, discarded, over, under, passed>>

\* Mutant: release notifies only when it had to add a slot.
NotifyOnPush(from, to, pushed) == IF pushed THEN Cardinality({u \in Threads : from[u] # to[u]}) <= 1 ELSE to = from

\* notify_one: one of those asleep, if there is any.
NotifyOne(from, to, pushed) ==
    IF \E u \in Threads : from[u] = "asleep"
    THEN \E u \in Threads : from[u] = "asleep" /\ to = [from EXCEPT ![u] = "woken"]
    ELSE to = from

\* release: into the first empty slot, or behind the others.
Release(t) ==
    LET pushed == \A i \in DOMAIN pool : pool[i] # Empty
        freed == [thread EXCEPT ![t] = "idle"] IN
    /\ thread[t] = "holds"
    /\ pool' = IF pushed THEN Append(pool, held[t]) ELSE [pool EXCEPT ![First(FALSE)] = held[t]]
    /\ available' = available + 1
    /\ held' = [held EXCEPT ![t] = Empty]
    /\ thread' \in {freed} \cup {[freed EXCEPT ![u] = "woken"] : u \in Threads}
    /\ NotifyOne(freed, thread', pushed)
    /\ passed' = {u \in passed : thread'[u] = "asleep"}
    /\ UNCHANGED <<made, discarded, over, under>>

Next ==
    \/ Stop \/ \E k \in 0 .. Size : Start(k)
    \/ \E t \in Threads : Acquire(t) \/ Wait(t) \/ Release(t)

Spec == Init /\ [][Next]_vars

-----------------------------------------------------------------------------

(* No wake-up is lost: while a thread is asleep that no start or stop went *)
(* by, as many threads have been woken and are on their way to the         *)
(* connections as available_ counts.  Neither start nor stop notifies      *)
(* anybody (connection_pool.hpp:24 and 32): whoever was asleep before them *)
(* is woken by later releases alone.  And a count that is too high sends a *)
(* woken thread away with nothing and the wake-up with it.                 *)
NoLostWakeup ==
    ~over /\ AtState("asleep") \ passed # {} => available <= Cardinality(AtState("woken"))

(* available_ is the number of connections in their slots, through every   *)
(* sequence of starts and stops, but in two cases: it is higher only after *)
(* a start over slots whose connections are handed out, since start counts *)
(* the slots (line 24), and lower only after a start that failed part-way  *)
(* (line 21), until the next start that succeeds or the next stop.         *)
CountIsFree ==
    /\ ~over => available <= Cardinality(Free)
    /\ ~under => available >= Cardinality(Free)

(* A connection is in one slot or with one thread, and there is no other   *)
(* way to lose one than a stop that destroys what is in the slots.         *)
EachInOnePlace ==
    /\ Cardinality({pool[i] : i \in Free} \cup {held[t] : t \in Holders}) = Cardinality(Free) + Cardinality(Holders)
    /\ Cardinality(Free) + Cardinality(Holders) + discarded = made

(* The pool keeps count of its connections, and nobody sleeps beside a     *)
(* free one.                                                               *)
PoolSound == NoLostWakeup /\ CountIsFree /\ EachInOnePlace

-----------------------------------------------------------------------------
(* The inductive invariant.                                                *)

TypeOK ==
    /\ pool \in Seq(Nat) /\ available \in Nat /\ made \in Nat /\ discarded \in Nat
    /\ thread \in [Threads -> {"idle", "asleep", "woken", "holds"}]
    /\ held \in [Threads -> Nat]
    /\ over \in BOOLEAN /\ under \in BOOLEAN /\ passed \subseteq Threads

Hands == \A t \in Threads : held[t] # Empty <=> thread[t] = "holds"

\* A connection is in one slot or with one thread, and has been made.
Apart ==
    /\ \A i, j \in Free : pool[i] = pool[j] => i = j
    /\ \A t, u \in Holders : held[t] = held[u] => t = u
    /\ \A i \in Free, t \in Holders : pool[i] # held[t]
    /\ \A i \in Free : pool[i] <= made
    /\ \A t \in Holders : held[t] <= made

Books == CountIsFree /\ Cardinality(Free) + Cardinality(Holders) + discarded = made

IInv == TypeOK /\ Hands /\ Apart /\ Books /\ NoLostWakeup

=============================================================================
