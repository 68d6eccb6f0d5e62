---------------------------- MODULE OnlineWindows ---------------------------
(***************************************************************************)
(* The in-memory statistics of prediction/online: families of identical    *)
(* classes (SlidingWindows0 to 29, RingBuffers0 to 29, Histograms0 to 24,  *)
(* EventJournal0 to 59, FeatureStoreShard0 to 49, FixedHist0 to 79,        *)
(* OnlineStat0 to 39; OnlineStat40 to 99 keep the same mean and no m2_),   *)
(* so one instance of each family stands for all.                          *)
(*                                                                         *)
(* Every member function holds the instance's mutex, and no longer: what a *)
(* reader computes from two calls (mean takes size and then sum; a scan    *)
(* takes size and then each entry; a dump takes keys and then each value)  *)
(* is spread over steps between which a writer runs.  A behaviour is about *)
(* one family.                                                             *)
(***************************************************************************)
EXTENDS Integers, Sequences, FiniteSets, FiniteSetsExt

CONSTANTS
    Samples,    \* integers added to windows and statistics
    Points,     \* hundredths added to histograms
    Cap,        \* cap_, 256, and 1000 of the journals
    Bins,       \* 20
    Keys,
    Scale,      \* unit of means: every count up to MaxAdds divides it, so they are exact
    MaxAdds     \* bound: additions

NaN == 1000000  \* stands for NaN, and is no point
Families == {"window", "journal", "store", "hist", "stat"}
Idle == [pc |-> "idle", n |-> 0, at |-> 0, out |-> <<>>, keys |-> {}]

VARIABLES
    family,
    adds,       \* history: what was added, in order
    data,       \* data_, log_: entries <<number of the addition, value>>
    store,      \* m_
    counts, n,  \* counts_ and n_ of a histogram, n_ of a statistic
    mean, m2,   \* mean_ times Scale, m2_ times Scale^3
    reader,     \* the reader between two calls
    cleared     \* history: clear was called since the reader began

vars == <<family, adds, data, store, counts, n, mean, m2, reader, cleared>>

Init ==
    /\ family \in Families /\ adds = <<>> /\ data = <<>> /\ store = [k \in {} |-> 0]
    /\ counts = [b \in 0 .. Bins - 1 |-> 0] /\ n = 0 /\ mean = 0 /\ m2 = 0
    /\ reader = Idle /\ cleared = FALSE

Add(x) == Len(adds) < MaxAdds /\ adds' = Append(adds, x)

-----------------------------------------------------------------------------
(* Windows and journals.                                                   *)

\* while (size > cap) pop_front.
Trimmed(s) == IF Len(s) > Cap THEN Tail(s) ELSE s

Push(x) ==
    /\ family = "window" /\ Add(x)
    /\ data' = Trimmed(Append(data, <<Len(adds'), x>>))
    /\ UNCHANGED <<family, store, counts, n, mean, m2, reader, cleared>>

\* The sums of the first entries of a sequence of numbers, and of all of them.
Sums(s) == LET f[i \in 0 .. Len(s)] == IF i = 0 THEN 0 ELSE f[i - 1] + s[i] IN f
SumOf(s) == Sums(s)[Len(s)]

WindowSum == SumOf([i \in 1 .. Len(data) |-> data[i][2]])

\* mean: the size under one lock ...
MeanSize ==
    /\ family = "window" /\ reader.pc = "idle" /\ data # <<>>
    /\ reader' = [Idle EXCEPT !.pc = "sum", !.n = Len(data)]
    /\ UNCHANGED <<family, adds, data, store, counts, n, mean, m2, cleared>>

\* ... and the sum under another; out is the quotient's two sides, and the size
\* and the number of additions that the sum was taken at.
MeanSum ==
    /\ family = "window" /\ reader.pc = "sum"
    /\ reader' = [reader EXCEPT !.pc = "idle", !.out = <<WindowSum, reader.n, Len(data), Len(adds)>>]
    /\ UNCHANGED <<family, adds, data, store, counts, n, mean, m2, cleared>>

\* push_back, and erase(begin()) beyond the capacity.
Journalled(s, e) == IF Len(s) >= Cap THEN Append(Tail(s), e) ELSE Append(s, e)

JournalAppend(x) ==
    /\ family = "journal" /\ Add(x)
    /\ data' = Journalled(data, <<Len(adds'), x>>)
    /\ UNCHANGED <<family, store, counts, n, mean, m2, reader, cleared>>
JournalClear ==
    /\ family = "journal" /\ data # <<>> /\ data' = <<>>
    /\ UNCHANGED <<family, adds, store, counts, n, mean, m2, reader, cleared>>

\* A scan: size, ...
JournalSize ==
    /\ family = "journal" /\ reader.pc = "idle"
    /\ reader' = [Idle EXCEPT !.pc = "scan", !.n = Len(data)]
    /\ UNCHANGED <<family, adds, data, store, counts, n, mean, m2, cleared>>

\* ... and at(i) for each i below it; an index beyond the end gives nothing.
JournalAt ==
    /\ family = "journal" /\ reader.pc = "scan"
    /\ reader' = IF reader.at = reader.n THEN [reader EXCEPT !.pc = "idle"]
                 ELSE [reader EXCEPT !.at = @ + 1,
                           !.out = IF reader.at < Len(data) THEN Append(@, data[reader.at + 1][1]) ELSE @]
    /\ UNCHANGED <<family, adds, data, store, counts, n, mean, m2, cleared>>

-----------------------------------------------------------------------------
(* Feature stores; the value of the i-th addition is i.                    *)

\* m_[key] = v.
Assigned(k, v) == [i \in DOMAIN store \cup {k} |-> IF i = k THEN v ELSE store[i]]

Put(k) ==
    /\ family = "store" /\ Add(k) /\ store' = Assigned(k, Len(adds'))
    /\ UNCHANGED <<family, data, counts, n, mean, m2, reader, cleared>>
StoreClear ==
    /\ family = "store" /\ store' = [k \in {} |-> 0] /\ cleared' = TRUE
    /\ UNCHANGED <<family, adds, data, counts, n, mean, m2, reader>>
ListKeys ==
    /\ family = "store" /\ reader.pc = "idle"
    /\ reader' = [Idle EXCEPT !.pc = "get", !.keys = DOMAIN store] /\ cleared' = FALSE
    /\ UNCHANGED <<family, adds, data, store, counts, n, mean, m2>>

\* get of one listed key; out is the key, its value, 0 for nullopt, and when.
Get(k) ==
    /\ family = "store" /\ reader.pc = "get" /\ k \in reader.keys
    /\ reader' = [reader EXCEPT !.keys = @ \ {k},
                      !.pc = IF reader.keys = {k} THEN "idle" ELSE "get",
                      !.out = <<k, IF k \in DOMAIN store THEN store[k] ELSE 0, Len(adds)>>]
    /\ UNCHANGED <<family, adds, data, store, counts, n, mean, m2, cleared>>
NoKeys ==
    /\ family = "store" /\ reader.pc = "get" /\ reader.keys = {} /\ reader' = Idle
    /\ UNCHANGED <<family, adds, data, store, counts, n, mean, m2, cleared>>

-----------------------------------------------------------------------------
(* Histograms and statistics.                                              *)

\* int(std::clamp(x, 0.0, 19.99)); of NaN it is undefined, and the build gives
\* the least int, which is no bin.
Bin(x) == IF x < 0 THEN 0 ELSE IF x > 100 * Bins - 1 THEN Bins - 1 ELSE x \div 100

HistAdd(x) ==
    /\ family = "hist" /\ Add(x)
    /\ counts' = IF x # NaN /\ Bin(x) \in DOMAIN counts THEN [counts EXCEPT ![Bin(x)] = @ + 1] ELSE counts
    /\ n' = n + 1
    /\ UNCHANGED <<family, data, store, mean, m2, reader, cleared>>

\* Mutant: the step of the mean divides by the count before this sample.
MeanStepEarly(x, k) == IF k = 1 THEN Scale * x ELSE (Scale * x - mean) \div (k - 1)

\* (x - mean_) / n_.
MeanStep(x, k) == (Scale * x - mean) \div k

\* (x - mean_) * (x - (mean_ - (x - mean_) / n_)), with the new mean.
M2Step(x, k, new) == (Scale * x - new) * (Scale * (Scale * x - new) + (Scale \div k) * (Scale * x - new))

StatAdd(x) ==
    LET k == n + 1
        new == mean + MeanStep(x, k) IN
    /\ family = "stat" /\ Add(x)
    /\ n' = k /\ mean' = new /\ m2' = m2 + M2Step(x, k, new)
    /\ data' = Trimmed(Append(data, <<k, x>>))
    /\ UNCHANGED <<family, store, counts, reader, cleared>>

-----------------------------------------------------------------------------

Next ==
    \/ \E x \in Samples : Push(x) \/ JournalAppend(x) \/ StatAdd(x)
    \/ \E x \in Points \cup {NaN} : HistAdd(x)
    \/ \E k \in Keys : Put(k) \/ Get(k)
    \/ MeanSize \/ MeanSum \/ JournalClear \/ JournalSize \/ JournalAt
    \/ StoreClear \/ ListKeys \/ NoKeys

Spec == Init /\ [][Next]_vars

-----------------------------------------------------------------------------

(* The sum of a mean is that of the last samples of the window, and a mean *)
(* that began on a full window divides it by their number, whatever is     *)
(* pushed between its two locks; one that began while the window filled    *)
(* may divide by too small a number.                                       *)
MeanExactWhenFull ==
    family = "window" /\ reader.out # <<>> =>
        LET size == reader.out[3]
            at == reader.out[4]
        IN  /\ reader.out[1] = SumOf([i \in 1 .. size |-> adds[at - size + i]])
            /\ reader.out[2] = Cap => size = Cap
            /\ reader.out[2] <= size

(* A scan that runs beside appends and clears may miss entries, but never  *)
(* sees one twice or an older one after a newer one.                       *)
ScanForward ==
    family = "journal" => \A i, j \in 1 .. Len(reader.out) : i < j => reader.out[i] < reader.out[j]

LastPut(k, m) == Max({0} \cup {i \in 1 .. m : adds[i] = k})

(* A value read is the last one put, and a listed key has no value only if *)
(* the shard was cleared since the list was made.                          *)
ReadIsCurrent ==
    family = "store" /\ reader.out # <<>> =>
        \/ reader.out[2] = LastPut(reader.out[1], reader.out[3])
        \/ reader.out[2] = 0 /\ cleared

(* Bin b counts the samples from b to b + 1, the first and the last one    *)
(* those below and above the range as well; NaN is in no bin, and counted  *)
(* in the total, so that the densities add up to less than 1.              *)
InBin(x, b) ==
    /\ x # NaN
    /\ b = 0 \/ x >= 100 * b
    /\ b = Bins - 1 \/ x < 100 * (b + 1)
BinsAddUp ==
    family = "hist" =>
        /\ n = Len(adds)
        /\ \A b \in 0 .. Bins - 1 : counts[b] = Cardinality({i \in 1 .. Len(adds) : InBin(adds[i], b)})

Total == SumOf(adds)
SquaredDeviations ==
    SumOf([i \in 1 .. Len(adds) |-> (Scale * adds[i] - mean) * (Scale * adds[i] - mean)])

(* The running mean is the mean, and the running m2_ is never above the    *)
(* sum of squared deviations, of which it is an underestimate: the update  *)
(* multiplies by (n + 1) / n where n / (n - 1) would be exact              *)
(* (online_stats.hpp:16), so variance and stddev come out too small.       *)
MeanExactVarianceLow ==
    family = "stat" /\ n > 0 => mean * n = Scale * Total /\ 0 <= m2 /\ m2 <= Scale * SquaredDeviations

(* Each family of statistics says of its samples what it promises, to a    *)
(* reader who takes its locks twice as well.                               *)
FamiliesSound ==
    /\ MeanExactWhenFull /\ ScanForward /\ ReadIsCurrent
    /\ BinsAddUp /\ MeanExactVarianceLow


=============================================================================
