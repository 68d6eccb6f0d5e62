--------------------------- MODULE LeaseSupervisor --------------------------
(***************************************************************************)
(* The lease that decides which CrashCore process has authority: the row   *)
(* of the table worker_leases, and in each process the LiveSupervisor with *)
(* its two threads.  The main thread acquires the lease twice, in          *)
(* LiveBoot::run and in Application::start, and releases it twice when the *)
(* application stops; the renew thread renews it in between.               *)
(*                                                                         *)
(* Every method is a sequence of SQL statements; each is a step here, and  *)
(* another thread or process may run between two of them.  A restarted     *)
(* process has a new worker id, so a worker starts once.                   *)
(*                                                                         *)
(* The row carries the time left until expires_at_ms, which is negative    *)
(* when the lease has expired.  The clocks of the processes agree.         *)
(***************************************************************************)
EXTENDS Integers

CONSTANTS
    Workers,       \* worker ids
    LeaseTtl,      \* Config::leaseTtlSeconds
    RenewInterval, \* Config::renewIntervalMs
    MaxFaults,     \* bound on the failed statements
    NoWorker       \* the owner in a table without the row

ASSUME NoWorkerAssumption == NoWorker \notin Workers
ASSUME IntervalAssumption == RenewInterval \in Nat /\ LeaseTtl \in Nat
ASSUME TtlCoversInterval == RenewInterval <= LeaseTtl
ASSUME BoundAssumption == MaxFaults \in Nat

VARIABLES
    owner,    \* owner_id of the row, NoWorker when there is no row
    rowEpoch, \* epoch of the row
    ttl,      \* expires_at_ms - now
    step,     \* where the main thread of each process is
    loop,     \* where its renew thread is
    since,    \* the renew thread's sleep so far
    auth,     \* has_authority_
    epoch,    \* epoch_
    faults,   \* failed statements so far
    delayed   \* history: time has passed while the worker had something to do

lease == <<owner, rowEpoch, ttl>>
vars == <<lease, step, loop, since, auth, epoch, faults, delayed>>

Steps == {"off", "boot", "booted", "start", "running", "stopping", "released",
          "stopped", "down"}

-----------------------------------------------------------------------------

Init ==
    /\ owner = NoWorker
    /\ rowEpoch = 0
    /\ ttl = -1
    /\ step = [w \in Workers |-> "off"]
    /\ loop = [w \in Workers |-> "none"]
    /\ since = [w \in Workers |-> 0]
    /\ auth = [w \in Workers |-> FALSE]
    /\ epoch = [w \in Workers |-> 0]
    /\ faults = 0
    /\ delayed = [w \in Workers |-> FALSE]

\* A statement fails.
Fault == faults < MaxFaults /\ faults' = faults + 1

Acquiring(w) == step[w] \in {"boot", "start"}

\* The main thread after the call of acquire it is in.
Acquired(w) ==
    step' = [step EXCEPT ![w] = IF step[w] \in {"off", "boot"} THEN "booted" ELSE "running"]

\* Mutant: a lease may be taken before it has expired.
TakeableAlways(w) == TRUE

\* The WHERE clause of the upsert: the lease has expired or is ours.
Takeable(w) == ttl < 0 \/ owner = w

\* The first statement of LiveSupervisor::acquire inserts or takes the row.
\* When another worker holds the lease, no row changes and the statement
\* succeeds all the same.
AcquireUpsert(w) ==
    /\ step[w] \in {"off", "booted"}
    /\ \/ /\ owner = NoWorker
          /\ owner' = w /\ rowEpoch' = 1 /\ ttl' = LeaseTtl
       \/ /\ owner # NoWorker /\ Takeable(w)
          /\ owner' = w /\ rowEpoch' = rowEpoch + 1 /\ ttl' = LeaseTtl
       \/ /\ owner # NoWorker /\ ~Takeable(w)
          /\ UNCHANGED lease
    /\ step' = [step EXCEPT ![w] = IF step[w] = "off" THEN "boot" ELSE "start"]
    /\ UNCHANGED <<loop, since, auth, epoch, faults, delayed>>

\* It fails: the callers log the error and go on without authority.
AcquireFails(w) ==
    /\ step[w] \in {"off", "booted"}
    /\ Fault
    /\ auth' = [auth EXCEPT ![w] = FALSE]
    /\ Acquired(w)
    /\ UNCHANGED <<lease, loop, since, epoch, delayed>>

\* Mutant: the epoch is counted, not read back.
CountedEpoch(w) == epoch[w] + 1

\* The epoch of our row, or one more than before when the row is not ours.
ReadEpoch(w) == IF owner = w THEN rowEpoch ELSE epoch[w] + 1

\* The second statement of acquire reads the epoch; whatever it returns, the
\* worker has authority now and its renew loop is started, if it is not
\* running yet.
AcquireReadBack(w) ==
    /\ Acquiring(w)
    /\ \/ epoch' = [epoch EXCEPT ![w] = ReadEpoch(w)] /\ UNCHANGED faults
       \/ epoch' = [epoch EXCEPT ![w] = @ + 1] /\ Fault
    /\ auth' = [auth EXCEPT ![w] = TRUE]
    /\ loop' = [loop EXCEPT ![w] = IF @ = "none" THEN "idle" ELSE @]
    /\ since' = [since EXCEPT ![w] = IF loop[w] = "none" THEN RenewInterval ELSE @]
    /\ Acquired(w)
    /\ UNCHANGED <<lease, delayed>>

\* The renew loop wakes up.
Wakes(w) == loop[w] = "idle" /\ since[w] = RenewInterval

\* It goes to sleep again.
Sleeps(w) ==
    /\ loop' = [loop EXCEPT ![w] = "idle"]
    /\ since' = [since EXCEPT ![w] = 0]

\* Without authority there is nothing to renew.
SkipRenew(w) ==
    /\ Wakes(w)
    /\ ~auth[w]
    /\ Sleeps(w)
    /\ UNCHANGED <<lease, step, auth, epoch, faults, delayed>>

\* The WHERE clause of the update: the row has our id and our epoch.
RenewMatches(w) == owner = w /\ rowEpoch = epoch[w]

\* The first statement of LiveSupervisor::renew extends the lease.
RenewUpdate(w) ==
    /\ Wakes(w)
    /\ auth[w]
    /\ IF RenewMatches(w)
       THEN ttl' = LeaseTtl /\ loop' = [loop EXCEPT ![w] = "matched"]
       ELSE UNCHANGED ttl /\ loop' = [loop EXCEPT ![w] = "missed"]
    /\ UNCHANGED <<owner, rowEpoch, step, since, auth, epoch, faults, delayed>>

\* One of its statements fails: loseAuthority.
RenewFails(w) ==
    /\ \/ Wakes(w) /\ auth[w]
       \/ loop[w] \in {"matched", "missed"}
    /\ Fault
    /\ auth' = [auth EXCEPT ![w] = FALSE]
    /\ Sleeps(w)
    /\ UNCHANGED <<lease, step, epoch, delayed>>

\* Mutant: ownership is not verified.
VerifiedAlways(w) == TRUE

\* The second statement checks the owner of the row, and not its epoch.
Verified(w) == owner = w

RenewVerify(w) ==
    /\ loop[w] \in {"matched", "missed"}
    /\ auth' = IF Verified(w) THEN auth ELSE [auth EXCEPT ![w] = FALSE]
    /\ Sleeps(w)
    /\ UNCHANGED <<lease, step, epoch, faults, delayed>>

\* Application::stop calls LiveBoot::shutdown, whose stopRenewLoop joins the
\* renew thread.
StopRenewLoop(w) ==
    /\ step[w] = "running"
    /\ loop[w] \in {"none", "idle"}
    /\ step' = [step EXCEPT ![w] = "stopping"]
    /\ loop' = [loop EXCEPT ![w] = "none"]
    /\ UNCHANGED <<lease, since, auth, epoch, faults, delayed>>

\* The DELETE of LiveSupervisor::release, called by LiveBoot::shutdown and
\* then by Application::stop itself.
ReleaseDelete(w) ==
    /\ step[w] \in {"stopping", "stopped"}
    /\ \/ /\ owner = w /\ rowEpoch = epoch[w]
          /\ owner' = NoWorker /\ rowEpoch' = 0 /\ ttl' = -1
          /\ UNCHANGED faults
       \/ /\ ~(owner = w /\ rowEpoch = epoch[w])
          /\ UNCHANGED <<lease, faults>>
       \/ Fault /\ UNCHANGED lease
    /\ step' = [step EXCEPT ![w] = IF step[w] = "stopping" THEN "released" ELSE "down"]
    /\ UNCHANGED <<loop, since, auth, epoch, delayed>>

\* The loseAuthority of the first release.
ReleaseLose(w) ==
    /\ step[w] = "released"
    /\ auth' = [auth EXCEPT ![w] = FALSE]
    /\ step' = [step EXCEPT ![w] = "stopped"]
    /\ UNCHANGED <<lease, loop, since, epoch, faults, delayed>>

\* The process dies; the row stays.
Crash(w) ==
    /\ step[w] \notin {"off", "down"}
    /\ step' = [step EXCEPT ![w] = "down"]
    /\ loop' = [loop EXCEPT ![w] = "none"]
    /\ auth' = [auth EXCEPT ![w] = FALSE]
    /\ UNCHANGED <<lease, since, epoch, faults, delayed>>

\* Something a process that is on time does before time passes.
Urgent(w) ==
    \/ Acquiring(w)
    \/ loop[w] \in {"matched", "missed"}
    \/ Wakes(w)

Tick ==
    /\ ttl' = IF ttl < 0 THEN -1 ELSE ttl - 1
    /\ since' = [w \in Workers |->
                    IF loop[w] = "idle" /\ since[w] < RenewInterval
                    THEN since[w] + 1 ELSE since[w]]
    /\ delayed' = [w \in Workers |-> delayed[w] \/ Urgent(w)]
    /\ UNCHANGED <<owner, rowEpoch, step, loop, auth, epoch, faults>>

-----------------------------------------------------------------------------

Main(w) ==
    \/ AcquireUpsert(w)
    \/ AcquireFails(w)
    \/ AcquireReadBack(w)
    \/ StopRenewLoop(w)
    \/ ReleaseDelete(w)
    \/ ReleaseLose(w)

Renewer(w) ==
    \/ SkipRenew(w)
    \/ RenewUpdate(w)
    \/ RenewVerify(w)
    \/ RenewFails(w)

Next ==
    \/ \E w \in Workers : Main(w) \/ Renewer(w) \/ Crash(w)
    \/ Tick

Spec == Init /\ [][Next]_vars

\* Time passes, and the renew threads and the statements of acquire and
\* release are not suspended forever.
Fairness ==
    /\ WF_vars(Tick)
    /\ \A w \in Workers :
        /\ WF_vars(Renewer(w))
        /\ WF_vars(AcquireReadBack(w))
        /\ WF_vars(ReleaseDelete(w))
        /\ WF_vars(ReleaseLose(w))

FairSpec == Spec /\ Fairness

-----------------------------------------------------------------------------

TypeOK ==
    /\ owner \in Workers \cup {NoWorker}
    /\ rowEpoch \in Nat
    /\ ttl \in -1..LeaseTtl
    /\ step \in [Workers -> Steps]
    /\ loop \in [Workers -> {"none", "idle", "matched", "missed"}]
    /\ \A w \in Workers :
        step[w] \in {"stopping", "released", "stopped", "down"} => loop[w] = "none"
    /\ since \in [Workers -> 0..RenewInterval]
    /\ auth \in [Workers -> BOOLEAN]
    /\ epoch \in [Workers -> Nat]
    /\ faults \in 0..MaxFaults
    /\ delayed \in [Workers -> BOOLEAN]

\* The epoch a worker remembers is the one of its row, unless it is just
\* acquiring the lease again: the renewals and the release of the owner find
\* their row (live_supervisor.hpp:55-62), as long as no statement failed.
OwnerKnowsEpoch ==
    faults = 0 => \A w \in Workers :
        owner = w /\ ~Acquiring(w) /\ step[w] # "down" => epoch[w] = rowEpoch

\* A worker that has authority and has been on time keeps its lease, whatever
\* other workers start, stop, delay or crash around it: only its own release takes
\* the row away (live_supervisor.hpp:49-53, 77-81).
LeaseKept ==
    [][\A w \in Workers :
         /\ ~delayed[w] /\ faults = 0
         /\ owner = w /\ auth[w] /\ loop[w] # "none" /\ loop'[w] # "none"
         => owner' = w]_vars

\* Two workers never share authority forever: acquire gives it to a worker
\* that did not get the lease (live_supervisor.hpp:66), but a renewal takes
\* it away from the one that is not the owner (live_supervisor.hpp:83-90).
SplitHeals ==
    \A v, w \in Workers : v # w => (auth[v] /\ auth[w] ~> ~(auth[v] /\ auth[w]))

-----------------------------------------------------------------------------

\* The strengthening of LeaseKept: startRenewLoop sleeps for the interval and
\* then calls renew, and the lease of a worker that wakes up on time outlives
\* that sleep, because the epochs agree and the UPDATE of renew finds the row.
LeaseOutlivesSleep ==
    faults = 0 => \A w \in Workers :
        owner = w /\ ~delayed[w] =>
            /\ Acquiring(w) \/ loop[w] \in {"matched", "missed"} => ttl = LeaseTtl
            /\ auth[w] /\ loop[w] # "none" => ttl >= LeaseTtl - since[w]

IInv == TypeOK /\ OwnerKnowsEpoch /\ LeaseOutlivesSleep
=============================================================================
