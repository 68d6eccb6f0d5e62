------------------------------- MODULE MCDurable ------------------------------
(***************************************************************************)
(* The durable outbox with two rows that target the same round, and        *)
(* (subject one) with one row, a longer life and fairness. The first is    *)
(* checked with at most one crash or failed statement, the second with one *)
(* of each. A behaviour is about the component that subject names; the     *)
(* others stay in their initial states, in which none of their fair        *)
(* actions is enabled.                                                     *)
(***************************************************************************)
EXTENDS DurableOutbox

CONSTANT g1
OneTarget == [r \in Rows |-> g1]

VARIABLES
    subject,    \* the component a behaviour is about
    oneStatus, oneAttempts, oneAge, oneClaimAge, oneWait, oneStarted,
    oneStartsIn, oneBatch, oneSeen, onePc, oneRow, oneAcked, oneCrashes,
    oneFaults

One == INSTANCE DurableOutbox WITH Rows <- {"r1"}, Rounds <- {"g1"},
    Target <- [r \in {"r1"} |-> "g1"], Drainers <- {"loop", "main"},
    Loop <- "loop", BatchSize <- 1, MaxAttempts <- 3, MaxLead <- 1,
    NoRow <- "none", status <- oneStatus, attempts <- oneAttempts,
    age <- oneAge, claimAge <- oneClaimAge, wait <- oneWait,
    started <- oneStarted, startsIn <- oneStartsIn, batch <- oneBatch,
    seen <- oneSeen, pc <- onePc, row <- oneRow, acked <- oneAcked,
    crashes <- oneCrashes, faults <- oneFaults

oneVars == <<oneStatus, oneAttempts, oneAge, oneClaimAge, oneWait, oneStarted,
    oneStartsIn, oneBatch, oneSeen, onePc, oneRow, oneAcked, oneCrashes,
    oneFaults>>
all == <<subject, vars, oneVars>>

MCInit ==
    /\ subject \in {"two", "one"}
    /\ Init
    /\ One!Init

MCNext ==
    \/ /\ subject = "two" /\ Next /\ crashes' + faults' <= 1
       /\ UNCHANGED <<subject, oneVars>>
    \/ /\ subject = "one" /\ One!Next
       /\ UNCHANGED <<subject, vars>>

MCSpec ==
    /\ MCInit /\ [][MCNext]_all
    /\ (subject = "one" => One!Fairness)

-----------------------------------------------------------------------------

(* Every pending row is delivered or dead-lettered in the end              *)
(* (NotificationWorker::drainBatch, recoverStaleClaims).                   *)
OneRowSettles == One!RowSettles

=============================================================================
