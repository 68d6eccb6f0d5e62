-------------------------------- MODULE MCLease -------------------------------
(***************************************************************************)
(* The live supervisor's lease, the readiness barrier of the boot, and the *)
(* ordered start and stop of components. A behaviour is about the          *)
(* component that subject names; the others stay in their initial states,  *)
(* in which Orchestration is on the side of the managers; fairness is      *)
(* asked of the lease alone.                                               *)
(***************************************************************************)
EXTENDS LeaseSupervisor

CONSTANTS
    Events, Admitters, HoldCapacity,    \* of ReadinessBarrier
    Components, Order, MaxRuns          \* of Orchestration

\* Events are numbers above 0, and the buffer has room for one.
ASSUME BarrierAssumption ==
    /\ 0 \notin Events
    /\ HoldCapacity \in Nat \ {0}
ASSUME OrderAssumption == Order \in [Components -> Int] /\ MaxRuns \in Nat

\* Components of equal orders, and of lower and higher ones.
SomeOrder == [c \in Components |->
    CASE c = "a" -> 1 [] c \in {"b", "c"} -> 2 [] OTHER -> 3]

VARIABLES
    subject,    \* the component a behaviour is about
    stage, held, boot, batch, handler, admit, fresh, released, dropped,
    discarded, ignored, late,
    managed, pc, todo, started, running, state, up, thrown, again, runs

Barrier == INSTANCE ReadinessBarrier
Orch == INSTANCE Orchestration

barrierVars == <<stage, held, boot, batch, handler, admit, fresh, released,
    dropped, discarded, ignored, late>>
orchVars == <<managed, pc, todo, started, running, state, up, thrown, again,
    runs>>
all == <<subject, vars, barrierVars, orchVars>>

MCInit ==
    /\ subject \in {"lease", "barrier", "orchestration"}
    /\ Init
    /\ Barrier!Init
    /\ Orch!Init /\ (subject # "orchestration" => managed)

MCNext ==
    \/ /\ subject = "lease" /\ Next
       /\ UNCHANGED <<subject, barrierVars, orchVars>>
    \/ /\ subject = "barrier" /\ Barrier!Next
       /\ UNCHANGED <<subject, vars, orchVars>>
    \/ /\ subject = "orchestration" /\ Orch!Next
       /\ UNCHANGED <<subject, vars, barrierVars>>
    \* These may come to an end.
    \/ subject \in {"barrier", "orchestration"} /\ UNCHANGED all

MCSpec ==
    /\ MCInit /\ [][MCNext]_all
    /\ (subject = "lease" => Fairness)

-----------------------------------------------------------------------------

(* Every admitted event is handled once, held, counted as dropped or gone  *)
(* for want of a handler; with a drain handler set in time no drain        *)
(* discards one, and one is held for ever only if it came after the last   *)
(* drain (ReadinessBarrier::admit, drainHeld).                             *)
NoneForgotten == Barrier!NoneForgotten

(* What is up has everything of a lower order up, unless a start is called *)
(* over what is up, and a startAll that fails leaves nothing up, one that  *)
(* throws what the next stopAll finds (Orchestrator, StartupManager,       *)
(* ShutdownManager).                                                       *)
OrderedAndWhole == Orch!OrderedAndWhole

=============================================================================
