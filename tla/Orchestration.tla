---------------------------- MODULE Orchestration ---------------------------
(***************************************************************************)
(* Ordered start and stop: the Orchestrator, which starts its components   *)
(* in their order and undoes a start that fails, and the StartupManager    *)
(* and ShutdownManager, which do so through the ComponentRegistry and      *)
(* leave a failed start as it is.                                          *)
(*                                                                         *)
(* Nothing keeps a start from being called again while components are up,  *)
(* and a start that throws, rather than return an error, leaves the loop   *)
(* where it is.                                                            *)
(*                                                                         *)
(* A component is up from the call of its start that succeeds to the call  *)
(* of its stop.  Components with equal orders start in either order, since *)
(* std::sort is not stable.                                                *)
(***************************************************************************)
EXTENDS Integers, Sequences, SequencesExt, FiniteSets

CONSTANTS
    Components,
    Order,      \* [Components -> Nat]: order, startOrder
    MaxRuns     \* bound: starts in all

VARIABLES
    managed,    \* the managers' side is used, not the Orchestrator
    pc,         \* idle, starting or stopping
    todo,       \* components startAll or stopInReverseOrder has still to visit
    started,    \* started_
    running,    \* running_ of the Orchestrator
    state,      \* ComponentRegistry: the state of each component
    up,         \* what is really up
    thrown,     \* history: components whose last start threw
    again,      \* history: a start was called over components that were up
    runs

vars == <<managed, pc, todo, started, running, state, up, thrown, again, runs>>

Init ==
    /\ managed \in BOOLEAN /\ pc = "idle" /\ todo = {} /\ started = <<>> /\ running = FALSE
    /\ state = [c \in Components |-> "registered"] /\ up = {}
    /\ thrown = {} /\ again = FALSE /\ runs = 0

Lowest(cs) == {c \in cs : \A d \in cs : Order[c] <= Order[d]}
Highest(cs) == {c \in cs : \A d \in cs : Order[c] >= Order[d]}

-----------------------------------------------------------------------------

\* startAll and startInOrder.
StartAll ==
    /\ pc = "idle" /\ runs < MaxRuns /\ runs' = runs + 1
    /\ pc' = "starting" /\ todo' = Components /\ again' = (again \/ up # {})
    /\ UNCHANGED <<managed, started, running, state, up, thrown>>

\* The next component starts ...
StartOne ==
    /\ pc = "starting"
    /\ \E c \in Lowest(todo) :
        /\ todo' = todo \ {c} /\ up' = up \cup {c} /\ thrown' = thrown \ {c}
        /\ IF managed THEN state' = [state EXCEPT ![c] = "running"] /\ UNCHANGED started
                      ELSE started' = Append(started, c) /\ UNCHANGED state
    /\ UNCHANGED <<managed, pc, running, again, runs>>

\* Mutant: a failed start is reported and no more.
NoUndo == "idle"

\* startAll calls stopAll, startInOrder returns.
AfterFailure == IF managed THEN "idle" ELSE "stopping"

\* ... or returns an error ...
StartFails ==
    /\ pc = "starting"
    /\ \E c \in Lowest(todo) :
        /\ thrown' = thrown \ {c}
        /\ state' = IF managed THEN [state EXCEPT ![c] = "failed"] ELSE state
    /\ pc' = AfterFailure /\ todo' = {}
    /\ UNCHANGED <<managed, started, running, up, again, runs>>

\* ... or throws: the exception leaves startAll, and startInOrder with the
\* component in state starting; nothing is undone.
StartThrows ==
    /\ pc = "starting"
    /\ \E c \in Lowest(todo) :
        /\ thrown' = thrown \cup {c}
        /\ state' = IF managed THEN [state EXCEPT ![c] = "starting"] ELSE state
    /\ pc' = "idle" /\ todo' = {}
    /\ UNCHANGED <<managed, started, running, up, again, runs>>

AllStarted ==
    /\ pc = "starting" /\ todo = {}
    /\ pc' = "idle" /\ running' = (running \/ ~managed)
    /\ UNCHANGED <<managed, todo, started, state, up, thrown, again, runs>>

\* stopAll, and stopInReverseOrder, which passes over what is neither running nor
\* failed.
StopAll ==
    /\ pc = "idle"
    /\ todo' = IF managed THEN {c \in Components : state[c] \in {"running", "failed"}} ELSE {}
    /\ pc' = "stopping"
    /\ UNCHANGED <<managed, started, running, state, up, thrown, again, runs>>

\* rbegin.
FromBack(s) == s[Len(s)]

\* The next stop; an exception of it is swallowed.
StopOne ==
    /\ pc = "stopping"
    /\ \/ /\ ~managed /\ started # <<>>
          /\ up' = up \ {FromBack(started)}
          /\ started' = Front(started)
          /\ UNCHANGED <<state, todo>>
       \/ /\ managed
          /\ \E c \in Highest(todo) :
              up' = up \ {c} /\ todo' = todo \ {c} /\ state' = [state EXCEPT ![c] = "stopped"]
          /\ UNCHANGED started
    /\ UNCHANGED <<managed, pc, running, thrown, again, runs>>
AllStopped ==
    /\ pc = "stopping" /\ (IF managed THEN todo = {} ELSE started = <<>>)
    /\ pc' = "idle" /\ running' = FALSE
    /\ thrown' = IF managed THEN thrown ELSE {}
    /\ again' = (again /\ up # {})
    /\ UNCHANGED <<managed, todo, started, state, up, runs>>

Next ==
    \/ StartAll \/ StartOne \/ StartFails \/ StartThrows \/ AllStarted
    \/ StopAll \/ StopOne \/ AllStopped

Spec == Init /\ [][Next]_vars

-----------------------------------------------------------------------------

(* "lower starts first, stops last" (orchestrator.hpp:30): at every moment *)
(* of a start, of the undoing of one that failed, after one that threw and *)
(* during a stop, whatever is up has all the components of lower order up  *)
(* beneath it, unless a start was called over components that were up: its *)
(* undoing stops a low component first, for the sake of the second entry   *)
(* it has in started_.                                                     *)
LowerIsUp == ~again => \A c \in up, d \in Components : Order[d] < Order[c] => d \in up

(* When no call is in progress an Orchestrator that says it is running has *)
(* all components up, and one that says it is not has none, unless a start *)
(* threw: what came up before it stays up until the next stopAll. The      *)
(* registry has nothing as running that is not up, and nothing is up that  *)
(* stopInReverseOrder passes over but a component whose second start threw.*)
AllOrNone ==
    pc = "idle" =>
        IF managed
        THEN \A c \in Components :
                 /\ state[c] = "running" => c \in up
                 /\ c \in up => state[c] \in {"running", "failed"} \/ (again /\ c \in thrown)
        ELSE /\ running => up = Components
             /\ ~running /\ thrown = {} => up = {}

(* Starts and stops keep the order of the components and leave no half of  *)
(* them behind.                                                            *)
OrderedAndWhole == LowerIsUp /\ AllOrNone

-----------------------------------------------------------------------------

TypeOK ==
    /\ managed \in BOOLEAN /\ pc \in {"idle", "starting", "stopping"}
    /\ todo \subseteq Components /\ up \subseteq Components /\ thrown \subseteq Components
    /\ started \in Seq(Components) /\ running \in BOOLEAN /\ again \in BOOLEAN
    /\ state \in [Components -> {"registered", "starting", "running", "failed", "stopped"}]
    /\ runs \in Nat

\* The books know of all that is up: started_, and the registry's states.
BooksKnow ==
    /\ managed => \A c \in Components :
           /\ state[c] = "running" => c \in up
           /\ c \in up => state[c] \in {"running", "failed"} \/ (again /\ c \in thrown)
    /\ ~managed => up \subseteq {started[i] : i \in 1 .. Len(started)}

\* A start has brought up what it has visited; running_ says that all are up; and
\* only a start that threw leaves some.
Brought ==
    /\ pc = "starting" => Components \ todo \subseteq up
    /\ ~managed /\ running /\ pc # "stopping" => up = Components
    /\ ~managed /\ ~running /\ thrown = {} /\ pc = "idle" => up = {}

\* Without a start over what is up, the books and what is up are the same, in the
\* order of the starts ...
BooksAgree ==
    /\ managed => \A c \in Components : c \in up => state[c] = "running"
    /\ ~managed => /\ up = {started[i] : i \in 1 .. Len(started)}
                   /\ \A i, j \in 1 .. Len(started) :
                        i < j => started[i] # started[j] /\ Order[started[i]] <= Order[started[j]]

\* ... a start brings up the lowest first, and a stop visits whatever is up.
Progress ==
    /\ pc = "starting" => /\ up = Components \ todo
                          /\ \A c \in up, d \in todo : Order[c] <= Order[d]
    /\ pc = "stopping" /\ managed => up \subseteq todo

\* The inductive invariant.
IInv ==
    /\ TypeOK /\ BooksKnow /\ Brought /\ LowerIsUp
    /\ ~again => BooksAgree /\ Progress

=============================================================================
