-------------------------- MODULE ReadinessBarrier --------------------------
(***************************************************************************)
(* The readiness barrier and LiveBoot::run, which advances it, beside      *)
(* threads that admit events.                                              *)
(*                                                                         *)
(* admit reads the stage without a lock and holds the event under mu_;     *)
(* advanceTo sets the stage first and then, for the two live stages, takes *)
(* what is held under mu_, with the drain handler as it is then, and hands *)
(* it on with no lock, or nowhere if no handler is set.  A boot stage may  *)
(* throw (no lease, no schema): run ends where it is, and whoever waits    *)
(* for a later stage waits out its timeout.                                *)
(***************************************************************************)
EXTENDS Integers, Sequences, SequencesExt, FiniteSets

CONSTANTS
    Events,         \* the events of each admitting thread are disjoint
    Admitters,
    HoldCapacity    \* hold_capacity_

Booting == 0
MinimalStateReady == 1
PredictionStateReady == 2
LiveN1Ready == 3
FullHydrationReady == 4

NoEvent == 0        \* events are numbers above 0

VARIABLES
    stage,      \* stage_
    held,       \* held_
    boot,       \* where run is: advance, drain, hand or ended
    batch,      \* what drainHeld has taken and has a handler for
    handler,    \* drain_handler_: none, or set before the barrier was live
                \* (early) or after it (late)
    admit,      \* by thread: where it is in admit and with which event
    fresh,      \* events that have not arrived
    released,   \* history: the events handed to a handler, in order
    dropped,    \* history: those pushed out of the full buffer
    discarded,  \* history: those a drain took with no handler set
    ignored,    \* history: those admitted live with no handler given
    late        \* history: held after the last drain had taken its batch

vars == <<stage, held, boot, batch, handler, admit, fresh, released, dropped,
    discarded, ignored, late>>

Init ==
    /\ stage = Booting /\ held = <<>> /\ boot = "advance" /\ batch = <<>>
    /\ handler = "none" /\ discarded = {} /\ ignored = {}
    /\ admit = [a \in Admitters |-> [pc |-> "idle", event |-> NoEvent]]
    /\ fresh = Events /\ released = <<>> /\ dropped = {} /\ late = {}

-----------------------------------------------------------------------------

IsLive(s) == s >= LiveN1Ready

\* admit: the stage is read, ...
Arrive(a, e) ==
    /\ admit[a].pc = "idle" /\ e \in fresh /\ fresh' = fresh \ {e}
    /\ admit' = [admit EXCEPT ![a] = [pc |-> IF IsLive(stage) THEN "direct" ELSE "hold", event |-> e]]
    /\ UNCHANGED <<stage, held, boot, batch, handler, released, dropped, discarded, ignored, late>>

\* ... and the event is handled at once, if a handler comes with it, ...
Direct(a) ==
    /\ admit[a].pc = "direct"
    /\ \/ released' = Append(released, admit[a].event) /\ UNCHANGED ignored
       \/ ignored' = ignored \cup {admit[a].event} /\ UNCHANGED released
    /\ admit' = [admit EXCEPT ![a] = [pc |-> "idle", event |-> NoEvent]]
    /\ UNCHANGED <<stage, held, boot, batch, handler, fresh, dropped, discarded, late>>

LastDrainOver == stage = FullHydrationReady /\ boot # "drain"

\* The buffer with e, the oldest event giving way when it is full.
Holding(e) == Append(IF Len(held) >= HoldCapacity THEN Tail(held) ELSE held, e)

\* ... or held, although the stage may have become live in between.
Hold(a) ==
    LET e == admit[a].event IN
    /\ admit[a].pc = "hold"
    /\ held' = Holding(e)
    /\ dropped' = IF Len(held) >= HoldCapacity THEN dropped \cup {Head(held)} ELSE dropped
    /\ late' = IF LastDrainOver THEN late \cup {e} ELSE late
    /\ admit' = [admit EXCEPT ![a] = [pc |-> "idle", event |-> NoEvent]]
    /\ UNCHANGED <<stage, boot, batch, handler, fresh, released, discarded, ignored>>

\* Mutant: only the first live stage drains.
DrainsOnce(s) == s = LiveN1Ready

\* target >= LiveN1Ready.
Drains(s) == s >= LiveN1Ready

\* advanceTo, called by run for one stage after the other.
Advance ==
    /\ boot = "advance" /\ stage < FullHydrationReady
    /\ stage' = stage + 1 /\ boot' = IF Drains(stage + 1) THEN "drain" ELSE "advance"
    /\ UNCHANGED <<held, batch, handler, admit, fresh, released, dropped, discarded, ignored, late>>

\* held_.clear().
Cleared == <<>>

\* drainHeld: what is held is taken, ...
Drain ==
    /\ boot = "drain" /\ held' = Cleared /\ boot' = "hand"
    /\ IF handler = "none"
       THEN batch' = <<>> /\ discarded' = discarded \cup ToSet(held)
       ELSE batch' = held /\ UNCHANGED discarded
    /\ UNCHANGED <<stage, handler, admit, fresh, released, dropped, ignored, late>>

\* ... and handed on.
Hand ==
    /\ boot = "hand" /\ batch # <<>>
    /\ released' = Append(released, Head(batch)) /\ batch' = Tail(batch)
    /\ UNCHANGED <<stage, held, boot, handler, admit, fresh, dropped, discarded, ignored, late>>
Handed ==
    /\ boot = "hand" /\ batch = <<>> /\ boot' = "advance"
    /\ UNCHANGED <<stage, held, batch, handler, admit, fresh, released, dropped, discarded, ignored, late>>

\* setDrainHandler, at any time, with a handler or with none; LiveBoot calls it
\* never.
SetDrainHandler ==
    /\ handler' \in {"none", IF IsLive(stage) THEN "late" ELSE "early"}
    /\ UNCHANGED <<stage, held, boot, batch, admit, fresh, released, dropped, discarded, ignored, late>>

\* A stage throws, or all are done.
Ends ==
    /\ boot = "advance" /\ stage \in {Booting, MinimalStateReady, FullHydrationReady}
    /\ boot' = "ended"
    /\ UNCHANGED <<stage, held, batch, handler, admit, fresh, released, dropped, discarded, ignored, late>>

Run == Advance \/ Drain \/ Hand \/ Handed \/ Ends

Next ==
    \/ Run
    \/ SetDrainHandler
    \/ \E a \in Admitters : Direct(a) \/ Hold(a) \/ \E e \in Events : Arrive(a, e)

Spec == Init /\ [][Next]_vars

-----------------------------------------------------------------------------

InAdmit == {admit[a].event : a \in Admitters} \ {NoEvent}

Gone == dropped \cup discarded \cup ignored

(* An event is handed on at most once, and one that has arrived is handed  *)
(* on, on its way, held, dropped from a full buffer or gone for want of a  *)
(* handler: neither the two drains nor a thread between its look at the    *)
(* stage and the lock counts an event twice or loses it without a trace.   *)
EventsAccountedFor ==
    /\ IsInjective(released)
    /\ ToSet(released) \cap (ToSet(held) \cup ToSet(batch) \cup InAdmit \cup Gone) = {}
    /\ Events \ fresh = ToSet(released) \cup ToSet(held) \cup ToSet(batch) \cup InAdmit \cup Gone

(* "Events arriving before LIVE_N1_READY are held in a bounded buffer and  *)
(* drained on transition": once the boot has reached its last stage,       *)
(* nothing is left in the buffer but events whose thread looked at the     *)
(* stage before it was live and took the lock after the second drain       *)
(* (readiness_barrier.hpp:70 and 74); those stay there.                    *)
HeldOnlyIfLate ==
    stage = FullHydrationReady /\ boot \in {"hand", "ended"} => ToSet(held) \subseteq late

(* With a drain handler set before the barrier is live, and not taken away *)
(* since, no drain discards an event (readiness_barrier.hpp:114). Without  *)
(* one every held event is discarded by the first drain.                   *)
KeptByHandler == handler = "early" => discarded = {}

(* The barrier lets no event through twice, and loses those only that the  *)
(* full buffer drops, that come late or for which nobody set a handler.    *)
NoneForgotten == EventsAccountedFor /\ HeldOnlyIfLate /\ KeptByHandler

-----------------------------------------------------------------------------

TypeOK ==
    /\ stage \in Booting .. FullHydrationReady
    /\ held \in Seq(Events) /\ batch \in Seq(Events) /\ released \in Seq(Events)
    /\ boot \in {"advance", "drain", "hand", "ended"}
    /\ admit \in [Admitters -> [pc : {"idle", "direct", "hold"}, event : Events \cup {NoEvent}]]
    /\ fresh \subseteq Events /\ dropped \subseteq Events /\ discarded \subseteq Events
    /\ ignored \subseteq Events /\ handler \in {"none", "early", "late"} /\ late \subseteq Events

\* An event is in one place of the buffer, the batch or the output, or in the
\* hands of one thread.
OnePlace ==
    /\ IsInjective(held) /\ IsInjective(batch) /\ IsInjective(released)
    /\ \A a \in Admitters : admit[a].pc = "idle" <=> admit[a].event = NoEvent
    /\ \A a, b \in Admitters :
         a # b /\ admit[a].event # NoEvent => admit[a].event # admit[b].event

\* ... and in one of them only.
Apart ==
    /\ fresh \cap (InAdmit \cup ToSet(held) \cup ToSet(batch) \cup ToSet(released) \cup Gone) = {}
    /\ InAdmit \cap (ToSet(held) \cup ToSet(batch) \cup ToSet(released) \cup Gone) = {}
    /\ ToSet(held) \cap (ToSet(batch) \cup ToSet(released) \cup Gone) = {}
    /\ ToSet(batch) \cap (ToSet(released) \cup Gone) = {}

\* After the last drain only late events enter the buffer.
LateOnly == LastDrainOver => ToSet(held) \subseteq late

\* A batch is handed on to its end before the next is taken.
BatchHanded == boot # "hand" => batch = <<>>

\* No drain has taken place before the barrier is live.
NoneYet == (handler = "early" \/ ~IsLive(stage)) => discarded = {}
NotYet == boot \in {"drain", "hand"} => IsLive(stage)

\* The inductive invariant.
IInv ==
    /\ TypeOK /\ OnePlace /\ Apart /\ EventsAccountedFor /\ LateOnly /\ BatchHanded
    /\ NoneYet /\ NotYet

=============================================================================
