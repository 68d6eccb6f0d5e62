----------------------------- MODULE FrameIntake ----------------------------
(***************************************************************************)
(* What happens to a decoded event: RealtimePipeline::observe, the         *)
(* DuplicateFilter, the RoundStateRegistry, the statistics, the            *)
(* EventRouter, and the two ways its queues are drained.  FrameCodec is    *)
(* about the bytes before that.                                            *)
(*                                                                         *)
(* Mode "engine" is EventEngine::processFrame: PipelineLoop::onFrame,      *)
(* which drains the queues itself, and then the same frame once more       *)
(* through the socket, which only routes it.  Mode "application" is        *)
(* Application::onBinaryFrame and the frames of the socket, with the       *)
(* queues drained by the main loop.                                        *)
(*                                                                         *)
(* Every event has sequence 0, since the decoder never sets it, and the    *)
(* elapsed time is only set for progress events, which carry no id: that   *)
(* is what the keys below are made of.  Multipliers are hundredths.  The   *)
(* queue for persistence is left out: nothing pops it.                     *)
(***************************************************************************)
EXTENDS Integers, Sequences, FiniteSets, SequencesExt

CONSTANTS
    Ids,        \* game ids, numbers above 0
    Mults,      \* crash points of End events; 0 where the field is missing
    Elapsed,    \* elapsed times of progress events
    DupCap,     \* keys the DuplicateFilter keeps (8192)
    RouterCap,  \* keys the EventRouter keeps (10 000)
    QueueCap,   \* capacity of the router's queues
    MaxFrames   \* bound: frames received

VARIABLES
    mode,       \* "engine" or "application"
    frames,     \* frames received so far
    advised,    \* EventValidator::seen_
    dupes,      \* DuplicateFilter: keys, oldest first
    rounds,     \* RoundStateRegistry::by_id_
    current,    \* current_id_, 0 when empty
    keys,       \* EventRouter: keys, least recently seen first
    toValidation, toPrediction, \* EventRouter's queues of End events
    draining,   \* the main loop has emptied the first queue
    values, streak, \* CrashStatsAccumulator
    settled,    \* history: how often the End of a round was settled
    first,      \* history: crash point of the first End that was applied
    reopened,   \* history: rounds started again after their End
    dupForgot,  \* history: rounds whose End the DuplicateFilter has forgotten
    keyForgot,  \* history: rounds whose End the router has forgotten
    lost        \* history: rounds whose End found the queue full

filters == <<advised, dupes, keys>>
state == <<rounds, current, first, reopened>>
stats == <<values, streak>>
queues == <<toValidation, toPrediction, draining, settled>>
vars == <<mode, frames, filters, state, stats, queues, dupForgot, keyForgot, lost>>

HighThreshold == 200
NoRound == [phase |-> "None", mult |-> 0, final |-> 0, sealed |-> FALSE]
Events ==
    [kind : {"Prepare", "Start"}, id : Ids, mult : {0}, elapsed : {0}]
    \cup [kind : {"End"}, id : Ids, mult : Mults, elapsed : {0}]
    \cup [kind : {"Progress"}, id : {0}, mult : {0}, elapsed : Elapsed]
    \cup [kind : {"Heartbeat", "Connect", "Prepare"}, id : {0}, mult : {0}, elapsed : {0}]

Init ==
    /\ mode \in {"engine", "application"}
    /\ frames = 0
    /\ advised = {} /\ dupes = <<>> /\ keys = <<>>
    /\ rounds = [r \in Ids |-> NoRound] /\ current = 0
    /\ toValidation = <<>> /\ toPrediction = <<>> /\ draining = FALSE
    /\ values = <<>> /\ streak = [kind |-> "None", count |-> 0, maxLow |-> 0, maxHigh |-> 0]
    /\ settled = [r \in Ids |-> 0] /\ first = [r \in Ids |-> -1]
    /\ reopened = {} /\ dupForgot = {} /\ keyForgot = {} /\ lost = {}

-----------------------------------------------------------------------------

\* What decodeEventPacket finds valid: an id, or being a progress event.
Valid(ev) == ev.id # 0 \/ ev.kind \in {"Progress", "Heartbeat", "Connect"}

\* RealtimePipeline::observe normalizes the event and asks EventValidator,
\* which remembers the Begin and the End of a round.  Its verdict is not asked
\* for, except that an event without an id is dropped, which Valid says too.
Observe(ev) ==
    advised' = IF ev.kind \in {"Start", "End"} /\ Valid(ev)
               THEN advised \cup {<<ev.id, ev.kind>>} ELSE advised

\* The oldest entries make room for a new one.
Remember(seq, key, cap) ==
    LET grown == Append(seq, key) IN
    IF Len(grown) > cap THEN Tail(grown) ELSE grown
Dropped(old, new) == {k[1] : k \in {x \in ToSet(old) \ ToSet(new) : x[2] = "End"}}

DupKey(ev) == <<ev.id, ev.kind, ev.elapsed>>

\* Mutant: the filter lets every event through.
NeverDuplicate(ev) == FALSE

\* DuplicateFilter::accept refuses the event.
Duplicate(ev) == DupKey(ev) \in ToSet(dupes)

\* Mutant: an End seals the round again and again, and progress is not held off.
ApplyAlways(ev, key, st) ==
    CASE ev.kind = "Prepare" -> [NoRound EXCEPT !.phase = "Prepare"]
      [] ev.kind = "Start" -> [st EXCEPT !.phase = "Begin", !.sealed = FALSE]
      [] ev.kind = "Progress" -> [st EXCEPT !.phase = "Progress", !.mult = ev.elapsed]
      [] ev.kind = "End" -> [phase |-> "End", mult |-> ev.mult, final |-> ev.mult, sealed |-> TRUE]
      [] OTHER -> st

\* RoundStateRegistry::apply to the state of the round it is about.  The
\* multiplier of a progress event is a function of its elapsed time.
ApplyTo(ev, key, st) ==
    CASE ev.kind = "Prepare" -> [NoRound EXCEPT !.phase = "Prepare"]
      [] ev.kind = "Start" -> [st EXCEPT !.phase = "Begin", !.sealed = FALSE]
      [] ev.kind = "Progress" /\ ~st.sealed -> [st EXCEPT !.phase = "Progress", !.mult = ev.elapsed]
      [] ev.kind = "End" -> [phase |-> "End", mult |-> ev.mult, final |-> ev.mult, sealed |-> TRUE]
      [] OTHER -> st

\* Progress without an id belongs to the current round; Prepare and Start make
\* theirs the current one.
Apply(ev) ==
    LET key == IF ev.id # 0 THEN ev.id ELSE IF ev.kind = "Progress" THEN current ELSE 0 IN
    IF key = 0 THEN UNCHANGED state
    ELSE /\ rounds' = [rounds EXCEPT ![key] = ApplyTo(ev, key, @)]
         /\ current' = IF ev.kind \in {"Prepare", "Start"} THEN key ELSE current
         /\ first' = IF ev.kind = "End" /\ first[key] = -1 THEN [first EXCEPT ![key] = ev.mult] ELSE first
         /\ reopened' = IF ev.kind \in {"Prepare", "Start"} /\ first[key] # -1
                        THEN reopened \cup {key} ELSE reopened

\* The streaks of CrashStatsAccumulator::addRound.
Kind(m) == IF m < HighThreshold THEN "Low" ELSE "High"
NextStreak(m) ==
    LET kind == Kind(m)
        count == IF streak.kind = kind THEN streak.count + 1 ELSE 1
    IN  [kind |-> kind, count |-> count,
         maxLow |-> IF kind = "Low" /\ count > streak.maxLow THEN count ELSE streak.maxLow,
         maxHigh |-> IF kind = "High" /\ count > streak.maxHigh THEN count ELSE streak.maxHigh]
AddRound(ev) ==
    IF ev.kind = "End" /\ ev.mult > 0
    THEN values' = Append(values, ev.mult) /\ streak' = NextStreak(ev.mult)
    ELSE UNCHANGED stats

-----------------------------------------------------------------------------

\* EventRouter::route: the keys after it, and the queues.  A known key only
\* moves to the end.  The key of an End is remembered before the push, which
\* fails when the queue is full.
RouterKey(ev) == <<ev.id, ev.kind>>
Refreshed(ks, key) ==
    LET i == CHOOSE j \in DOMAIN ks : ks[j] = key IN Append(RemoveAt(ks, i), key)
Routed(ev, ks) ==
    IF ~Valid(ev) \/ ev.id = 0 THEN ks
    ELSE IF RouterKey(ev) \in ToSet(ks) THEN Refreshed(ks, RouterKey(ev))
    ELSE Remember(ks, RouterKey(ev), RouterCap)

\* Mutant: the key is looked up and never stored.
NewAlways(ev, ks) == ev.kind = "End" /\ ev.id # 0

\* It is the first End of its round the router knows of.
NewEnd(ev, ks) == ev.kind = "End" /\ ev.id # 0 /\ RouterKey(ev) \notin ToSet(ks)
Push(q, r) == IF Len(q) < QueueCap THEN Append(q, r) ELSE q

\* Route the event from the keys ks.
Route(ev, ks) ==
    /\ keys' = Routed(ev, ks)
    /\ keyForgot' = keyForgot \cup Dropped(ks, Routed(ev, ks))
    /\ toValidation' = IF NewEnd(ev, ks) THEN Push(toValidation, ev.id) ELSE toValidation
    /\ toPrediction' = IF NewEnd(ev, ks) THEN Push(toPrediction, ev.id) ELSE toPrediction
    /\ lost' = IF NewEnd(ev, ks) /\ Len(toValidation) >= QueueCap THEN lost \cup {ev.id} ELSE lost

\* CrashFeed::onFrame and the frames of the socket: decode and route.
FeedFrame(ev) ==
    /\ mode = "application" /\ frames < MaxFrames
    /\ frames' = frames + 1
    /\ Route(ev, keys)
    /\ UNCHANGED <<mode, advised, dupes, dupForgot, state, stats, draining, settled>>

\* PipelineLoop::onFrame up to the router.
Through(ev) ==
    /\ Observe(ev)
    /\ dupes' = Remember(dupes, DupKey(ev), DupCap)
    /\ dupForgot' = dupForgot \cup Dropped(dupes, dupes')
    /\ Apply(ev)
    /\ AddRound(ev)

\* Application::onBinaryFrame.  A frame the filters stop changes nothing else.
OnFrame(ev) ==
    /\ mode = "application" /\ frames < MaxFrames
    /\ frames' = frames + 1
    /\ IF ~Valid(ev) \/ ev.kind \in {"Heartbeat", "Connect"} \/ Duplicate(ev)
       THEN Observe(ev) /\ UNCHANGED <<dupes, keys, state, stats, queues, dupForgot, keyForgot, lost>>
       ELSE /\ Through(ev)
            /\ Route(ev, keys)
            /\ UNCHANGED <<draining, settled>>
    /\ UNCHANGED mode

\* How often the End of round r is in a queue.
Count(q, r) == Cardinality({i \in DOMAIN q : q[i] = r})

\* PipelineLoop::drain, which settles all that waits before onFrame returns.
Drained(q) == q

\* The event is routed, and the queues are drained.
RouteAndDrain(ev, ks) ==
    LET queue == IF NewEnd(ev, ks) THEN Push(toValidation, ev.id) ELSE toValidation
        done == Drained(queue)
    IN  /\ settled' = [r \in Ids |-> settled[r] + Count(done, r)]
        /\ toValidation' = SubSeq(queue, Len(done) + 1, Len(queue))
        /\ toPrediction' = <<>>
        /\ lost' = IF NewEnd(ev, ks) /\ Len(toValidation) >= QueueCap THEN lost \cup {ev.id} ELSE lost
        /\ UNCHANGED draining

\* EventEngine::processFrame: onFrame, then injectFrame, which routes the event
\* a second time.  A frame the filters stop is still injected.
ProcessFrame(ev) ==
    /\ mode = "engine" /\ frames < MaxFrames
    /\ frames' = frames + 1
    /\ IF ~Valid(ev) \/ ev.kind \in {"Heartbeat", "Connect"} \/ Duplicate(ev)
       THEN /\ Observe(ev)
            /\ Route(ev, keys)
            /\ UNCHANGED <<dupes, dupForgot, state, stats, draining, settled>>
       ELSE /\ Through(ev)
            /\ keys' = Routed(ev, Routed(ev, keys))
            /\ keyForgot' = keyForgot \cup Dropped(keys, keys')
            /\ RouteAndDrain(ev, keys)
    /\ UNCHANGED mode

\* Application::drainQueues settles the ended rounds one by one and then
\* discards the copies in the other queue.
PopValidation ==
    /\ mode = "application" /\ ~draining /\ toValidation # <<>>
    /\ settled' = [settled EXCEPT ![Head(toValidation)] = @ + 1]
    /\ toValidation' = Tail(toValidation)
    /\ UNCHANGED <<mode, frames, filters, state, stats, toPrediction, draining, dupForgot, keyForgot, lost>>
DrainPrediction ==
    /\ mode = "application" /\ ~draining /\ toValidation = <<>> /\ toPrediction # <<>>
    /\ draining' = TRUE
    /\ UNCHANGED <<mode, frames, filters, state, stats, toValidation, toPrediction, settled, dupForgot, keyForgot, lost>>
PopPrediction ==
    /\ draining
    /\ toPrediction' = IF toPrediction = <<>> THEN <<>> ELSE Tail(toPrediction)
    /\ draining' = (toPrediction # <<>>)
    /\ UNCHANGED <<mode, frames, filters, state, stats, toValidation, settled, dupForgot, keyForgot, lost>>

\* RoundStateRegistry::prune drops a sealed round.
Prune(r) ==
    /\ rounds[r].sealed
    /\ rounds' = [rounds EXCEPT ![r] = NoRound]
    /\ current' = IF current = r THEN 0 ELSE current
    /\ UNCHANGED <<mode, frames, filters, first, reopened, stats, queues, dupForgot, keyForgot, lost>>

Next ==
    \/ \E ev \in Events : FeedFrame(ev) \/ OnFrame(ev) \/ ProcessFrame(ev)
    \/ PopValidation \/ DrainPrediction \/ PopPrediction
    \/ \E r \in Ids : Prune(r)

Spec == Init /\ [][Next]_vars

-----------------------------------------------------------------------------

Waiting(r) == Count(toValidation, r)

\* The End of a round is settled once, although it is routed twice by the
\* engine and by two ways in the application: a second time needs a router
\* that has forgotten its key (event_router.hpp:43-63).
EndOnce == \A r \in Ids : settled[r] + Waiting(r) > 1 => r \in keyForgot

\* A sealed round keeps the crash point of the first End, whatever comes
\* after it, unless it was started again or the DuplicateFilter has forgotten
\* that End (round_state.hpp:86-110, duplicate_filter.hpp:21-37).
SealedIsFinal ==
    \A r \in Ids : rounds[r].sealed /\ r \notin reopened \cup dupForgot
        => rounds[r].final = first[r] /\ rounds[r].mult = first[r]

\* No End is lost between the router and the validator when every accepted
\* frame is followed by a drain (pipeline_loop.hpp:107-139), as long as the
\* router has forgotten no End: an End it has forgotten and the DuplicateFilter
\* has not is queued again by injectFrame and not drained.  Otherwise an End
\* that is neither settled nor waiting found the queue full, and as long as its
\* key is remembered it does not come back (event_router.hpp:52-76).
EndAccountedFor ==
    /\ mode = "engine" /\ keyForgot = {} => lost = {}
    /\ \A r \in Ids : <<r, "End">> \in ToSet(keys) => settled[r] + Waiting(r) > 0 \/ r \in lost

(* The End of a round is settled, and once.                                *)
EndsSafe == EndOnce /\ EndAccountedFor


\* The streaks are those of the rounds that were counted: a longest run of
\* either kind, and the whole run at the end (stats.hpp:70-79).
Run(i, j, kind) == \A k \in i..j : Kind(values[k]) = kind
Runs(kind) == {p \in (DOMAIN values) \X (DOMAIN values) : p[1] <= p[2] /\ Run(p[1], p[2], kind)}
Longest(kind, n) ==
    /\ \A p \in Runs(kind) : p[2] - p[1] + 1 <= n
    /\ n # 0 => \E p \in Runs(kind) : p[2] - p[1] + 1 = n
Current(n) ==
    /\ n \in DOMAIN values /\ Run(Len(values) - n + 1, Len(values), streak.kind)
    /\ n = Len(values) \/ Kind(values[Len(values) - n]) # streak.kind
StreaksAgree ==
    /\ Longest("Low", streak.maxLow) /\ Longest("High", streak.maxHigh)
    /\ values # <<>> => Current(streak.count)

(* What is recorded of finished rounds stays as it was when they ended.    *)
RecordsKept == SealedIsFinal /\ StreaksAgree

-----------------------------------------------------------------------------
(***************************************************************************)
(* The inductive strengthening of EndsSafe and RecordsKept.  The End of a  *)
(* round that was queued is known to the router, or forgotten; what the    *)
(* DuplicateFilter knows the router knows too, unless it has forgotten     *)
(* something, so that nothing waits in the engine; and the first End that  *)
(* was applied is known to the DuplicateFilter, or forgotten.              *)
(***************************************************************************)
Kinds == {"Prepare", "Start", "End", "Progress", "Heartbeat", "Connect"}

TypeOK ==
    /\ mode \in {"engine", "application"}
    /\ dupes \in Seq((Ids \cup {0}) \X Kinds \X Nat)
    /\ keys \in Seq(Ids \X Kinds)
    /\ rounds \in [Ids -> [phase : {"None", "Prepare", "Begin", "Progress", "End"},
                           mult : Nat, final : Nat, sealed : BOOLEAN]]
    /\ current \in Ids \cup {0}
    /\ first \in [Ids -> Mults \cup {-1}]
    /\ toValidation \in Seq(Ids)
    /\ settled \in [Ids -> Nat]
    /\ values \in Seq(Nat)
    /\ streak \in [kind : {"None", "Low", "High"}, count : Nat, maxLow : Nat, maxHigh : Nat]

QueuedIsKnown ==
    \A r \in Ids : settled[r] + Waiting(r) > 0 => <<r, "End">> \in ToSet(keys) \/ r \in keyForgot

EngineIsDrained ==
    mode = "engine" /\ keyForgot = {} =>
        /\ toValidation = <<>>
        /\ \A r \in Ids : <<r, "End", 0>> \in ToSet(dupes) => <<r, "End">> \in ToSet(keys)

FirstIsKnown ==
    \A r \in Ids :
        /\ first[r] # -1 => <<r, "End", 0>> \in ToSet(dupes) \/ r \in dupForgot
        /\ rounds[r].sealed => first[r] # -1

IInv ==
    /\ TypeOK
    /\ QueuedIsKnown /\ EngineIsDrained /\ EndsSafe
    /\ FirstIsKnown /\ SealedIsFinal
    /\ (values = <<>> => streak.kind = "None") /\ StreaksAgree
=============================================================================
