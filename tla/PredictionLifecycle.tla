------------------------ MODULE PredictionLifecycle -------------------------
(***************************************************************************)
(* The life of a prediction, from the end of round N to the outcome of     *)
(* round N+1.  EventRouter queues the End events of the socket and of the  *)
(* poll worker; the main loop (Application::drainQueues) settles round N   *)
(* with LiveValidator::onGameEnd and calls N1Coordinator::onRoundEnd,      *)
(* which predicts round N+1.  The poll thread calls onRoundEnd as well,    *)
(* for every round it fetches and before it routes the event.              *)
(*                                                                         *)
(* onRoundEnd submits a request, whose response first goes through the     *)
(* response handler of the application (register, claim the target, store  *)
(* the prediction, publish its signal) and is then fetched by correlation  *)
(* id, registered once more and handed to the outbox if that was new.      *)
(* Every critical section on that way is a step, so the two threads        *)
(* interleave.                                                             *)
(*                                                                         *)
(* Abstractions: a prediction is an identifier, drawn fresh by the         *)
(* prediction engine, which decides freely whether to enter or to skip; a  *)
(* registered prediction may be found too old at any time; the key of an   *)
(* event may be evicted from the router at any time; the validation queue  *)
(* is a FIFO (SpscRing tells when it is one); the in-memory outbox is the  *)
(* set of the signals it accepted (MemoryOutbox is the detailed one).      *)
(* Game ids are numeric.  The handlers write the TargetCoordinator and     *)
(* never read it (the result of claim is dropped), so it is not part of    *)
(* this state.                                                             *)
(***************************************************************************)
EXTENDS Integers, Sequences, FiniteSets, Functions

CONSTANTS
    Predictions,  \* identifiers of actionable predictions
    Main,         \* the main thread
    Pollers,      \* the poll thread, or none when polling is disabled
    MaxRound,     \* bound: rounds that end
    QueueCap,     \* capacity of the validation queue
    ResolvedCap,  \* ended rounds LiveValidator remembers (5000)
    FeedbackCap,  \* predictions ExactlyOnceFeedback remembers (100 000)
    RegistryCap,  \* PredictionRegistry::max_
    Stamps,       \* milliseconds that tell correlation ids apart
    MaxFaults,    \* bound: failed transactions and statements
    MaxFull,      \* bound: signals refused by a full outbox
    Skip,         \* a response that is not actionable
    Absent        \* no response with a correlation id

ASSUME ThreadAssumption == Main \notin Pollers
ASSUME ResponseAssumption ==
    Skip \notin Predictions /\ Absent \notin Predictions \cup {Skip} /\ Absent \notin Stamps
ASSUME BoundAssumption ==
    /\ MaxRound \in Nat /\ QueueCap \in Nat /\ ResolvedCap \in Nat \ {0}
    /\ FeedbackCap \in Nat /\ RegistryCap \in Nat /\ MaxFaults \in Nat /\ MaxFull \in Nat

Threads == {Main} \cup Pollers
Rounds == 1..MaxRound
Targets == 1..(MaxRound + 1)
Responses == Predictions \cup {Skip}
Signals == Predictions \X {"prediction", "outcome"}

VARIABLES
    ended,     \* the rounds 1..ended have ended at the game's side
    seen,      \* EventRouter::seen_map_: rounds whose End was routed
    queue,     \* EventRouter::to_validation_
    resolved,  \* LiveValidator::resolved_ends_, oldest first
    registry,  \* PredictionRegistry: outstanding predictions
    target,    \* the target of each prediction, 0 before it is made
    pending,   \* PredictionClient::pending_, by correlation id
    last,      \* last_response_
    feedback,  \* ExactlyOnceFeedback::seen_
    pc,        \* where each thread is
    at,        \* the ended round it works on
    stamp,     \* the millisecond in its correlation id
    resp,      \* the response it works on
    outcomes,  \* predictions the main thread has taken and not yet settled
    published, \* signals the in-memory outbox has accepted
    stored,    \* signals whose rows are in the database
    matched,   \* history: how often each prediction was matched
    applied,   \* history: how often its feedback was applied
    late,      \* history: registered after their target was resolved
    evicted,   \* history: a resolved round has been forgotten
    forgot,    \* history: the feedback set has been cleared
    faults,    \* failures so far
    full       \* refused signals so far

router == <<seen, queue>>
client == <<pending, last>>
thread == <<pc, at, stamp, resp>>
settling == <<resolved, feedback, outcomes, matched, applied, evicted, forgot>>
database == <<stored, faults>>
outbox == <<published, full>>
vars == <<ended, router, registry, target, client, thread, settling,
          database, outbox, late>>

Steps == {"boot", "idle", "take", "settle", "submit", "register", "persist",
          "publish", "fetch", "again", "handoff", "route"}

-----------------------------------------------------------------------------

Init ==
    /\ ended = 0
    /\ seen = {} /\ queue = <<>>
    /\ resolved = <<>>
    /\ registry = {}
    /\ target = [p \in Predictions |-> 0]
    /\ pending = [c \in Targets \X Stamps |-> Absent]
    /\ last = Skip
    /\ feedback = {}
    /\ pc = [t \in Threads |-> IF t = Main THEN "boot" ELSE "idle"]
    /\ at = [t \in Threads |-> 0]
    /\ stamp = [t \in Threads |-> Absent]
    /\ resp = [t \in Threads |-> Skip]
    /\ outcomes = {}
    /\ published = {} /\ stored = {}
    /\ matched = [p \in Predictions |-> 0]
    /\ applied = [p \in Predictions |-> 0]
    /\ late = {} /\ evicted = FALSE /\ forgot = FALSE
    /\ faults = 0 /\ full = 0

Goto(t, step) == pc' = [pc EXCEPT ![t] = step]

\* LiveBoot has started the poll worker before Application::init installs the
\* response handler and the main loop begins.
Installed == pc[Main] # "boot"
InstallHandlers ==
    /\ pc[Main] = "boot"
    /\ Goto(Main, "idle")
    /\ UNCHANGED <<ended, router, registry, target, client, at, stamp, resp,
                   settling, database, outbox, late>>

\* The game ends its next round.
EndRound ==
    /\ ended < MaxRound
    /\ ended' = ended + 1
    /\ UNCHANGED <<router, registry, target, client, thread, settling,
                   database, outbox, late>>

\* EventRouter::route of an End event.  The key is remembered before the push,
\* whether or not the queue has room.
Route(r) ==
    /\ seen' = seen \cup {r}
    /\ queue' = IF r \notin seen /\ Len(queue) < QueueCap THEN Append(queue, r) ELSE queue

\* The socket thread routes the End of a round.
SocketEnd(r) ==
    /\ r \in 1..ended
    /\ r \notin seen
    /\ Route(r)
    /\ UNCHANGED <<ended, registry, target, client, thread, settling,
                   database, outbox, late>>

\* Enough other events have passed for the key to be evicted from the router.
EvictKey(r) ==
    /\ r \in seen
    /\ seen' = seen \ {r}
    /\ UNCHANGED <<ended, queue, registry, target, client, thread, settling,
                   database, outbox, late>>

\* The poll worker hands a fetched round to its handler.
PollRound(t, r) ==
    /\ t \in Pollers
    /\ pc[t] = "idle"
    /\ r \in 1..ended
    /\ at' = [at EXCEPT ![t] = r]
    /\ Goto(t, "submit")
    /\ UNCHANGED <<ended, router, registry, target, client, stamp, resp,
                   settling, database, outbox, late>>

\* LiveValidator::onGameEnd has seen the End of this round.
AlreadySettled(r) == r \in Range(resolved)

\* Mutant: the round is settled and not remembered.
ForgetRound(r) == UNCHANGED <<resolved, evicted>>

\* It remembers the round and, when that is one too many, forgets the oldest.
RememberRound(r) ==
    /\ resolved' = IF Len(resolved) < ResolvedCap THEN Append(resolved, r)
                   ELSE Append(Tail(resolved), r)
    /\ evicted' = (evicted \/ Len(resolved) >= ResolvedCap)

\* drainQueues pops an End event, and onGameEnd remembers the round.  A round
\* it knows is not settled again, but predicted upon all the same.
PopValidation ==
    /\ pc[Main] = "idle"
    /\ queue # <<>>
    /\ queue' = Tail(queue)
    /\ at' = [at EXCEPT ![Main] = Head(queue)]
    /\ IF AlreadySettled(Head(queue))
       THEN /\ Goto(Main, "submit")
            /\ UNCHANGED <<resolved, evicted>>
       ELSE /\ RememberRound(Head(queue))
            /\ Goto(Main, "take")
    /\ UNCHANGED <<ended, seen, registry, target, client, stamp, resp, feedback,
                   outcomes, matched, applied, forgot, database, outbox, late>>

Outstanding(r) == {p \in registry : target[p] = r}

\* Mutant: only one of the predictions of the round is taken.
TakenOne(r) == IF Outstanding(r) = {} THEN {} ELSE {CHOOSE p \in Outstanding(r) : TRUE}

\* PredictionRegistry::takeForRound.
Taken(r) == Outstanding(r)

\* OutcomeMatcher::match takes the predictions of the round.
MatchRound ==
    LET taken == Taken(at[Main]) IN
    /\ pc[Main] = "take"
    /\ registry' = registry \ taken
    /\ outcomes' = taken
    /\ matched' = [p \in Predictions |-> matched[p] + IF p \in taken THEN 1 ELSE 0]
    /\ Goto(Main, IF taken = {} THEN "submit" ELSE "settle")
    /\ UNCHANGED <<ended, router, target, client, at, stamp, resp, resolved,
                   feedback, applied, evicted, forgot, database, outbox, late>>

\* Mutant: the feedback set is not looked at.
AlwaysNew(p) == TRUE

\* ExactlyOnceFeedback::apply has not seen the prediction.
NewFeedback(p) == p \notin feedback

\* ExactlyOnceFeedback::apply, which clears its set when it grows too large.
ApplyFeedback(p) ==
    LET grown == feedback \cup {p}
        clear == Cardinality(grown) > FeedbackCap
    IN  IF NewFeedback(p)
        THEN /\ feedback' = IF clear THEN {p} ELSE grown
             /\ forgot' = (forgot \/ clear)
             /\ applied' = [applied EXCEPT ![p] = @ + 1]
        ELSE UNCHANGED <<feedback, forgot, applied>>

\* The in-memory outbox accepts a signal, unless it has it already.
Accept(s) == published' = published \cup {s} /\ UNCHANGED full

\* Its queue is full.
Refuse(s) ==
    /\ s \notin published
    /\ full < MaxFull
    /\ full' = full + 1
    /\ UNCHANGED published

\* The outcome handler of the application for one outcome: the feedback is
\* applied, the outcome stored, and its signal published whether or not that
\* succeeded.
SettleOutcome(p) ==
    LET signal == <<p, "outcome">> IN
    /\ pc[Main] = "settle"
    /\ p \in outcomes
    /\ outcomes' = outcomes \ {p}
    /\ ApplyFeedback(p)
    /\ \/ stored' = stored \cup {signal} /\ UNCHANGED faults
       \/ faults < MaxFaults /\ faults' = faults + 1 /\ UNCHANGED stored
    /\ Accept(signal) \/ Refuse(signal)
    /\ Goto(Main, IF outcomes = {p} THEN "submit" ELSE "settle")
    /\ UNCHANGED <<ended, router, registry, target, client, at, stamp, resp, resolved,
                   matched, evicted, late>>

-----------------------------------------------------------------------------
(* N1Coordinator::onRoundEnd, on the main thread and on the poll thread.   *)

\* InProcessPredictionClient::predictNextAfterEnd and submit: the engine
\* answers, and the response is filed under its correlation id.
Submit(t, s) ==
    /\ pc[t] = "submit"
    /\ \E answer \in {Skip} \cup {p \in Predictions : target[p] = 0} :
        /\ resp' = [resp EXCEPT ![t] = answer]
        /\ last' = answer
        /\ stamp' = [stamp EXCEPT ![t] = s]
        /\ pending' = [pending EXCEPT ![<<at[t] + 1, s>>] = answer]
        /\ target' = [p \in Predictions |-> IF p = answer THEN at[t] + 1 ELSE target[p]]
        /\ Goto(t, IF answer # Skip /\ Installed THEN "register" ELSE "fetch")
    /\ UNCHANGED <<ended, router, registry, at, settling, database, outbox, late>>

\* PredictionRegistry::registerPrediction of a prediction it does not have; a
\* full registry drops a prediction.
Enter(p) ==
    LET grown == registry \cup {p} IN
    /\ \/ Cardinality(grown) <= RegistryCap /\ registry' = grown
       \/ Cardinality(grown) > RegistryCap /\ \E q \in grown : registry' = grown \ {q}
    /\ late' = IF AlreadySettled(target[p]) THEN late \cup {p} ELSE late

\* The response handler registers the prediction, and gives up if it is there.
Register(t) ==
    /\ pc[t] = "register"
    /\ IF resp[t] \in registry
       THEN Goto(t, "fetch") /\ UNCHANGED <<registry, late>>
       ELSE Goto(t, "persist") /\ Enter(resp[t])
    /\ UNCHANGED <<ended, router, target, client, at, stamp, resp, settling,
                   database, outbox>>

\* DurablePredictionTx::persistPrediction commits its transaction.
PersistPrediction(t) ==
    /\ pc[t] = "persist"
    /\ stored' = stored \cup {<<resp[t], "prediction">>}
    /\ Goto(t, "publish")
    /\ UNCHANGED <<ended, router, registry, target, client, at, stamp, resp,
                   settling, faults, outbox, late>>

\* One of its statements, or the commit, fails.
PersistFails(t) ==
    /\ pc[t] = "persist"
    /\ faults < MaxFaults
    /\ faults' = faults + 1
    /\ Goto(t, "publish")
    /\ UNCHANGED <<ended, router, registry, target, client, at, stamp, resp,
                   settling, stored, outbox, late>>

\* Mutant: the signal is left to onRoundEnd, which publishes new ones only.
PublishLeft(t) ==
    /\ pc[t] = "publish"
    /\ Goto(t, "fetch")
    /\ UNCHANGED <<ended, router, registry, target, client, at, stamp, resp,
                   settling, database, outbox, late>>

\* The handler publishes the signal after the commit, and after a failure too.
Publish(t) ==
    LET signal == <<resp[t], "prediction">> IN
    /\ pc[t] = "publish"
    /\ Accept(signal) \/ Refuse(signal)
    /\ Goto(t, "fetch")
    /\ UNCHANGED <<ended, router, registry, target, client, at, stamp, resp,
                   settling, database, late>>

\* onRoundEnd returns to the main loop, or to the poll worker, which still has
\* to route the event.
Return(t) ==
    /\ resp' = [resp EXCEPT ![t] = Skip]
    /\ IF t = Main
       THEN Goto(t, "idle") /\ at' = [at EXCEPT ![t] = 0]
       ELSE Goto(t, "route") /\ UNCHANGED at

\* predictNextAfterEnd fetches the response by its correlation id; when
\* another thread has taken it, the last response is used.
FetchResponse(t) ==
    LET id == <<at[t] + 1, stamp[t]>>
        answer == IF pending[id] = Absent THEN last ELSE pending[id]
    IN  /\ pc[t] = "fetch"
        /\ pending' = [pending EXCEPT ![id] = Absent]
        /\ stamp' = [stamp EXCEPT ![t] = Absent]
        /\ IF answer = Skip
           THEN Return(t)
           ELSE /\ resp' = [resp EXCEPT ![t] = answer]
                /\ Goto(t, "again")
                /\ UNCHANGED at
        /\ UNCHANGED <<ended, router, registry, target, last, settling, database, outbox,
                       late>>

\* onRoundEnd registers the prediction, normally in vain.
RegisterAgain(t) ==
    /\ pc[t] = "again"
    /\ IF resp[t] \in registry
       THEN Return(t) /\ UNCHANGED <<registry, late>>
       ELSE Goto(t, "handoff") /\ Enter(resp[t]) /\ UNCHANGED <<at, resp>>
    /\ UNCHANGED <<ended, router, target, client, stamp, settling, database, outbox>>

\* It publishes the signal of a prediction that was not registered.
Handoff(t) ==
    LET signal == <<resp[t], "prediction">> IN
    /\ pc[t] = "handoff"
    /\ Accept(signal) \/ Refuse(signal)
    /\ Return(t)
    /\ UNCHANGED <<ended, router, registry, target, client, stamp, settling, database,
                   late>>

\* The poll worker routes the End it has handled.
PollRoute(t) ==
    /\ pc[t] = "route"
    /\ Route(at[t])
    /\ Goto(t, "idle")
    /\ at' = [at EXCEPT ![t] = 0]
    /\ UNCHANGED <<ended, registry, target, client, stamp, resp, settling, database,
                   outbox, late>>

-----------------------------------------------------------------------------

\* After draining the queues the main loop expires old predictions.
ExpirePrediction(p) ==
    /\ pc[Main] = "idle" /\ queue = <<>>
    /\ p \in registry
    /\ registry' = registry \ {p}
    /\ UNCHANGED <<ended, router, target, client, thread, settling, database,
                   outbox, late>>

OnRoundEnd(t) ==
    \/ \E s \in Stamps : Submit(t, s)
    \/ Register(t)
    \/ PersistPrediction(t)
    \/ PersistFails(t)
    \/ Publish(t)
    \/ FetchResponse(t)
    \/ RegisterAgain(t)
    \/ Handoff(t)

OnGameEnd ==
    \/ PopValidation
    \/ MatchRound
    \/ \E p \in Predictions : SettleOutcome(p)

Next ==
    \/ InstallHandlers
    \/ EndRound
    \/ \E r \in Rounds : SocketEnd(r) \/ EvictKey(r)
    \/ OnGameEnd
    \/ \E t \in Threads : OnRoundEnd(t) \/ PollRoute(t) \/ \E r \in Rounds : PollRound(t, r)
    \/ \E p \in Predictions : ExpirePrediction(p)

Spec == Init /\ [][Next]_vars

-----------------------------------------------------------------------------

RouterTypeOK ==
    /\ ended \in 0..MaxRound
    /\ seen \subseteq Rounds
    /\ queue \in Seq(Rounds)
    /\ Len(queue) <= QueueCap

PredictionTypeOK ==
    /\ registry \subseteq Predictions
    /\ late \subseteq Predictions
    /\ target \in [Predictions -> {0} \cup Targets]
    /\ pending \in [Targets \X Stamps -> Responses \cup {Absent}]
    /\ last \in Responses

ThreadTypeOK ==
    /\ pc \in [Threads -> Steps]
    /\ at \in [Threads -> {0} \cup Rounds]
    /\ \A t \in Threads : pc[t] \notin {"boot", "idle"} => at[t] # 0
    /\ stamp \in [Threads -> Stamps \cup {Absent}]
    /\ resp \in [Threads -> Responses]

SettlingTypeOK ==
    /\ resolved \in Seq(Rounds)
    /\ Len(resolved) <= ResolvedCap
    /\ feedback \subseteq Predictions
    /\ outcomes \subseteq Predictions
    /\ matched \in [Predictions -> Nat]
    /\ applied \in [Predictions -> Nat]
    /\ evicted \in BOOLEAN
    /\ forgot \in BOOLEAN

SignalTypeOK ==
    /\ published \subseteq Signals
    /\ stored \subseteq Signals
    /\ faults \in 0..MaxFaults
    /\ full \in 0..MaxFull

TypeOK ==
    /\ RouterTypeOK
    /\ PredictionTypeOK
    /\ ThreadTypeOK
    /\ SettlingTypeOK
    /\ SignalTypeOK

\* A prediction is matched with the outcome of its round at most once, even
\* when onRoundEnd registers it again after it was matched
\* (n1_coordinator.hpp:59) and the End of its round comes again: as long as
\* LiveValidator remembers the round (live_validator.hpp:86-108).
MatchedOnce == ~evicted => \A p \in Predictions : matched[p] <= 1

\* "applied at most once per prediction" (exactly_once_feedback.hpp:6): the
\* feedback of a prediction is applied once if the validator has forgotten no
\* round or the feedback set was never cleared; one of the two is enough.
FeedbackOnce == ~evicted \/ ~forgot => \A p \in Predictions : applied[p] <= 1

\* onGameEnd "resolves pending predictions for completed round"
\* (live_validator.hpp:4): once it is through with a round, every prediction
\* for it that is still outstanding was registered too late.
NoneLeftBehind ==
    \A p \in registry :
        AlreadySettled(target[p]) /\ p \notin late => pc[Main] = "take" /\ at[Main] = target[p]

\* "Ensures prediction signal is published before outcome signal for same id"
\* (durable_handoff.hpp:4).
PredictionBeforeOutcome ==
    \A p \in Predictions : <<p, "outcome">> \in published => <<p, "prediction">> \in published

\* That order, as far as the code keeps it: while only the main thread
\* predicts and the outbox refuses nothing (application.hpp:511-523, 287-345).
OrderKept == full = 0 => PredictionBeforeOutcome

\* "Wake delivery ONLY after durable commit succeeds" and "Do not notify on
\* failed outcome persistence" (durable_prediction_tx.hpp:146, 193): a signal
\* in the outbox is in the database.
PublishedIsStored == published \subseteq stored

\* While only the main thread predicts, every signal that is not in the
\* database is due to a failed statement of its own, after which the
\* handlers publish all the same (application.hpp:319, 369).
UnstoredAreFaults == Cardinality(published \ stored) <= faults

(* While only the main thread predicts, signals are in order and stored.   *)
SignalsSafe == OrderKept /\ UnstoredAreFaults


-----------------------------------------------------------------------------
(***************************************************************************)
(* The inductive strengthening of MatchedOnce, FeedbackOnce and            *)
(* NoneLeftBehind.  A prediction that a thread, a table or the registry    *)
(* refers to has been made, so its target is fixed; the round the main     *)
(* thread takes is settled already; a matched prediction belongs to a      *)
(* settled round; and feedback is only applied to what was matched.        *)
(***************************************************************************)
ResponsesMade ==
    /\ \A t \in Threads :
        /\ resp[t] # Skip => target[resp[t]] # 0
        /\ pc[t] \in {"register", "persist", "publish", "again", "handoff"} => resp[t] # Skip
        /\ pc[t] \in {"register", "persist", "publish", "fetch"} => stamp[t] # Absent
    /\ last # Skip => target[last] # 0
    /\ \A c \in Targets \X Stamps : pending[c] \in Predictions => target[pending[c]] # 0
    /\ \A p \in registry : target[p] # 0

Taking(r) == pc[Main] = "take" /\ at[Main] = r

TakenIsSettled == \A r \in Rounds : Taking(r) => AlreadySettled(r)

MatchedIsSettled ==
    ~evicted => \A p \in Predictions :
        /\ matched[p] <= 1
        /\ matched[p] > 0 => AlreadySettled(target[p]) /\ ~Taking(target[p])

AppliedIsMatched ==
    /\ outcomes # {} => pc[Main] = "settle"
    /\ \A p \in Predictions :
        /\ applied[p] <= matched[p]
        /\ p \in outcomes => applied[p] < matched[p]

AppliedIsRemembered ==
    ~forgot => \A p \in Predictions : applied[p] <= 1 /\ (applied[p] > 0 => p \in feedback)

IInv ==
    /\ TypeOK
    /\ ResponsesMade
    /\ TakenIsSettled
    /\ MatchedIsSettled
    /\ AppliedIsMatched
    /\ AppliedIsRemembered
    /\ NoneLeftBehind

-----------------------------------------------------------------------------
(***************************************************************************)
(* The inductive strengthening of SignalsSafe, while only the main thread  *)
(* predicts: the response it fetches is the one it has just filed and      *)
(* handled; a prediction that can be settled has its signal out already,   *)
(* or the outbox has refused one; and a signal that is out, or that the    *)
(* thread may still publish, is stored or counted as a failure.            *)
(***************************************************************************)
Handling == {"register", "persist", "publish", "fetch"}
Publishing == {"publish", "fetch", "again", "handoff"}

FetchesItsOwn ==
    /\ pc[Main] \in Handling => pending[<<at[Main] + 1, stamp[Main]>>] = resp[Main]
    /\ pc[Main] = "register" => resp[Main] \notin registry

SignalIsOut(p) == full = 0 => <<p, "prediction">> \in published

SettledAreOut ==
    /\ \A p \in Predictions : <<p, "outcome">> \in published => SignalIsOut(p)
    /\ \A p \in registry \cup outcomes :
        SignalIsOut(p) \/ (pc[Main] \in {"persist", "publish"} /\ resp[Main] = p)
    /\ pc[Main] \in {"fetch", "again", "handoff"} /\ resp[Main] # Skip => SignalIsOut(resp[Main])

Unstored ==
    (published \cup IF pc[Main] \in Publishing /\ resp[Main] # Skip
                    THEN {<<resp[Main], "prediction">>} ELSE {}) \ stored

AloneInv ==
    /\ FetchesItsOwn
    /\ SettledAreOut
    /\ IsFiniteSet(Unstored) /\ Cardinality(Unstored) <= faults
=============================================================================
