------------------------------ MODULE MCLifecycle -----------------------------
(***************************************************************************)
(* The lifecycle of predictions, with the poll thread beside the main loop *)
(* (subject threads) and with the main loop alone, failures and a full     *)
(* registry (subject alone); and the intake of the frames that start it    *)
(* all (subject intake). Prediction ids and milliseconds are               *)
(* interchangeable. A behaviour is about the component that subject names; *)
(* the others stay in their initial states.                                *)
(***************************************************************************)
EXTENDS PredictionLifecycle, TLC

CONSTANTS
    AlonePredictions, \* the parameters of the main loop alone, where they
    AloneRegistryCap, \* are not those of the two threads
    AloneStamps,
    AloneFaults,
    AloneFull,
    Ids, Mults, Elapsed, DupCap, RouterCap, IntakeQueueCap, MaxFrames \* FrameIntake

ASSUME AloneAssumption ==
    /\ Skip \notin AlonePredictions /\ Absent \notin AlonePredictions \cup AloneStamps
    /\ AloneRegistryCap \in Nat /\ AloneFaults \in Nat /\ AloneFull \in Nat

\* The numbers of frames are numbers, and nothing is kept in no room.
ASSUME IntakeAssumption ==
    /\ Ids \subseteq Nat \ {0} /\ Mults \subseteq Nat /\ Elapsed \subseteq Nat
    /\ DupCap \in Nat \ {0} /\ RouterCap \in Nat \ {0} /\ IntakeQueueCap \in Nat \ {0}

Symmetry == Permutations(Predictions) \cup Permutations(Stamps)

VARIABLES
    subject,    \* the component a behaviour is about
    aloneEnded, aloneSeen, aloneQueue, aloneResolved, aloneRegistry,
    aloneTarget, alonePending, aloneLast, aloneFeedback, alonePc, aloneAt,
    aloneStamp, aloneResp, aloneOutcomes, alonePublished, aloneStored,
    aloneMatched, aloneApplied, aloneLate, aloneEvicted, aloneForgot,
    aloneFaults, aloneFull,
    intakeMode, intakeFrames, intakeAdvised, intakeDupes, intakeRounds,
    intakeCurrent, intakeKeys, intakeToValidation, intakeToPrediction,
    intakeDraining, intakeValues, intakeStreak, intakeSettled, intakeFirst,
    intakeReopened, intakeDupForgot, intakeKeyForgot, intakeLost

Alone == INSTANCE PredictionLifecycle WITH Predictions <- AlonePredictions,
    Pollers <- {}, RegistryCap <- AloneRegistryCap, Stamps <- AloneStamps,
    MaxFaults <- AloneFaults, MaxFull <- AloneFull, ended <- aloneEnded,
    seen <- aloneSeen, queue <- aloneQueue,
    resolved <- aloneResolved, registry <- aloneRegistry,
    target <- aloneTarget, pending <- alonePending, last <- aloneLast,
    feedback <- aloneFeedback, pc <- alonePc, at <- aloneAt,
    stamp <- aloneStamp, resp <- aloneResp, outcomes <- aloneOutcomes,
    published <- alonePublished, stored <- aloneStored,
    matched <- aloneMatched, applied <- aloneApplied, late <- aloneLate,
    evicted <- aloneEvicted, forgot <- aloneForgot, faults <- aloneFaults,
    full <- aloneFull

Intake == INSTANCE FrameIntake WITH QueueCap <- IntakeQueueCap,
    mode <- intakeMode, frames <- intakeFrames, advised <- intakeAdvised,
    dupes <- intakeDupes, rounds <- intakeRounds, current <- intakeCurrent,
    keys <- intakeKeys, toValidation <- intakeToValidation,
    toPrediction <- intakeToPrediction, draining <- intakeDraining,
    values <- intakeValues, streak <- intakeStreak, settled <- intakeSettled,
    first <- intakeFirst, reopened <- intakeReopened,
    dupForgot <- intakeDupForgot, keyForgot <- intakeKeyForgot,
    lost <- intakeLost

aloneVars == <<aloneEnded, aloneSeen, aloneQueue, aloneResolved, aloneRegistry,
    aloneTarget, alonePending, aloneLast, aloneFeedback, alonePc, aloneAt,
    aloneStamp, aloneResp, aloneOutcomes, alonePublished, aloneStored,
    aloneMatched, aloneApplied, aloneLate, aloneEvicted, aloneForgot,
    aloneFaults, aloneFull>>
intakeVars == <<intakeMode, intakeFrames, intakeAdvised, intakeDupes,
    intakeRounds, intakeCurrent, intakeKeys, intakeToValidation,
    intakeToPrediction, intakeDraining, intakeValues, intakeStreak,
    intakeSettled, intakeFirst, intakeReopened, intakeDupForgot,
    intakeKeyForgot, intakeLost>>
all == <<subject, vars, aloneVars, intakeVars>>

MCInit ==
    /\ subject \in {"threads", "alone", "intake"}
    /\ Init
    /\ Alone!Init
    /\ Intake!Init /\ (subject # "intake" => intakeMode = "engine")

MCNext ==
    \/ /\ subject = "threads" /\ Next
       /\ UNCHANGED <<subject, aloneVars, intakeVars>>
    \/ /\ subject = "alone" /\ Alone!Next
       /\ UNCHANGED <<subject, vars, intakeVars>>
    \/ /\ subject = "intake" /\ Intake!Next
       /\ UNCHANGED <<subject, vars, aloneVars>>
    \* These may come to an end.
    \/ subject \in {"alone", "intake"} /\ UNCHANGED all

MCSpec == MCInit /\ [][MCNext]_all

-----------------------------------------------------------------------------

(* The signal of a prediction precedes that of its outcome, and a          *)
(* published signal that is not stored is accounted for by a failure       *)
(* (Application's handlers, DurablePredictionTx).                          *)
AloneSignalsSafe == Alone!SignalsSafe

(* The End of a round is settled once while its key is remembered, and     *)
(* never lost but to a full queue (EventRouter::route, PipelineLoop).      *)
EndsSafe == Intake!EndsSafe

(* The final multiplier of a round does not change, and the streaks are    *)
(* those of the values recorded (RoundStateRegistry::apply,                *)
(* CrashStatsAccumulator).                                                 *)
RecordsKept == Intake!RecordsKept

=============================================================================
