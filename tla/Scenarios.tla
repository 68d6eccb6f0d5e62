------------------------------ MODULE Scenarios -----------------------------
(***************************************************************************)
(* The offline scenarios and their replay: runScenarioBatch feeds the      *)
(* frames of one scenario after the other to EventEngine::processFrame,    *)
(* which is FrameIntake in mode "engine".                                  *)
(*                                                                         *)
(* The scenarios of allScenarios are calls of makeRoundScenario(id,        *)
(* multiplier, ticks) with numbers that follow a rule: scenario n has the  *)
(* id 30000 + n, the multiplier 110 + 25 * (n % 40) hundredths and         *)
(* 3 + n % 7 progress frames.  The ids differ, so n names the round.       *)
(***************************************************************************)
EXTENDS FrameIntake

CONSTANT Batch  \* maxScenarios, 50; Ids is 1 .. Batch

VARIABLES
    slot,       \* number of the scenario being replayed
    steps       \* its steps that are left

replay == <<slot, steps>>

Multiplier(n) == 110 + 25 * (n % 40)
Ticks(n) == 3 + (n % 7)

\* elapsedFromMultiplier: ln(m / 100) / 0.00006 milliseconds.  The logarithm is
\* the sum of 2 / (2k + 1) for k from 100 to m - 1, in thousandths; it is taken
\* by blocks of fifty.
LogTerms(a, b) == MapThenSumSet(LAMBDA k : 100000000 \div (3 * (2 * k + 1)), a .. b)
ElapsedFromMultiplier(m) ==
    MapThenSumSet(LAMBDA j : LogTerms(50 * j, Min({m - 1, 50 * j + 49})), 2 .. m \div 50) \div 1000

\* stepStart, stepProgress and stepEnd, as the decoder understands their frames:
\* "st" is an End, here with the multiplier 1.00.
StepStart(id) == [kind |-> "End", id |-> id, mult |-> 100, elapsed |-> 0]
StepProgress(elapsed) == [kind |-> "Progress", id |-> 0, mult |-> 0, elapsed |-> elapsed]
StepEnd(id, m) == [kind |-> "End", id |-> id, mult |-> m, elapsed |-> 0]

\* makeRoundScenario.
MakeRoundScenario(id, m, ticks) ==
    LET all == ElapsedFromMultiplier(m) IN
    <<StepStart(id)>> \o [i \in 1 .. ticks |-> StepProgress((all * i) \div ticks)] \o <<StepEnd(id, m)>>

-----------------------------------------------------------------------------

Steps(n) == MakeRoundScenario(n, Multiplier(n), Ticks(n))

ReplayInit ==
    /\ Init /\ mode = "engine"
    /\ slot = 1 /\ steps = Steps(1)

\* runScenarioBatch: the next frame, ...
ReplayFrame ==
    /\ steps # <<>> /\ ProcessFrame(Head(steps)) /\ steps' = Tail(steps)
    /\ UNCHANGED slot

\* ... and at the end of a scenario another drain, and the next scenario.
ReplayNext ==
    /\ steps = <<>>
    /\ settled' = [r \in Ids |-> settled[r] + Count(toValidation, r)]
    /\ toValidation' = <<>> /\ toPrediction' = <<>>
    /\ IF slot < Batch THEN slot' = slot + 1 /\ steps' = Steps(slot') ELSE UNCHANGED replay
    /\ UNCHANGED <<mode, frames, filters, state, stats, draining, dupForgot, keyForgot, lost>>

ReplayStep == ReplayFrame \/ ReplayNext

ReplaySpec == ReplayInit /\ [][ReplayStep]_<<vars, replay>>

-----------------------------------------------------------------------------

Replayed == steps = <<>>

(* However many scenarios are replayed, each is one round for the          *)
(* statistics and settled once, although its two End frames are each       *)
(* routed twice (engine_scenarios.cpp:18-31, event_engine.hpp:140-153).    *)
(* What is recorded is the 1.00 of its start frame, which the decoder      *)
(* takes for an End, and not the multiplier the round ended with.          *)
ReplayCountsOnce ==
    Replayed => /\ Len(values) = slot
                /\ \A r \in 1 .. slot : settled[r] = 1 /\ values[r] = 100

=============================================================================
