------------------------------ MODULE EntryGate -----------------------------
(***************************************************************************)
(* How a prediction becomes an entry and what its outcome changes:         *)
(* InProcessPredictionClient::submit with evaluateStrategy and             *)
(* decisionFromSignal, makeOutcome, and the outcome handler's two          *)
(* memories, LossCooldownTracker and AdaptiveEdge.                         *)
(*                                                                         *)
(* Probabilities, confidences and edges are thousandths and multipliers    *)
(* hundredths.  The engine's signal is free.  GateThreads are the main     *)
(* loop and the poll thread: each observes a round and predicts the next.  *)
(* The main loop alone settles predictions (Settlers), through two         *)
(* memories with a lock each, between which the poll thread may read.      *)
(***************************************************************************)
EXTENDS Integers, FiniteSets

CONSTANTS
    GateThreads, Settlers,
    Probabilities, Confidences, \* what the engine may say
    Crashes,        \* crash points, hundredths
    Target,         \* defaultTarget, 130
    Fair,           \* fairProbability(Target), 769
    StartEdge,      \* the edge AdaptiveEdge is constructed with, 20
    InitialEdge,    \* initialEdge as Application::init sets it, qualityEdge
    MinEdge, MaxEdge, \* 5 and 80
    WinStep, LossStep, Decay, \* 1, 3 and 1
    ReducedEdge, ConservativeExtra, \* 5 and 30
    MinConfidence, ReducedMinConfidence, \* 550 and 450
    WarmMinSamples, \* 20
    LossThreshold,  \* 3
    MaxOpen         \* bound: entries waiting for their outcome

ASSUME EdgeAssumption ==
    /\ Settlers \subseteq GateThreads
    /\ {StartEdge, InitialEdge, MinEdge, MaxEdge, Fair, ReducedEdge, ConservativeExtra} \subseteq Nat
    /\ {MinConfidence, ReducedMinConfidence, WarmMinSamples} \subseteq Nat
    /\ StartEdge \in MinEdge .. MaxEdge /\ InitialEdge \in MinEdge .. MaxEdge
    /\ LossThreshold \in Nat \ {0} /\ MaxOpen \in Nat
    /\ WinStep \in Nat /\ LossStep \in Nat /\ Decay \in Nat
    /\ WinStep <= Decay /\ Decay <= LossStep
    /\ Probabilities \subseteq Nat /\ Confidences \subseteq Nat

(* How the parameters must lie for the two memories to agree: a streak of  *)
(* LossThreshold losses raises the edge by more than one late win of every *)
(* settling thread lowers it, and maxEdge leaves room for it.  With one    *)
(* such thread and the defaults of AdaptiveEdge and LossCooldownTracker it *)
(* is 2 against 6, and 26 against 80.                                      *)
Calibrated ==
    /\ IsFiniteSet(Settlers) /\ Decay <= 1 /\ InitialEdge <= StartEdge
    /\ (WinStep + Decay) * Cardinality(Settlers) < (LossStep - Decay) * LossThreshold
    /\ InitialEdge + (LossStep - Decay) * LossThreshold <= MaxEdge

Modes == {"Quality", "HighFrequency", "Conservative"}

VARIABLES
    mode,       \* strategyMode of the options
    observed,   \* observed_, up to WarmMinSamples
    edge,       \* AdaptiveEdge::edge_
    thread,     \* where each thread is, and what it has read
    entries,    \* registered entries waiting for their round, as a bag of records
    losses,     \* consecutiveLosses, up to LossThreshold
    active,     \* CooldownState::active
    wins        \* history: wins in a row as AdaptiveEdge sees them, up to MaxEdge - InitialEdge

gateVars == <<mode, observed, edge, thread, entries, losses, active, wins>>

Idle == [pc |-> "idle"]

GateInit ==
    /\ mode \in Modes /\ observed = 0 /\ edge = StartEdge
    /\ thread = [t \in GateThreads |-> Idle]
    /\ entries = {} /\ losses = 0 /\ active = FALSE /\ wins = 0

-----------------------------------------------------------------------------

Least(a, b) == IF a < b THEN a ELSE b
Most(a, b) == IF a > b THEN a ELSE b

\* observeEnd: a round with a crash point is counted, and the engine sees it.
ObserveEnd(t) ==
    /\ thread[t].pc = "idle" /\ observed < WarmMinSamples
    /\ observed' = observed + 1
    /\ UNCHANGED <<mode, edge, thread, entries, losses, active, wins>>

\* submit reads the edge and the number of samples, the signal in hand.
ReadEdge(t, p, c) ==
    /\ thread[t].pc = "idle"
    /\ thread' = [thread EXCEPT ![t] =
           [pc |-> "decide", prob |-> p, conf |-> c, edge |-> edge, seen |-> observed]]
    /\ UNCHANGED <<mode, observed, edge, entries, losses, active, wins>>

\* evaluateStrategy: what the mode asks for, and what the signal gets.
EdgeOf(e) == CASE mode = "HighFrequency" -> ReducedEdge
               [] mode = "Conservative" -> e + ConservativeExtra
               [] OTHER -> e
ConfidenceOf == IF mode = "HighFrequency" THEN ReducedMinConfidence ELSE MinConfidence
Evaluate(s) ==
    CASE \/ s.seen < WarmMinSamples
         \/ s.prob <= 0 /\ s.conf <= 0
         \/ s.conf < ConfidenceOf -> "Skip"
      [] OTHER ->
           IF s.prob >= Fair + EdgeOf(s.edge) THEN "Entry"
           ELSE IF /\ mode # "Conservative"
                   /\ s.prob >= Fair + ReducedEdge /\ s.conf >= ReducedMinConfidence
                THEN "ReducedEntry" ELSE "Skip"

\* decisionFromSignal, the safety net: in every mode an entry beats the fair
\* probability by the adaptive edge and has the full confidence.
Legacy(s) == s.prob >= Fair + s.edge /\ s.conf >= MinConfidence

\* Answers with Skip, and registered entries.  Two equal entries are one here.
Decide(t) ==
    /\ thread[t].pc = "decide"
    /\ LET s == thread[t]
           action == Evaluate(s)
           entry == [prob |-> s.prob, conf |-> s.conf, edge |-> s.edge, seen |-> s.seen,
                     action |-> action] IN
        IF action # "Skip" /\ Legacy(s)
        THEN /\ Cardinality(entries) < MaxOpen
             /\ entries' = entries \cup {entry}
        ELSE UNCHANGED entries
    /\ thread' = [thread EXCEPT ![t] = Idle]
    /\ UNCHANGED <<mode, observed, edge, losses, active, wins>>

\* makeOutcome of an entry.
IsWin(crash) == crash >= Target

\* LossCooldownTracker::noteOutcome, the first thing the handler does.
NoteCooldown(t, e, crash) ==
    /\ thread[t].pc = "idle" /\ e \in entries
    /\ entries' = entries \ {e}
    /\ losses' = IF IsWin(crash) THEN 0 ELSE Least(losses + 1, LossThreshold)
    /\ active' = (losses' = LossThreshold)
    /\ thread' = [thread EXCEPT ![t] = [pc |-> "feedback", win |-> IsWin(crash)]]
    /\ UNCHANGED <<mode, observed, edge, wins>>

\* The mild pull of noteOutcome towards the initial edge.
Pull(e) == IF e > InitialEdge THEN e - Decay ELSE IF e < InitialEdge THEN e + Decay ELSE e

\* std::clamp.
Clamp(e) == Least(Most(e, MinEdge), MaxEdge)

\* Mutant: losses and wins exchanged.
StepReversed(win) == IF win THEN LossStep ELSE 0 - WinStep

StepOf(win) == IF win THEN 0 - WinStep ELSE LossStep

\* AdaptiveEdge::noteOutcome, by way of ExactlyOnceFeedback::apply.
NoteOutcome(t) ==
    /\ thread[t].pc = "feedback"
    /\ edge' = Clamp(Pull(edge + StepOf(thread[t].win)))
    /\ wins' = IF thread[t].win THEN Least(wins + 1, MaxEdge - InitialEdge) ELSE 0
    /\ thread' = [thread EXCEPT ![t] = Idle]
    /\ UNCHANGED <<mode, observed, entries, losses, active>>

GateNext ==
    \/ \E t \in GateThreads :
        \/ ObserveEnd(t)
        \/ \E p \in Probabilities, c \in Confidences : ReadEdge(t, p, c)
        \/ Decide(t)
    \/ \E t \in Settlers :
        \/ \E e \in entries, crash \in Crashes : NoteCooldown(t, e, crash)
        \/ NoteOutcome(t)

GateSpec == GateInit /\ [][GateNext]_gateVars

-----------------------------------------------------------------------------

Signals == [prob : Probabilities, conf : Confidences, edge : MinEdge .. MaxEdge, seen : 0 .. WarmMinSamples]
Entries == [prob : Probabilities, conf : Confidences, edge : MinEdge .. MaxEdge, seen : 0 .. WarmMinSamples,
            action : {"Skip", "Entry", "ReducedEntry"}]

(* The types, and the bounds of the adaptive edge.                         *)
EdgeInBounds ==
    /\ edge \in MinEdge .. MaxEdge
    /\ entries \subseteq Entries
    /\ \A t \in GateThreads : thread[t].pc = "decide" => thread[t].edge \in MinEdge .. MaxEdge

(* A reduced entry acts: what evaluateStrategy decides to enter with the   *)
(* smaller edge is registered as an entry ("still actionable; size reduced *)
(* downstream", strategy.hpp).                                             *)
ReducedActs ==
    [][\A t \in GateThreads :
          /\ thread[t].pc = "decide" /\ thread'[t] = Idle
          /\ Evaluate(thread[t]) = "ReducedEntry"
          => \E e \in entries' : e.action = "ReducedEntry"]_gateVars

(* A streak of wins brings the edge back: n wins in a row take it from its *)
(* ceiling down to the initial edge by n steps of win and pull.            *)
WinsEase == edge <= Most(InitialEdge, MaxEdge - wins * (WinStep + Decay) + Decay)

(* The two memories agree: when the cooldown is active, after              *)
(* LossThreshold losses in a row, and no outcome is on its way from one to *)
(* the other, the edge is above the initial one, which is what the poll    *)
(* thread then reads (application.hpp, the outcome handler).               *)
CooldownMeansTight ==
    active /\ (\A t \in GateThreads : thread[t].pc # "feedback") => edge > InitialEdge

(* The edge follows the outcomes: wins bring it back, a streak of losses   *)
(* keeps it up.                                                            *)
EdgeFollows == WinsEase /\ CooldownMeansTight

-----------------------------------------------------------------------------
(* The inductive invariant of EdgeFollows.                                 *)

\* GateThreads between the two memories with a win, or a loss.
Pending(win) == {t \in Settlers : thread[t].pc = "feedback" /\ thread[t].win = win}

\* The losses of the streak that have reached the edge keep it up, but for wins
\* from before the streak that reached it late, one for each thread at most.
LossesCarry ==
    edge >= InitialEdge + (LossStep - Decay) * (losses - Cardinality(Pending(FALSE)))
            - (WinStep + Decay) * (Cardinality(Settlers) - Cardinality(Pending(TRUE)))

Follows ==
    /\ losses \in 0 .. LossThreshold /\ (active => losses = LossThreshold)
    /\ wins \in 0 .. MaxEdge - InitialEdge
    /\ \A t \in GateThreads : thread[t].pc = "feedback" => thread[t].win \in BOOLEAN
    /\ edge >= InitialEdge /\ LossesCarry /\ WinsEase
=============================================================================
