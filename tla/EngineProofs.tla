---------------------------- MODULE EngineProofs ----------------------------
(***************************************************************************)
(* Proofs about the components of MCEngine: EntryGate, for any threads,    *)
(* signals, crash points and parameters within EdgeAssumption; Scenarios,  *)
(* for any replayed scenario and any size of the filters within            *)
(* ScenAssumption; OnlineWindows, for any samples, points and capacities   *)
(* within OnlineAssumption; and FrameCodec, for any numbers, hashes and    *)
(* thresholds within CodecAssumption.                                      *)
(***************************************************************************)
EXTENDS EngineParts, TLAPS, FiniteSetTheorems, SequenceTheorems, WellFoundedInduction

(* What a thread that is about to decide holds.                            *)
SignalOK(s) ==
    /\ s.prob \in Probabilities /\ s.conf \in Confidences
    /\ s.edge \in MinEdge .. MaxEdge /\ s.seen \in 0 .. WarmMinSamples

StateOK ==
    /\ observed \in 0 .. WarmMinSamples
    /\ edge \in MinEdge .. MaxEdge
    /\ DOMAIN thread = GateThreads

(* The inductive invariant: the edge that a thread has read stays within   *)
(* bounds while the edge itself moves on, and what is registered was made  *)
(* with it.                                                                *)
IInv ==
    /\ StateOK
    /\ \A t \in GateThreads : thread[t].pc = "decide" => SignalOK(thread[t])
    /\ entries \subseteq Entries

\* A thread that settles is one of the threads.
LEMMA SettlersAre == \A t \in Settlers : t \in GateThreads
  BY EdgeAssumption

(* std::clamp returns a value between its bounds, whatever it is given.    *)
LEMMA ClampBounds == \A e \in Int : Clamp(e) \in MinEdge .. MaxEdge
  BY EdgeAssumption DEF Clamp, Least, Most

(* The step of an outcome and the pull are integers.                       *)
LEMMA StepsAreNumbers ==
    \A e \in MinEdge .. MaxEdge : \A w : Pull(e + StepOf(w)) \in Int
  BY EdgeAssumption DEF Pull, StepOf

\* The gate starts in its invariant, with every thread idle.
LEMMA InitIInv == GateInit => IInv
<1> SUFFICES ASSUME GateInit PROVE IInv
  OBVIOUS
<1>1. StateOK
  BY EdgeAssumption DEF GateInit, StateOK
<1>2. \A t \in GateThreads : thread[t].pc # "decide"
  BY DEF GateInit, Idle
<1>3. entries = {}
  BY DEF GateInit
<1> QED
  BY <1>1, <1>2, <1>3 DEF IInv

\* Each step of a thread keeps the invariant of the gate.
LEMMA StepIInv == IInv /\ [GateNext]_gateVars => IInv'
<1> SUFFICES ASSUME IInv, [GateNext]_gateVars PROVE IInv'
  OBVIOUS
<1> USE DEF IInv
<1>1. ASSUME NEW t \in GateThreads, ObserveEnd(t) PROVE IInv'
  <2>1. StateOK'
    BY <1>1, EdgeAssumption DEF ObserveEnd, StateOK
  <2>2. thread' = thread /\ entries' = entries
    BY <1>1 DEF ObserveEnd
  <2> QED
    BY <2>1, <2>2 DEF SignalOK
<1>2. ASSUME NEW t \in GateThreads, NEW p \in Probabilities, NEW c \in Confidences, ReadEdge(t, p, c)
      PROVE  IInv'
  <2>1. StateOK'
    BY <1>2 DEF ReadEdge, StateOK
  <2>2. \A u \in GateThreads : thread'[u].pc = "decide" => SignalOK(thread'[u])
    BY <1>2 DEF ReadEdge, StateOK, SignalOK
  <2>3. entries' = entries
    BY <1>2 DEF ReadEdge
  <2> QED
    BY <2>1, <2>2, <2>3 DEF SignalOK
<1>3. ASSUME NEW t \in GateThreads, Decide(t) PROVE IInv'
  <2>1. StateOK'
    BY <1>3 DEF Decide, StateOK
  <2>2. \A u \in GateThreads : thread'[u].pc = "decide" => SignalOK(thread'[u])
    BY <1>3 DEF Decide, StateOK, SignalOK, Idle
  <2>3. CASE Evaluate(thread[t]) # "Skip" /\ Legacy(thread[t])
    <3> DEFINE s == thread[t]
               e == [prob |-> s.prob, conf |-> s.conf, edge |-> s.edge, seen |-> s.seen,
                     action |-> Evaluate(s)]
    <3>1. entries' = entries \cup {e}
      BY <1>3, <2>3 DEF Decide
    <3>2. SignalOK(s)
      BY <1>3 DEF Decide
    <3>3. Evaluate(s) \in {"Skip", "Entry", "ReducedEntry"}
      BY DEF Evaluate
    <3>4. e \in Entries
      BY <3>2, <3>3 DEF SignalOK, Entries
    <3> HIDE DEF e
    <3> QED
      BY <2>1, <2>2, <3>1, <3>4 DEF SignalOK
  <2>4. CASE ~(Evaluate(thread[t]) # "Skip" /\ Legacy(thread[t]))
    <3>1. entries' = entries
      BY <1>3, <2>4 DEF Decide
    <3> QED
      BY <2>1, <2>2, <3>1 DEF SignalOK
  <2> QED
    BY <2>3, <2>4
<1>4. ASSUME NEW t \in Settlers, NEW e \in entries, NEW crash \in Crashes, NoteCooldown(t, e, crash)
      PROVE  IInv'
  <2>1. StateOK'
    BY <1>4 DEF NoteCooldown, StateOK
  <2>2. \A u \in GateThreads : thread'[u].pc = "decide" => SignalOK(thread'[u])
    BY <1>4 DEF NoteCooldown, StateOK, SignalOK
  <2>3. entries' \subseteq entries
    BY <1>4 DEF NoteCooldown
  <2> QED
    BY <2>1, <2>2, <2>3 DEF SignalOK
<1>5. ASSUME NEW t \in Settlers, NoteOutcome(t) PROVE IInv'
  <2>1. edge' \in MinEdge .. MaxEdge
    BY <1>5, ClampBounds, StepsAreNumbers DEF NoteOutcome, StateOK
  <2>2. StateOK'
    BY <1>5, <2>1 DEF NoteOutcome, StateOK
  <2>3. \A u \in GateThreads : thread'[u].pc = "decide" => SignalOK(thread'[u])
    BY <1>5 DEF NoteOutcome, StateOK, SignalOK, Idle
  <2>4. entries' = entries
    BY <1>5 DEF NoteOutcome
  <2> QED
    BY <2>2, <2>3, <2>4 DEF SignalOK
<1>6. CASE UNCHANGED gateVars
  BY <1>6 DEF gateVars, StateOK, SignalOK
<1> QED
  BY <1>1, <1>2, <1>3, <1>4, <1>5, <1>6 DEF GateNext

(* The inductive invariant holds in every behaviour of the gate.           *)
THEOREM GateInvariant == GateSpec => []IInv
  BY InitIInv, StepIInv, PTL DEF GateSpec

(* The adaptive edge stays between minEdge and maxEdge, and so does every  *)
(* edge that submit has read, whatever outcomes AdaptiveEdge::noteOutcome  *)
(* is told of in between.                                                  *)
THEOREM EdgeBounded == GateSpec => []EdgeInBounds
<1>1. IInv => EdgeInBounds
  BY DEF IInv, StateOK, SignalOK, EdgeInBounds
<1> QED
  BY GateInvariant, <1>1, PTL

-----------------------------------------------------------------------------
(* The edge follows the outcomes.                                          *)

(* What an outcome does to the edge.                                       *)
LEMMA EdgeMoves ==
    ASSUME Decay <= 1, InitialEdge <= StartEdge, NEW e \in MinEdge .. MaxEdge, e >= InitialEdge
    PROVE  /\ Clamp(Pull(e + StepOf(TRUE))) \in Int /\ Clamp(Pull(e + StepOf(FALSE))) \in Int
           /\ Clamp(Pull(e + StepOf(TRUE))) >= InitialEdge
           /\ Clamp(Pull(e + StepOf(TRUE))) >= e - (WinStep + Decay)
           /\ \/ Clamp(Pull(e + StepOf(TRUE))) <= InitialEdge
              \/ Clamp(Pull(e + StepOf(TRUE))) <= e - (WinStep + Decay)
           /\ Clamp(Pull(e + StepOf(FALSE))) >= InitialEdge
           /\ Clamp(Pull(e + StepOf(FALSE))) <= MaxEdge
           /\ \/ Clamp(Pull(e + StepOf(FALSE))) >= e + (LossStep - Decay)
              \/ Clamp(Pull(e + StepOf(FALSE))) = MaxEdge
<1>1. /\ InitialEdge \in Nat /\ MinEdge \in Nat /\ MaxEdge \in Nat /\ InitialEdge \in MinEdge .. MaxEdge
      /\ WinStep \in Nat /\ LossStep \in Nat /\ Decay \in Nat /\ WinStep <= Decay /\ Decay <= LossStep
  BY EdgeAssumption
<1> DEFINE x == Pull(e - WinStep)
           y == Pull(e + LossStep)
<1>2. StepOf(TRUE) = 0 - WinStep /\ StepOf(FALSE) = LossStep
  BY DEF StepOf
<1>3. e + (0 - WinStep) = e - WinStep
  BY <1>1
<1>4. /\ x \in Int /\ x >= InitialEdge /\ x >= e - (WinStep + Decay)
      /\ (x <= InitialEdge \/ x <= e - (WinStep + Decay)) /\ x <= MaxEdge
  BY <1>1 DEF Pull
<1>5. y \in Int /\ y >= InitialEdge /\ y >= e + (LossStep - Decay)
  BY <1>1 DEF Pull
<1>6. Clamp(Pull(e + StepOf(TRUE))) = Clamp(x) /\ Clamp(Pull(e + StepOf(FALSE))) = Clamp(y)
  BY <1>2, <1>3, Zenon
<1> HIDE DEF x, y
<1>7. Clamp(x) = x
  BY <1>1, <1>4 DEF Clamp, Least, Most
<1>8. Clamp(y) \in Int /\ Clamp(y) >= InitialEdge /\ Clamp(y) <= MaxEdge /\ (Clamp(y) = y \/ Clamp(y) = MaxEdge)
  BY <1>1, <1>5 DEF Clamp, Least, Most
<1> QED
  BY <1>1, <1>4, <1>5, <1>6, <1>7, <1>8, Zenon

(* The bound of LossesCarry with l losses, p and w threads on their way.   *)
CarryBound(l, p, w) ==
    InitialEdge + (LossStep - Decay) * (l - p) - (WinStep + Decay) * (Cardinality(Settlers) - w)

\* How the bound on the edge moves with the losses and the pending outcomes.
LEMMA BoundMoves ==
    ASSUME Calibrated, NEW l \in 0 .. LossThreshold, NEW p \in Nat, NEW w \in Nat, w <= Cardinality(Settlers)
    PROVE  /\ CarryBound(l, p, w) \in Int
           /\ CarryBound(0, p, w) <= InitialEdge
           /\ CarryBound(l + 1, p + 1, w) = CarryBound(l, p, w)
           /\ CarryBound(l, p + 1, w) = CarryBound(l, p, w) - (LossStep - Decay)
           /\ CarryBound(l, p, w + 1) = CarryBound(l, p, w) + (WinStep + Decay)
           /\ CarryBound(l, p, w) <= MaxEdge
           /\ InitialEdge < CarryBound(LossThreshold, 0, 0)
<1>0. /\ InitialEdge \in Nat /\ MaxEdge \in Nat /\ WinStep \in Nat /\ LossStep \in Nat /\ Decay \in Nat /\ LossThreshold \in Nat
      /\ Decay <= LossStep /\ Cardinality(Settlers) \in Nat
      /\ InitialEdge + (LossStep - Decay) * LossThreshold <= MaxEdge
      /\ (WinStep + Decay) * Cardinality(Settlers) < (LossStep - Decay) * LossThreshold
  BY EdgeAssumption, FS_CardinalityType DEF Calibrated
<1> DEFINE c == LossStep - Decay
           b == WinStep + Decay
           z == Cardinality(Settlers)
<1>1. c \in Nat /\ b \in Nat /\ z \in Nat
  BY <1>0
<1>2. \A k, p1, w1 : CarryBound(k, p1, w1) = InitialEdge + c * (k - p1) - b * (z - w1)
  BY DEF CarryBound
<1>3. InitialEdge + c * LossThreshold <= MaxEdge /\ b * z < c * LossThreshold
  BY <1>0
<1>4. l + 1 \in Int /\ l \in Int /\ l <= LossThreshold /\ w \in Int /\ p \in Int /\ z - w \in Nat
  BY <1>0
<1> HIDE DEF c, b, z
<1>5. c * (l - p) \in Int /\ b * (z - w) \in Nat
  <2>1. b * (z - w) \in Int /\ b * (z - w) >= 0
    BY <1>1, <1>4
  <2>2. c * (l - p) \in Int
    BY <1>1, <1>4
  <2> QED
    BY <2>1, <2>2
<1>6. CarryBound(l, p, w) \in Int
  BY <1>0, <1>2, <1>5
<1>7. CarryBound(0, p, w) <= InitialEdge
  <2>1. c * (0 - p) \in Int /\ c * (0 - p) <= 0
    BY <1>1, <1>4
  <2> QED
    BY <1>0, <1>2, <1>5, <2>1
<1>8. CarryBound(l + 1, p + 1, w) = CarryBound(l, p, w)
  <2>1. (l + 1) - (p + 1) = l - p
    BY <1>4
  <2> QED
    BY <1>2, <2>1
<1>9. CarryBound(l, p + 1, w) = CarryBound(l, p, w) - c
  <2>1. c * (l - (p + 1)) = c * (l - p) - c
    BY <1>1, <1>4
  <2> QED
    BY <1>0, <1>1, <1>2, <1>5, <2>1
<1>10. CarryBound(l, p, w + 1) = CarryBound(l, p, w) + b
  <2>1. b * (z - (w + 1)) = b * (z - w) - b
    BY <1>1, <1>4
  <2> QED
    BY <1>0, <1>1, <1>2, <1>5, <2>1
<1>11. CarryBound(l, p, w) <= MaxEdge
  <2>1. c * (l - p) <= c * LossThreshold /\ c * LossThreshold \in Int
    BY <1>0, <1>1, <1>4
  <2> QED
    BY <1>0, <1>2, <1>3, <1>5, <2>1
<1>12. InitialEdge < CarryBound(LossThreshold, 0, 0)
  <2>1. c * (LossThreshold - 0) = c * LossThreshold /\ b * (z - 0) = b * z
    BY <1>0, <1>1
  <2>2. c * LossThreshold \in Int /\ b * z \in Int
    BY <1>0, <1>1
  <2> QED
    BY <1>0, <1>2, <1>3, <2>1, <2>2
<1> QED
  BY <1>6, <1>7, <1>8, <1>9, <1>10, <1>11, <1>12 DEF c, b

\* The edge starts where the outcomes put it.
LEMMA FollowsInit == Calibrated /\ GateInit => Follows
<1> SUFFICES ASSUME Calibrated, GateInit PROVE Follows
  OBVIOUS
<1>0. /\ InitialEdge \in Nat /\ MinEdge \in Nat /\ MaxEdge \in Nat /\ InitialEdge <= MaxEdge /\ StartEdge \in Nat /\ StartEdge <= MaxEdge
      /\ WinStep \in Nat /\ LossStep \in Nat /\ Decay \in Nat /\ LossThreshold \in Nat
      /\ Cardinality(Settlers) \in Nat
  BY EdgeAssumption, FS_CardinalityType DEF Calibrated
<1>1. edge = StartEdge /\ losses = 0 /\ wins = 0 /\ active = FALSE /\ \A t \in GateThreads : thread[t].pc = "idle"
  BY DEF GateInit, Idle
<1>2. Pending(TRUE) = {} /\ Pending(FALSE) = {}
  BY <1>1, SettlersAre DEF Pending
<1>3. LossesCarry
  <2>1. Cardinality(Pending(TRUE)) = 0 /\ Cardinality(Pending(FALSE)) = 0
    BY <1>2, FS_EmptySet, Zenon
  <2>2. CarryBound(0, 0, 0) <= InitialEdge /\ CarryBound(0, 0, 0) \in Int
    BY <1>0, BoundMoves
  <2>3. edge >= CarryBound(0, 0, 0)
    BY <1>0, <1>1, <2>2 DEF Calibrated
  <2> QED
    BY <1>1, <2>1, <2>3, Zenon DEF LossesCarry, CarryBound
<1>4. WinsEase
  BY <1>0, <1>1 DEF WinsEase, Most
<1> QED
  BY <1>0, <1>1, <1>3, <1>4 DEF Follows, Calibrated

\* One thread more, or one less, on its way between the memories.
LEMMA PendingSize ==
    ASSUME Calibrated, NEW win \in BOOLEAN
    PROVE  IsFiniteSet(Pending(win)) /\ Cardinality(Pending(win)) \in Nat /\ Cardinality(Pending(win)) <= Cardinality(Settlers)
<1>1. Pending(win) \in SUBSET Settlers
  BY DEF Pending
<1> QED
  BY <1>1, FS_Subset, FS_CardinalityType DEF Calibrated

\* After a step, too, no more outcomes are pending than there are threads.
LEMMA PendingSizeNext ==
    ASSUME Calibrated, NEW win \in BOOLEAN
    PROVE  Cardinality(Pending(win)') \in Nat /\ Cardinality(Pending(win)') <= Cardinality(Settlers)
<1>1. Pending(win)' \in SUBSET Settlers
  BY DEF Pending
<1> QED
  BY <1>1, FS_Subset, FS_CardinalityType DEF Calibrated

\* A step that leaves the two memories and the threads between them.
LEMMA FollowsQuiet ==
    ASSUME Follows, UNCHANGED <<edge, losses, active, wins>>,
           Pending(TRUE)' = Pending(TRUE), Pending(FALSE)' = Pending(FALSE),
           \A t \in GateThreads : thread'[t].pc = "feedback" => thread'[t].win \in BOOLEAN
    PROVE  Follows'
<1>1. LossesCarry'
  BY Zenon DEF LossesCarry, Follows
<1>2. WinsEase'
  BY DEF WinsEase, Follows
<1> QED
  BY <1>1, <1>2 DEF Follows

\* A thread that is between the memories neither before nor after.
LEMMA PendingQuiet ==
    ASSUME IInv, Follows, NEW t \in GateThreads, NEW r, thread' = [thread EXCEPT ![t] = r],
           thread[t].pc # "feedback", r.pc # "feedback"
    PROVE  /\ Pending(TRUE)' = Pending(TRUE) /\ Pending(FALSE)' = Pending(FALSE)
           /\ \A u \in GateThreads : thread'[u].pc = "feedback" => thread'[u].win \in BOOLEAN
<1>1. DOMAIN thread = GateThreads
  BY DEF IInv, StateOK
<1>2. thread'[t] = r /\ \A u \in GateThreads : u # t => thread'[u] = thread[u]
  BY <1>1
<1>3. \A w : Pending(w)' = Pending(w)
  BY <1>2 DEF Pending
<1>4. \A u \in GateThreads : thread'[u].pc = "feedback" => u # t
  BY <1>2
<1>5. \A u \in GateThreads : thread'[u].pc = "feedback" => thread'[u].win \in BOOLEAN
  BY <1>2, <1>4 DEF Follows
<1> QED
  BY <1>3, <1>5, Zenon

\* A loss that the cooldown counts moves the bound as much as the edge may move.
LEMMA FollowsCooldown ==
    ASSUME Calibrated, IInv, Follows, NEW t \in Settlers, NEW e, NEW crash, NoteCooldown(t, e, crash)
    PROVE  Follows'
<1>0. /\ LossThreshold \in Nat /\ LossThreshold >= 1 /\ InitialEdge \in Nat /\ LossStep \in Nat /\ Decay \in Nat /\ Decay <= LossStep
      /\ edge \in Int /\ DOMAIN thread = GateThreads /\ losses \in 0 .. LossThreshold
  BY EdgeAssumption DEF IInv, StateOK, Follows
<1>1. PICK k \in BOOLEAN : k = IsWin(crash)
  <2>1. IsWin(crash) \in BOOLEAN
    BY DEF IsWin
  <2> QED
    BY <2>1, Zenon
<1>2. /\ thread[t].pc = "idle" /\ thread' = [thread EXCEPT ![t] = [pc |-> "feedback", win |-> k]]
      /\ edge' = edge /\ wins' = wins
      /\ losses' = IF k THEN 0 ELSE Least(losses + 1, LossThreshold)
  BY <1>1 DEF NoteCooldown
<1>3. active' => losses' = LossThreshold
  BY Zenon DEF NoteCooldown
<1>4. losses' \in 0 .. LossThreshold /\ (~k => losses' = losses \/ losses' = losses + 1)
  BY <1>0, <1>2 DEF Least
<1>5. thread'[t] = [pc |-> "feedback", win |-> k] /\ \A u \in GateThreads : u # t => thread'[u] = thread[u]
  BY <1>0, <1>2, SettlersAre
<1>6. thread'[t].pc = "feedback" /\ thread'[t].win = k
  BY <1>5
<1>7. \A u \in GateThreads : thread'[u].pc = "feedback" => thread'[u].win \in BOOLEAN
  BY <1>5, <1>6, Zenon DEF Follows
<1>8. /\ \A w \in BOOLEAN : w # k => Pending(w)' = Pending(w)
      /\ Pending(k)' = Pending(k) \cup {t} /\ t \notin Pending(k)
  BY <1>2, <1>5, <1>6, SettlersAre DEF Pending
<1>9. Cardinality(Pending(k)') = Cardinality(Pending(k)) + 1
  BY <1>8, PendingSize, FS_AddElement, Zenon
<1> DEFINE p == Cardinality(Pending(FALSE))
           w == Cardinality(Pending(TRUE))
<1>10. /\ p \in Nat /\ w \in Nat /\ w <= Cardinality(Settlers) /\ edge >= CarryBound(losses, p, w)
  BY PendingSize, Zenon DEF Follows, LossesCarry, CarryBound
<1>11. CASE k
  <2>1. k = TRUE
    BY <1>11
  <2>2. losses' = 0 /\ Cardinality(Pending(FALSE)') = p
    BY <1>2, <1>8, <2>1, Zenon
  <2>3. Cardinality(Pending(TRUE)') \in Nat /\ Cardinality(Pending(TRUE)') <= Cardinality(Settlers)
    BY PendingSizeNext, Zenon
  <2> HIDE DEF p, w
  <2> DEFINE v == Cardinality(Pending(TRUE)')
  <2>8. 0 \in 0 .. LossThreshold
    BY <1>0
  <2>9. v \in Nat /\ v <= Cardinality(Settlers)
    BY <2>3, Zenon
  <2> HIDE DEF v
  <2>4. CarryBound(0, p, v) <= InitialEdge /\ CarryBound(0, p, v) \in Int
    BY <1>10, <2>8, <2>9, BoundMoves
  <2>5. edge >= InitialEdge
    BY DEF Follows
  <2>6. edge' >= CarryBound(0, p, v)
    BY <1>0, <1>2, <2>4, <2>5
  <2>7. LossesCarry'
    BY <2>2, <2>6, Zenon DEF LossesCarry, CarryBound, v
  <2> QED
    BY <1>2, <1>3, <1>4, <1>7, <2>7 DEF Follows, WinsEase
<1>12. CASE ~k
  <2>1. k = FALSE
    BY <1>12
  <2>2. Cardinality(Pending(TRUE)') = w /\ Cardinality(Pending(FALSE)') = p + 1
    BY <1>8, <1>9, <2>1, Zenon
  <2> HIDE DEF p, w
  <2>3. /\ CarryBound(losses + 1, p + 1, w) = CarryBound(losses, p, w) /\ CarryBound(losses, p, w) \in Int
        /\ CarryBound(losses, p + 1, w) = CarryBound(losses, p, w) - (LossStep - Decay)
    BY <1>0, <1>10, BoundMoves
  <2>4. edge' >= CarryBound(losses', p + 1, w)
    BY <1>0, <1>2, <1>4, <1>10, <1>12, <2>3
  <2>5. LossesCarry'
    BY <2>2, <2>4, Zenon DEF LossesCarry, CarryBound
  <2> QED
    BY <1>2, <1>3, <1>4, <1>7, <2>5 DEF Follows, WinsEase
<1> QED
  BY <1>11, <1>12

\* An outcome that reaches the edge takes its share of the bound with it.
LEMMA FollowsOutcome ==
    ASSUME Calibrated, IInv, Follows, NEW t \in Settlers, NoteOutcome(t)
    PROVE  Follows'
<1>0. /\ LossThreshold \in Nat /\ InitialEdge \in Nat /\ MaxEdge \in Nat /\ LossStep \in Nat /\ Decay \in Nat /\ WinStep \in Nat
      /\ Decay <= LossStep /\ Decay <= 1 /\ InitialEdge <= StartEdge /\ InitialEdge <= MaxEdge
      /\ edge \in Int /\ edge \in MinEdge .. MaxEdge /\ edge >= InitialEdge
      /\ DOMAIN thread = GateThreads /\ losses \in 0 .. LossThreshold /\ wins \in 0 .. MaxEdge - InitialEdge
  BY EdgeAssumption DEF IInv, StateOK, Follows, Calibrated
<1>1. thread[t].pc = "feedback" /\ thread[t].win \in BOOLEAN
  BY SettlersAre DEF NoteOutcome, Follows
<1>2. PICK k \in BOOLEAN : k = thread[t].win
  BY <1>1
<1>3. /\ edge' = Clamp(Pull(edge + StepOf(k))) /\ wins' = IF k THEN Least(wins + 1, MaxEdge - InitialEdge) ELSE 0
      /\ thread' = [thread EXCEPT ![t] = Idle] /\ losses' = losses /\ active' = active
  BY <1>2 DEF NoteOutcome
<1>4. thread'[t].pc = "idle" /\ \A u \in GateThreads : u # t => thread'[u] = thread[u]
  BY <1>0, <1>3, SettlersAre DEF Idle
<1>5. \A u \in GateThreads : thread'[u].pc = "feedback" => thread'[u].win \in BOOLEAN
  <2>1. \A u \in GateThreads : thread'[u].pc = "feedback" => u # t
    BY <1>4
  <2> QED
    BY <1>4, <2>1 DEF Follows
<1>6. /\ \A w \in BOOLEAN : w # k => Pending(w)' = Pending(w)
      /\ Pending(k)' = Pending(k) \ {t} /\ t \in Pending(k)
  BY <1>1, <1>2, <1>4, SettlersAre DEF Pending
<1>7. Cardinality(Pending(k)') = Cardinality(Pending(k)) - 1
  BY <1>6, PendingSize, FS_RemoveElement, Zenon
<1> DEFINE p == Cardinality(Pending(FALSE))
           w == Cardinality(Pending(TRUE))
           q == Cardinality(Pending(FALSE)')
           v == Cardinality(Pending(TRUE)')
<1>8. /\ p \in Nat /\ w \in Nat /\ w <= Cardinality(Settlers) /\ edge >= CarryBound(losses, p, w)
  BY PendingSize, Zenon DEF Follows, LossesCarry, CarryBound
<1>9. q \in Nat /\ v \in Nat /\ v <= Cardinality(Settlers)
  BY PendingSizeNext, Zenon
<1>10. CASE k
  <2>1. k = TRUE
    BY <1>10
  <2>0. Pending(FALSE)' = Pending(FALSE) /\ Cardinality(Pending(TRUE)') = Cardinality(Pending(TRUE)) - 1
    BY <1>6, <1>7, <2>1, Zenon
  <2>9. q = p /\ v = w - 1
    BY <2>0, Zenon
  <2>3. /\ edge' \in Int /\ edge' >= InitialEdge /\ edge' >= edge - (WinStep + Decay)
        /\ (edge' <= InitialEdge \/ edge' <= edge - (WinStep + Decay))
    BY <1>0, <1>3, <2>1, EdgeMoves, Zenon
  <2> HIDE DEF p, w, q, v
  <2>2. q = p /\ w = v + 1
    BY <1>8, <2>9
  <2>4. CarryBound(losses, q, v + 1) = CarryBound(losses, q, v) + (WinStep + Decay) /\ CarryBound(losses, q, v) \in Int
    BY <1>0, <1>9, BoundMoves
  <2>5. edge' >= CarryBound(losses', q, v)
    BY <1>0, <1>3, <1>8, <2>2, <2>3, <2>4
  <2>6. LossesCarry'
    BY <2>5, Zenon DEF LossesCarry, CarryBound, q, v
  <2>7. wins' \in 0 .. MaxEdge - InitialEdge /\ (wins' = wins \/ wins' = wins + 1)
    BY <1>0, <1>3, <2>1 DEF Least
  <2>8. WinsEase'
    <3> DEFINE b == WinStep + Decay
    <3>1. edge <= Most(InitialEdge, MaxEdge - wins * b + Decay)
      BY DEF Follows, WinsEase
    <3>2. b \in Nat /\ wins \in Nat
      BY <1>0
    <3>3. edge' <= InitialEdge \/ edge' <= edge - b
      BY <2>3
    <3> HIDE DEF b
    <3>4. wins * b \in Int /\ (wins + 1) * b = wins * b + b
      BY <3>2
    <3>5. wins' * b \in Int /\ wins' * b <= wins * b + b
      <4>1. CASE wins' = wins
        BY <3>2, <3>4, <4>1
      <4>2. CASE wins' = wins + 1
        BY <3>2, <3>4, <4>2
      <4> QED
        BY <2>7, <4>1, <4>2
    <3>6. edge' <= Most(InitialEdge, MaxEdge - wins' * b + Decay)
      BY <1>0, <2>3, <3>1, <3>2, <3>3, <3>4, <3>5 DEF Most
    <3> QED
      BY <3>6 DEF WinsEase, b
  <2> QED
    BY <1>0, <1>3, <1>5, <2>3, <2>6, <2>7, <2>8 DEF Follows
<1>11. CASE ~k
  <2>1. k = FALSE
    BY <1>11
  <2>0. Pending(TRUE)' = Pending(TRUE) /\ Cardinality(Pending(FALSE)') = Cardinality(Pending(FALSE)) - 1
    BY <1>6, <1>7, <2>1, Zenon
  <2>9. v = w /\ q = p - 1
    BY <2>0, Zenon
  <2>3. /\ edge' \in Int /\ edge' >= InitialEdge /\ edge' <= MaxEdge
        /\ (edge' >= edge + (LossStep - Decay) \/ edge' = MaxEdge)
    BY <1>0, <1>3, <2>1, EdgeMoves, Zenon
  <2> HIDE DEF p, w, q, v
  <2>2. v = w /\ p = q + 1
    BY <1>8, <2>9
  <2>4. /\ CarryBound(losses, q + 1, v) = CarryBound(losses, q, v) - (LossStep - Decay) /\ CarryBound(losses, q, v) \in Int
        /\ CarryBound(losses, q, v) <= MaxEdge
    BY <1>0, <1>9, BoundMoves
  <2>5. edge' >= CarryBound(losses', q, v)
    BY <1>0, <1>3, <1>8, <2>2, <2>3, <2>4
  <2>6. LossesCarry'
    BY <2>5, Zenon DEF LossesCarry, CarryBound, q, v
  <2>7. wins' = 0
    BY <1>3, <2>1
  <2>8. WinsEase'
    BY <1>0, <2>3, <2>7 DEF WinsEase, Most
  <2> QED
    BY <1>0, <1>3, <1>5, <2>3, <2>6, <2>7, <2>8 DEF Follows
<1> QED
  BY <1>10, <1>11

\* Each step of a thread keeps the edge above its bound.
LEMMA FollowsStep == Calibrated /\ IInv /\ Follows /\ [GateNext]_gateVars => Follows'
<1> SUFFICES ASSUME Calibrated, IInv, Follows, [GateNext]_gateVars PROVE Follows'
  OBVIOUS
<1>1. ASSUME NEW t \in GateThreads, ObserveEnd(t) PROVE Follows'
  BY <1>1, FollowsQuiet DEF ObserveEnd, Pending, Follows
<1>2. ASSUME NEW t \in GateThreads, NEW p \in Probabilities, NEW c \in Confidences, ReadEdge(t, p, c) PROVE Follows'
  <2>1. UNCHANGED <<edge, losses, active, wins>>
    BY <1>2 DEF ReadEdge
  <2>2. /\ thread[t].pc # "feedback" 
        /\ thread' = [thread EXCEPT ![t] = [pc |-> "decide", prob |-> p, conf |-> c, edge |-> edge, seen |-> observed]]
    BY <1>2 DEF ReadEdge
  <2>3. [pc |-> "decide", prob |-> p, conf |-> c, edge |-> edge, seen |-> observed].pc # "feedback"
    OBVIOUS
  <2> QED
    BY <2>1, <2>2, <2>3, PendingQuiet, FollowsQuiet, Zenon
<1>3. ASSUME NEW t \in GateThreads, Decide(t) PROVE Follows'
  <2>1. UNCHANGED <<edge, losses, active, wins>> /\ thread[t].pc # "feedback" /\ thread' = [thread EXCEPT ![t] = Idle]
    BY <1>3 DEF Decide
  <2>2. Idle.pc # "feedback"
    BY DEF Idle
  <2> QED
    BY <2>1, <2>2, PendingQuiet, FollowsQuiet, Zenon
<1>4. CASE UNCHANGED gateVars
  BY <1>4, FollowsQuiet DEF gateVars, Pending, Follows
<1> QED
  BY <1>1, <1>2, <1>3, <1>4, FollowsCooldown, FollowsOutcome DEF GateNext

(* Wins in a row bring the edge back towards the initial one, and after    *)
(* LossThreshold losses in a row it is above it as soon as no outcome is   *)
(* on its way, although threads tell LossCooldownTracker and               *)
(* AdaptiveEdge of their outcomes in orders of their own.                  *)
THEOREM EdgeFollowsOutcomes == Calibrated => (GateSpec => []EdgeFollows)
<1> SUFFICES ASSUME Calibrated PROVE GateSpec => []EdgeFollows
  OBVIOUS
<1>1. IInv /\ Follows => EdgeFollows
  <2> SUFFICES ASSUME IInv, Follows, active, \A t \in GateThreads : thread[t].pc # "feedback"
               PROVE  edge > InitialEdge
    BY DEF EdgeFollows, CooldownMeansTight, Follows
  <2>1. Pending(TRUE) = {} /\ Pending(FALSE) = {}
    BY SettlersAre DEF Pending
  <2>2. Cardinality(Pending(TRUE)) = 0 /\ Cardinality(Pending(FALSE)) = 0
    BY <2>1, FS_EmptySet, Zenon
  <2>3. losses = LossThreshold /\ edge >= CarryBound(LossThreshold, 0, 0)
    BY <2>2, Zenon DEF Follows, LossesCarry, CarryBound
  <2>4. Cardinality(Settlers) \in Nat /\ LossThreshold \in 0 .. LossThreshold
    BY EdgeAssumption, FS_CardinalityType DEF Calibrated
  <2>5. InitialEdge < CarryBound(LossThreshold, 0, 0) /\ CarryBound(LossThreshold, 0, 0) \in Int
    BY <2>4, BoundMoves
  <2>6. edge \in Int /\ InitialEdge \in Int
    BY EdgeAssumption DEF IInv, StateOK
  <2> QED
    BY <2>3, <2>5, <2>6
<1>2. GateInit => Follows
  BY FollowsInit
<1>3. IInv /\ Follows /\ [GateNext]_gateVars => Follows'
  BY FollowsStep
<1> QED
  BY <1>1, <1>2, <1>3, GateInvariant, PTL DEF GateSpec
-----------------------------------------------------------------------------
(***************************************************************************)
(* The replay of scenarios: lemmas on the sequences of the filters.        *)
(***************************************************************************)
\* The elements of a sequence with one more at its end.
LEMMA InAppended ==
    ASSUME NEW S, NEW s \in Seq(S), NEW x \in S
    PROVE  Scen!ToSet(Append(s, x)) = Scen!ToSet(s) \cup {x}
<1>1. /\ Append(s, x) \in Seq(S) /\ Len(Append(s, x)) = Len(s) + 1
      /\ \A i \in 1 .. Len(s) : Append(s, x)[i] = s[i]
      /\ Append(s, x)[Len(s) + 1] = x
  BY AppendProperties
<1>2. DOMAIN s = 1 .. Len(s) /\ DOMAIN Append(s, x) = 1 .. Len(s) + 1 /\ Len(s) \in Nat
  BY <1>1, LenProperties
<1>3. ASSUME NEW y \in Scen!ToSet(Append(s, x)) PROVE y \in Scen!ToSet(s) \cup {x}
  <2>1. PICK i \in 1 .. Len(s) + 1 : y = Append(s, x)[i]
    BY <1>2, <1>3 DEF Scen!ToSet
  <2>2. i \in 1 .. Len(s) \/ i = Len(s) + 1
    BY <1>2
  <2> QED BY <1>1, <1>2, <2>1, <2>2 DEF Scen!ToSet
<1>4. ASSUME NEW y \in Scen!ToSet(s) PROVE y \in Scen!ToSet(Append(s, x))
  <2>1. PICK i \in 1 .. Len(s) : y = s[i]
    BY <1>2, <1>4 DEF Scen!ToSet
  <2>2. i \in 1 .. Len(s) + 1
    BY <1>2
  <2> QED BY <1>1, <1>2, <2>1, <2>2 DEF Scen!ToSet
<1>5. x \in Scen!ToSet(Append(s, x))
  <2>1. Len(s) + 1 \in 1 .. Len(s) + 1
    BY <1>2
  <2> QED BY <1>1, <1>2, <2>1 DEF Scen!ToSet
<1> QED BY <1>3, <1>4, <1>5

\* The tail of a sequence has no element of its own.
LEMMA InTail ==
    ASSUME NEW S, NEW s \in Seq(S), s # <<>>
    PROVE  Tail(s) \in Seq(S) /\ Scen!ToSet(Tail(s)) \subseteq Scen!ToSet(s)
<1>1. /\ Tail(s) \in Seq(S) /\ Len(Tail(s)) = Len(s) - 1 /\ Len(s) \in Nat
      /\ \A i \in 1 .. Len(Tail(s)) : Tail(s)[i] = s[i + 1]
  BY HeadTailProperties, LenProperties
<1>2. DOMAIN s = 1 .. Len(s) /\ DOMAIN Tail(s) = 1 .. Len(s) - 1
  BY <1>1, LenProperties
<1>3. ASSUME NEW y \in Scen!ToSet(Tail(s)) PROVE y \in Scen!ToSet(s)
  <2>1. PICK i \in 1 .. Len(s) - 1 : y = Tail(s)[i]
    BY <1>2, <1>3 DEF Scen!ToSet
  <2>2. i + 1 \in 1 .. Len(s) /\ y = s[i + 1]
    BY <1>1, <2>1
  <2> QED BY <1>2, <2>2 DEF Scen!ToSet
<1> QED BY <1>1, <1>3

\* The newest entry is kept, and nothing else is added.
LEMMA RememberKeeps ==
    ASSUME NEW S, NEW s \in Seq(S), NEW x \in S, NEW cap \in Nat \ {0}
    PROVE  /\ Scen!Remember(s, x, cap) \in Seq(S)
           /\ x \in Scen!ToSet(Scen!Remember(s, x, cap))
           /\ Scen!ToSet(Scen!Remember(s, x, cap)) \subseteq Scen!ToSet(s) \cup {x}
<1> DEFINE g == Append(s, x)
<1>1. /\ g \in Seq(S) /\ Len(g) = Len(s) + 1 /\ g[Len(s) + 1] = x /\ Len(s) \in Nat
      /\ Scen!ToSet(g) = Scen!ToSet(s) \cup {x}
  BY AppendProperties, LenProperties, InAppended
<1> HIDE DEF g
<1>2. CASE ~(Len(g) > cap)
  BY <1>1, <1>2 DEF Scen!Remember, g
<1>3. CASE Len(g) > cap
  <2>1. Scen!Remember(s, x, cap) = Tail(g)
    BY <1>3 DEF Scen!Remember, g
  <2>2. g # <<>> /\ Len(s) >= 1
    BY <1>1, <1>3
  <2>3. Tail(g) \in Seq(S) /\ Scen!ToSet(Tail(g)) \subseteq Scen!ToSet(g)
    BY <1>1, <2>2, InTail
  <2>4. /\ Len(Tail(g)) = Len(s) /\ \A i \in 1 .. Len(Tail(g)) : Tail(g)[i] = g[i + 1]
    BY <1>1, <2>2, HeadTailProperties
  <2>5. Tail(g)[Len(s)] = x /\ Len(s) \in DOMAIN Tail(g)
    BY <1>1, <2>2, <2>3, <2>4, LenProperties
  <2>6. x \in Scen!ToSet(Tail(g))
    BY <2>5 DEF Scen!ToSet
  <2> QED BY <1>1, <2>1, <2>3, <2>6
<1> QED BY <1>2, <1>3

\* A known key moves to the end.
LEMMA RefreshedKeeps ==
    ASSUME NEW S, NEW s \in Seq(S), NEW x \in Scen!ToSet(s)
    PROVE  /\ Scen!Refreshed(s, x) \in Seq(S)
           /\ x \in Scen!ToSet(Scen!Refreshed(s, x))
           /\ Scen!ToSet(Scen!Refreshed(s, x)) \subseteq Scen!ToSet(s) \cup {x}
<1> DEFINE i == CHOOSE j \in DOMAIN s : s[j] = x
           m == Len(s)
           a == SubSeq(s, 1, i - 1)
           b == SubSeq(s, i + 1, m)
<1>1. /\ m \in Nat /\ DOMAIN s = 1 .. m /\ \A j \in 1 .. m : s[j] \in S
      /\ i \in 1 .. m /\ s[i] = x
  BY LenProperties, ElementOfSeq DEF Scen!ToSet
<1> HIDE DEF i
<1>2. /\ a \in Seq(S) /\ Len(a) = i - 1 /\ \A j \in 1 .. Len(a) : a[j] = s[j]
  BY <1>1, SubSeqProperties
<1>3. /\ b \in Seq(S) /\ Len(b) = m - i /\ \A j \in 1 .. Len(b) : b[j] = s[i + j]
  <2>1. \A j \in i + 1 .. m : s[j] \in S
    BY <1>1
  <2>2. /\ b \in Seq(S) /\ Len(b) = IF i + 1 <= m THEN m - (i + 1) + 1 ELSE 0
        /\ \A j \in 1 .. m - (i + 1) + 1 : b[j] = s[(i + 1) + j - 1]
    BY <1>1, SubSeqProperties
  <2>3. i \in Int /\ m \in Int /\ i <= m
    BY <1>1
  <2> HIDE DEF b, m
  <2>4. Len(b) = m - i /\ m - (i + 1) + 1 = m - i
    BY <2>2, <2>3
  <2>5. ASSUME NEW j \in 1 .. Len(b) PROVE b[j] = s[i + j]
    <3>1. j \in 1 .. m - (i + 1) + 1 /\ (i + 1) + j - 1 = i + j
      BY <2>3, <2>4
    <3>2. b[j] = s[(i + 1) + j - 1]
      BY <2>2, <3>1
    <3> QED BY <3>1, <3>2
  <2> QED BY <2>2, <2>4, <2>5
<1> DEFINE c == a \o b
<1> HIDE DEF a, b
<1>4. /\ c \in Seq(S) /\ Len(c) = Len(a) + Len(b) /\ Len(a) \in Nat /\ Len(b) \in Nat
      /\ \A j \in 1 .. Len(a) + Len(b) : c[j] = IF j <= Len(a) THEN a[j] ELSE b[j - Len(a)]
  BY <1>2, <1>3, ConcatProperties, LenProperties, Zenon
<1>5. \A j \in 1 .. Len(c) : \E k \in 1 .. m : c[j] = s[k]
  <2> SUFFICES ASSUME NEW j \in 1 .. Len(c) PROVE \E k \in 1 .. m : c[j] = s[k]
    OBVIOUS
  <2>1. CASE j <= Len(a)
    <3>1. c[j] = s[j] /\ j \in 1 .. m
      BY <1>1, <1>2, <1>4, <2>1
    <3> QED BY <3>1
  <2>2. CASE ~(j <= Len(a))
    <3>1. j - Len(a) \in 1 .. Len(b) /\ c[j] = b[j - Len(a)]
      BY <1>4, <2>2
    <3>2. c[j] = s[i + (j - Len(a))] /\ i + (j - Len(a)) \in 1 .. m
      BY <1>1, <1>2, <1>3, <1>4, <3>1
    <3> QED BY <3>2
  <2> QED BY <2>1, <2>2
<1>6. Scen!ToSet(c) \subseteq Scen!ToSet(s)
  <2> HIDE DEF c
  <2> SUFFICES ASSUME NEW y \in Scen!ToSet(c) PROVE y \in Scen!ToSet(s)
    OBVIOUS
  <2>1. PICK j \in 1 .. Len(c) : y = c[j]
    BY <1>4, LenProperties DEF Scen!ToSet
  <2>2. PICK k \in 1 .. m : y = s[k]
    BY <1>5, <2>1
  <2> QED BY <1>1, <2>2 DEF Scen!ToSet
<1>7. Scen!Refreshed(s, x) = Append(c, x)
  BY DEF Scen!Refreshed, Scen!RemoveAt, a, b, i
<1> HIDE DEF c
<1>8. x \in S
  BY <1>1
<1>9. Append(c, x) \in Seq(S) /\ Scen!ToSet(Append(c, x)) = Scen!ToSet(c) \cup {x}
  BY <1>4, <1>8, InAppended, AppendProperties
<1> QED BY <1>6, <1>7, <1>9
\* Cardinality is the same by either name.
LEMMA ScenCard == \A S : Scen!Cardinality(S) = Cardinality(S)
  BY DEF Scen!Cardinality, Cardinality

\* No round is in an empty queue, and one round is in a queue of one.
LEMMA CountOne ==
    /\ \A r : Scen!Count(<<>>, r) = 0
    /\ \A x, r : Scen!Count(<<x>>, r) = IF x = r THEN 1 ELSE 0
<1>1. ASSUME NEW r PROVE Scen!Count(<<>>, r) = 0
  <2>1. {i \in DOMAIN <<>> : <<>>[i] = r} = {}
    OBVIOUS
  <2> QED BY <2>1, ScenCard, FS_EmptySet DEF Scen!Count
<1>2. ASSUME NEW x, NEW r PROVE Scen!Count(<<x>>, r) = IF x = r THEN 1 ELSE 0
  <2>1. {i \in DOMAIN <<x>> : <<x>>[i] = r} = IF x = r THEN {1} ELSE {}
    OBVIOUS
  <2>2. Cardinality({1}) = 1 /\ Cardinality({}) = 0
    BY FS_EmptySet, FS_Singleton, Zenon
  <2> QED BY <2>1, <2>2, ScenCard DEF Scen!Count
<1> QED BY <1>1, <1>2

\* A sequence with elements of a set has them in a larger one.
LEMMA WiderSeq ==
    ASSUME NEW S, NEW s \in Seq(S), NEW x PROVE s \in Seq(S \cup {x})
  BY LenProperties, ElementOfSeq, SeqDef

\* A key that is not too old is still there, one place older, when the filter
\* has stored another one.
LEMMA RememberAges ==
    ASSUME NEW S, NEW s \in Seq(S), NEW x \in S, NEW cap \in Nat, NEW i \in 1 .. Len(s),
           Len(s) <= cap, Len(s) - i < cap - 1
    PROVE  LET new == Scen!Remember(s, x, cap) IN
           /\ Len(new) <= cap
           /\ \E j \in 1 .. Len(new) : new[j] = s[i] /\ Len(new) - j = Len(s) - i + 1
<1> DEFINE g == Append(s, x)
<1>1. /\ g \in Seq(S) /\ Len(g) = Len(s) + 1 /\ Len(s) \in Nat
      /\ g[i] = s[i] /\ i \in 1 .. Len(g)
  BY AppendProperties, LenProperties
<1> HIDE DEF g
<1>2. CASE ~(Len(g) > cap)
  <2>1. Scen!Remember(s, x, cap) = g
    BY <1>2 DEF Scen!Remember, g
  <2>2. Len(g) - i = Len(s) - i + 1 /\ Len(g) <= cap
    BY <1>1, <1>2
  <2> QED BY <1>1, <2>1, <2>2
<1>3. CASE Len(g) > cap
  <2>1. Scen!Remember(s, x, cap) = Tail(g)
    BY <1>3 DEF Scen!Remember, g
  <2>2. g # <<>>
    BY <1>1
  <2>3. /\ Len(Tail(g)) = Len(s) /\ \A k \in 1 .. Len(Tail(g)) : Tail(g)[k] = g[k + 1]
    BY <1>1, <2>2, HeadTailProperties
  <2>4. i - 1 \in 1 .. Len(s) /\ (i - 1) + 1 = i
    BY <1>1, <1>3
  <2>5. Tail(g)[i - 1] = s[i] /\ Len(s) - (i - 1) = Len(s) - i + 1
    BY <1>1, <2>3, <2>4
  <2> QED BY <1>1, <2>1, <2>3, <2>4, <2>5, Zenon
<1> QED BY <1>2, <1>3

\* The newest key.
LEMMA RememberLast ==
    ASSUME NEW S, NEW s \in Seq(S), NEW x \in S, NEW cap \in Nat \ {0}, Len(s) <= cap
    PROVE  LET new == Scen!Remember(s, x, cap) IN
           Len(new) <= cap /\ Len(new) \in Nat \ {0} /\ new[Len(new)] = x
<1> DEFINE g == Append(s, x)
<1>1. /\ g \in Seq(S) /\ Len(g) = Len(s) + 1 /\ Len(s) \in Nat
      /\ g[Len(s) + 1] = x
  BY AppendProperties, LenProperties
<1> HIDE DEF g
<1>2. CASE ~(Len(g) > cap)
  <2>1. Scen!Remember(s, x, cap) = g
    BY <1>2 DEF Scen!Remember, g
  <2> QED BY <1>1, <1>2, <2>1
<1>3. CASE Len(g) > cap
  <2>1. Scen!Remember(s, x, cap) = Tail(g)
    BY <1>3 DEF Scen!Remember, g
  <2>2. g # <<>>
    BY <1>1
  <2>3. /\ Len(Tail(g)) = Len(s) /\ \A k \in 1 .. Len(Tail(g)) : Tail(g)[k] = g[k + 1]
    BY <1>1, <2>2, HeadTailProperties
  <2>4. Len(s) \in 1 .. Len(s)
    BY <1>1, <1>3
  <2> QED BY <1>1, <1>3, <2>1, <2>3, <2>4
<1> QED BY <1>2, <1>3

-----------------------------------------------------------------------------
(***************************************************************************)
(* A scenario is its start, at most twelve progress frames and its end.    *)
(***************************************************************************)

\* What the p-th of t + 2 frames of scenario id is.
FrameAt(e, p, t, id) ==
    IF p = 1 \/ p = t + 2 THEN e.kind = "End" /\ e.id = id /\ e.elapsed = 0 /\ (p = 1 => e.mult = 100)
    ELSE e.kind = "Progress" /\ e.id = 0

\* A scenario is a start, its progress frames and an end, in this order.
LEMMA ScenFrameKinds ==
    ASSUME NEW k, Scen!Ticks(k) \in Nat
    PROVE  /\ \E S : Scen!Steps(k) \in Seq(S)
           /\ Len(Scen!Steps(k)) = Scen!Ticks(k) + 2
           /\ \A p \in 1 .. Scen!Ticks(k) + 2 : FrameAt(Scen!Steps(k)[p], p, Scen!Ticks(k), k)
<1> DEFINE t == Scen!Ticks(k)
           a == Scen!StepStart(k)
           g(i) == Scen!StepProgress((Scen!ElapsedFromMultiplier(Scen!Multiplier(k)) * i) \div t)
           mid == [i \in 1 .. t |-> g(i)]
           b == Scen!StepEnd(k, Scen!Multiplier(k))
           S == {a, b} \cup {g(i) : i \in 1 .. t}
           s == <<a>> \o mid \o <<b>>
<1>1. Scen!Steps(k) = s
  BY DEF Scen!Steps, Scen!MakeRoundScenario
<1>2. /\ a.kind = "End" /\ a.id = k /\ a.elapsed = 0 /\ a.mult = 100
      /\ b.kind = "End" /\ b.id = k /\ b.elapsed = 0
      /\ \A i : g(i).kind = "Progress" /\ g(i).id = 0
  BY DEF Scen!StepStart, Scen!StepEnd, Scen!StepProgress
<1>3. a \in S /\ b \in S /\ \A i \in 1 .. t : g(i) \in S
  OBVIOUS
<1>4. t \in Nat
  OBVIOUS
<1> HIDE DEF a, g, b, S, t
<1>5. /\ mid \in Seq(S) /\ Len(mid) = t /\ <<a>> \in Seq(S) /\ <<b>> \in Seq(S)
  BY <1>3, <1>4
<1>5a. \A i \in 1 .. t : mid[i] = g(i)
  OBVIOUS
<1> HIDE DEF mid
<1> DEFINE l == <<a>> \o mid
<1>6. /\ l \in Seq(S) /\ Len(l) = t + 1 /\ l[1] = a /\ \A i \in 2 .. t + 1 : l[i] = mid[i - 1]
  BY <1>4, <1>5
<1> HIDE DEF l
<1>7. /\ s \in Seq(S) /\ Len(s) = t + 2 /\ \A i \in 1 .. t + 1 : s[i] = l[i]
      /\ s[t + 2] = b
  BY <1>4, <1>5, <1>6 DEF l
<1> HIDE DEF s
<1>8. ASSUME NEW p \in 1 .. t + 2 PROVE FrameAt(s[p], p, t, k)
  <2>1. CASE p = 1
    BY <1>2, <1>4, <1>6, <1>7, <2>1 DEF FrameAt
  <2>2. CASE p = t + 2
    BY <1>2, <1>4, <1>7, <2>2 DEF FrameAt
  <2>3. CASE p # 1 /\ p # t + 2
    <3>1. p \in 2 .. t + 1 /\ p - 1 \in 1 .. t /\ p \in 1 .. t + 1
      BY <1>4, <2>3
    <3>2. s[p] = g(p - 1)
      BY <1>5a, <1>6, <1>7, <3>1
    <3> QED BY <1>2, <2>3, <3>2 DEF FrameAt
  <2> QED BY <2>1, <2>2, <2>3
<1> QED BY <1>1, <1>7, <1>8 DEF t
-----------------------------------------------------------------------------
(***************************************************************************)
(* The inductive invariant of the replay.  Until its first frame is        *)
(* processed a scenario is unknown to both filters, and from then on it is *)
(* settled and known to the router; the key of its first End is still in   *)
(* the DuplicateFilter, no deeper than the frames since, when the second   *)
(* End arrives.                                                            *)
(***************************************************************************)
Begun == Len(steps) < Scen!Ticks(slot) + 2
Ended == IF Begun THEN slot ELSE slot - 1

ReplayTypeOK ==
    /\ scenMode = "engine" /\ scenToValidation = <<>>
    /\ scenSettled \in [1 .. Batch -> Nat] /\ scenValues \in Seq(Nat)
    /\ \E S : scenDupes \in Seq(S) /\ Len(scenDupes) <= ScenDupCap
    /\ \E S : scenKeys \in Seq(S)

InTable == slot \in 1 .. Batch

StepsLeft ==
    LET t == Scen!Ticks(slot) IN
    /\ \E S : steps \in Seq(S)
    /\ Len(steps) <= t + 2
    /\ \A j \in 1 .. Len(steps) : FrameAt(steps[j], j + (t + 2 - Len(steps)), t, slot)

Counted ==
    /\ Len(scenValues) = Ended /\ \A i \in 1 .. Ended : scenValues[i] = 100
    /\ \A r \in 1 .. Batch : scenSettled[r] = IF r <= Ended THEN 1 ELSE 0

Unseen ==
    \A r \in 1 .. Batch : r > Ended =>
        <<r, "End">> \notin Scen!ToSet(scenKeys) /\ <<r, "End", 0>> \notin Scen!ToSet(scenDupes)

StillKnown ==
    Begun =>
        /\ <<slot, "End">> \in Scen!ToSet(scenKeys)
        /\ \E i \in 1 .. Len(scenDupes) :
              /\ scenDupes[i] = <<slot, "End", 0>>
              /\ Len(scenDupes) - i <= Scen!Ticks(slot) + 1 - Len(steps)

ReplayInv == ReplayTypeOK /\ InTable /\ StepsLeft /\ Counted /\ Unseen /\ StillKnown

\* The scenario at hand has at most twelve progress frames.
LEMMA TicksHere == InTable => Scen!Ticks(slot) \in 0 .. 12 /\ slot \in Nat \ {0}
<1> SUFFICES ASSUME InTable PROVE Scen!Ticks(slot) \in 0 .. 12 /\ slot \in Nat \ {0}
  OBVIOUS
<1>1. slot \in 1 .. Batch /\ Batch \in Nat
  BY ScenAssumption DEF InTable
<1>2. slot % 7 \in 0 .. 6
  BY <1>1
<1> QED BY <1>1, <1>2 DEF Scen!Ticks

\* What the frames of a scenario are, before the first one is processed.
LEMMA StepsFresh ==
    ASSUME InTable, steps = Scen!Steps(slot)
    PROVE  StepsLeft /\ ~Begun
<1> DEFINE t == Scen!Ticks(slot)
<1>1. t \in Nat
  BY TicksHere
<1>2. /\ \E S : steps \in Seq(S)
      /\ Len(steps) = t + 2
      /\ \A p \in 1 .. t + 2 : FrameAt(steps[p], p, t, slot)
  BY <1>1, ScenFrameKinds
<1> HIDE DEF t
<1>3. \A j \in 1 .. Len(steps) : j + (t + 2 - Len(steps)) = j
  BY <1>1, <1>2
<1>4. \A j \in 1 .. Len(steps) : FrameAt(steps[j], j + (t + 2 - Len(steps)), t, slot)
  BY <1>2, <1>3
<1>5. Len(steps) <= t + 2 /\ ~(Len(steps) < t + 2)
  BY <1>1, <1>2
<1> QED BY <1>2, <1>4, <1>5 DEF StepsLeft, Begun, t

\* A replay starts in its invariant.
LEMMA ReplayInitInv == Scen!ReplayInit => ReplayInv
<1> SUFFICES ASSUME Scen!ReplayInit PROVE ReplayInv
  OBVIOUS
<1> USE DEF Scen!ReplayInit, Scen!Init
<1>0. Batch \in Nat \ {0} /\ ScenDupCap \in Nat
  BY ScenAssumption
<1>1. InTable
  BY <1>0 DEF InTable
<1>2. StepsLeft /\ ~Begun
  BY <1>1, StepsFresh
<1>3. Ended = 0
  BY <1>2 DEF Ended
<1>4. ReplayTypeOK
  <2>1. <<>> \in Seq({}) /\ Len(<<>>) = 0 /\ <<>> \in Seq(Nat)
    OBVIOUS
  <2>2. scenSettled \in [1 .. Batch -> Nat]
    OBVIOUS
  <2>3. scenMode = "engine" /\ scenToValidation = <<>> /\ scenDupes = <<>> /\ scenKeys = <<>> /\ scenValues = <<>>
    OBVIOUS
  <2> QED BY <1>0, <2>1, <2>2, <2>3 DEF ReplayTypeOK
<1>5. Counted
  BY <1>3 DEF Counted
<1>6. Unseen
  <2>1. Scen!ToSet(<<>>) = {}
    BY DEF Scen!ToSet
  <2> QED BY <2>1 DEF Unseen
<1> QED BY <1>1, <1>2, <1>4, <1>5, <1>6 DEF ReplayInv, StillKnown

\* The next frame of the scenario leaves the ones after it.
LEMMA StepTaken ==
    ASSUME StepsLeft, InTable, steps # <<>>, steps' = Tail(steps), slot' = slot
    PROVE  /\ StepsLeft' /\ Begun' /\ InTable'
           /\ Len(steps) \in Nat \ {0} /\ Len(steps') = Len(steps) - 1
           /\ FrameAt(Head(steps), Scen!Ticks(slot) + 3 - Len(steps), Scen!Ticks(slot), slot)
<1> DEFINE t == Scen!Ticks(slot)
           l == Len(steps)
<1>1. t \in Nat
  BY TicksHere
<1>2. PICK S : steps \in Seq(S)
  BY DEF StepsLeft
<1>3. /\ l <= t + 2 /\ \A j \in 1 .. l : FrameAt(steps[j], j + (t + 2 - l), t, slot)
  BY DEF StepsLeft
<1>4. l \in Nat \ {0} /\ Head(steps) = steps[1]
  BY <1>2
<1>5. /\ Tail(steps) \in Seq(S) /\ Len(Tail(steps)) = l - 1
      /\ \A j \in 1 .. l - 1 : Tail(steps)[j] = steps[j + 1]
  BY <1>2, <1>4, HeadTailProperties
<1>6. Scen!Ticks(slot') = t
  OBVIOUS
<1> HIDE DEF t, l
<1>7. ASSUME NEW j \in 1 .. l - 1 PROVE FrameAt(Tail(steps)[j], j + (t + 2 - (l - 1)), t, slot)
  <2>1. j + 1 \in 1 .. l /\ (j + 1) + (t + 2 - l) = j + (t + 2 - (l - 1))
    BY <1>1, <1>4
  <2>2. FrameAt(steps[j + 1], (j + 1) + (t + 2 - l), t, slot)
    BY <1>3, <2>1
  <2> QED BY <1>5, <2>1, <2>2
<1>8. FrameAt(Head(steps), t + 3 - l, t, slot)
  <2>1. 1 \in 1 .. l /\ 1 + (t + 2 - l) = t + 3 - l
    BY <1>1, <1>4
  <2> QED BY <1>3, <1>4, <2>1
<1>9. Len(steps') = l - 1 /\ l - 1 <= t + 2 /\ l - 1 < t + 2
  BY <1>1, <1>3, <1>4, <1>5
<1>10. StepsLeft'
  <2>1. \E S1 : steps' \in Seq(S1)
    BY <1>5
  <2>2. Len(steps') <= t + 2
    BY <1>9
  <2>3. \A j \in 1 .. Len(steps') : FrameAt(steps'[j], j + (t + 2 - Len(steps')), t, slot)
    BY <1>7, <1>9
  <2> QED BY <1>6, <2>1, <2>2, <2>3 DEF StepsLeft
<1>11. Begun'
  BY <1>6, <1>9 DEF Begun
<1>12. InTable'
  BY DEF InTable
<1> QED BY <1>4, <1>8, <1>9, <1>10, <1>11, <1>12 DEF t, l

\* The start frame of a scenario is new to both filters: the round is counted,
\* its End is queued once, drained, and remembered by both.
LEMMA ReplayStart ==
    ASSUME ReplayInv, ~Begun, Scen!ReplayFrame PROVE ReplayInv'
<1> DEFINE t == Scen!Ticks(slot)
           ev == Head(steps)
           key == <<slot, "End">>
           dup == <<slot, "End", 0>>
<1>0. /\ Batch \in Nat \ {0} /\ ScenRouterCap \in Nat \ {0} /\ ScenQueueCap \in Nat \ {0}
      /\ ScenDupCap \in Nat /\ ScenDupCap > 12
  BY ScenAssumption
<1>1. /\ steps # <<>> /\ steps' = Tail(steps) /\ slot' = slot
      /\ Scen!ProcessFrame(ev)
  BY DEF Scen!ReplayFrame
<1>2. t \in 0 .. 12 /\ slot \in 1 .. Batch /\ slot \in Nat \ {0}
  BY TicksHere DEF ReplayInv, InTable
<1>3. /\ StepsLeft' /\ Begun' /\ InTable' /\ Len(steps) \in Nat \ {0} /\ Len(steps') = Len(steps) - 1
      /\ FrameAt(ev, t + 3 - Len(steps), t, slot)
  BY <1>1, StepTaken DEF ReplayInv
<1>4. Len(steps) = t + 2 /\ Scen!Ticks(slot') = t
  <2>1. Len(steps) <= t + 2 /\ ~(Len(steps) < t + 2)
    BY DEF Begun, ReplayInv, StepsLeft
  <2> QED BY <1>1, <1>2, <1>3, <2>1, SMTT(60)
<1>5. ev.kind = "End" /\ ev.id = slot /\ ev.elapsed = 0 /\ ev.mult = 100
  <2>1. t + 3 - Len(steps) = 1
    BY <1>2, <1>4
  <2> QED BY <1>3, <2>1 DEF FrameAt
<1> HIDE DEF ev, t
<1>6. Ended = slot - 1 /\ Ended' = slot
  BY <1>1, <1>3 DEF Ended
<1>7. key \notin Scen!ToSet(scenKeys) /\ dup \notin Scen!ToSet(scenDupes)
  BY <1>2, <1>6 DEF ReplayInv, Unseen
<1>8. Scen!Valid(ev) /\ Scen!DupKey(ev) = dup /\ Scen!RouterKey(ev) = key
  BY <1>2, <1>5 DEF Scen!Valid, Scen!DupKey, Scen!RouterKey
<1>9. ~Scen!Duplicate(ev) /\ Scen!NewEnd(ev, scenKeys)
  BY <1>2, <1>5, <1>7, <1>8 DEF Scen!Duplicate, Scen!NewEnd
<1>10. /\ Scen!Through(ev) /\ Scen!RouteAndDrain(ev, scenKeys)
       /\ scenKeys' = Scen!Routed(ev, Scen!Routed(ev, scenKeys))
       /\ scenMode' = scenMode
  BY <1>1, <1>5, <1>8, <1>9 DEF Scen!ProcessFrame
<1>11. /\ scenDupes' = Scen!Remember(scenDupes, dup, ScenDupCap)
       /\ scenValues' = Append(scenValues, 100)
  BY <1>5, <1>8, <1>10 DEF Scen!Through, Scen!AddRound
<1>12. /\ scenMode = "engine" /\ scenToValidation = <<>>
       /\ scenSettled \in [1 .. Batch -> Nat] /\ scenValues \in Seq(Nat)
  BY DEF ReplayInv, ReplayTypeOK
<1>13. /\ scenToValidation' = <<>>
       /\ scenSettled' = [r \in 1 .. Batch |-> scenSettled[r] + (IF r = slot THEN 1 ELSE 0)]
  <2>1. Scen!Push(scenToValidation, ev.id) = <<slot>>
    BY <1>0, <1>5, <1>12 DEF Scen!Push
  <2>2. Scen!Drained(<<slot>>) = <<slot>> /\ SubSeq(<<slot>>, Len(<<slot>>) + 1, Len(<<slot>>)) = <<>>
    BY DEF Scen!Drained
  <2>3. /\ scenSettled' = [r \in 1 .. Batch |-> scenSettled[r] + Scen!Count(<<slot>>, r)]
        /\ scenToValidation' = <<>>
    BY <1>9, <1>10, <2>1, <2>2 DEF Scen!RouteAndDrain
  <2> QED BY <2>3, CountOne
<1>14. /\ \E S : scenKeys' \in Seq(S)
       /\ key \in Scen!ToSet(scenKeys') /\ Scen!ToSet(scenKeys') \subseteq Scen!ToSet(scenKeys) \cup {key}
  <2>1. PICK S : scenKeys \in Seq(S)
    BY DEF ReplayInv, ReplayTypeOK
  <2> DEFINE U == S \cup {key}
             one == Scen!Remember(scenKeys, key, ScenRouterCap)
  <2>2. scenKeys \in Seq(U) /\ key \in U
    BY <2>1, WiderSeq
  <2>3. /\ one \in Seq(U) /\ key \in Scen!ToSet(one)
        /\ Scen!ToSet(one) \subseteq Scen!ToSet(scenKeys) \cup {key}
    <3> HIDE DEF U
    <3> QED BY <1>0, <2>2, RememberKeeps, Zenon
  <2>4. Scen!Routed(ev, scenKeys) = one
    BY <1>2, <1>5, <1>7, <1>8 DEF Scen!Routed
  <2> HIDE DEF one, U
  <2>5. Scen!Routed(ev, one) = Scen!Refreshed(one, key)
    BY <1>2, <1>5, <1>8, <2>3 DEF Scen!Routed
  <2>6. /\ Scen!Refreshed(one, key) \in Seq(U) /\ key \in Scen!ToSet(Scen!Refreshed(one, key))
        /\ Scen!ToSet(Scen!Refreshed(one, key)) \subseteq Scen!ToSet(one) \cup {key}
    BY <2>3, RefreshedKeeps, Zenon
  <2>7. scenKeys' = Scen!Refreshed(one, key)
    BY <1>10, <2>4, <2>5
  <2> QED BY <2>3, <2>6, <2>7
<1>15. /\ \E S : scenDupes' \in Seq(S) /\ Len(scenDupes') <= ScenDupCap
       /\ Scen!ToSet(scenDupes') \subseteq Scen!ToSet(scenDupes) \cup {dup}
       /\ Len(scenDupes') \in Nat \ {0} /\ scenDupes'[Len(scenDupes')] = dup
  <2>1. PICK S : scenDupes \in Seq(S) /\ Len(scenDupes) <= ScenDupCap
    BY DEF ReplayInv, ReplayTypeOK
  <2> DEFINE U == S \cup {dup}
  <2>2. scenDupes \in Seq(U) /\ dup \in U /\ ScenDupCap \in Nat \ {0}
    BY <1>0, <2>1, WiderSeq
  <2> HIDE DEF U
  <2>3. /\ scenDupes' \in Seq(U) /\ Scen!ToSet(scenDupes') \subseteq Scen!ToSet(scenDupes) \cup {dup}
    BY <1>11, <2>2, RememberKeeps, Zenon
  <2>4. /\ Len(scenDupes') <= ScenDupCap /\ Len(scenDupes') \in Nat \ {0}
        /\ scenDupes'[Len(scenDupes')] = dup
    <3> DEFINE new == Scen!Remember(scenDupes, dup, ScenDupCap)
    <3>1. Len(new) <= ScenDupCap /\ Len(new) \in Nat \ {0} /\ new[Len(new)] = dup
      BY <2>1, <2>2, RememberLast
    <3> QED BY <1>11, <3>1, Zenon
  <2> QED BY <2>3, <2>4
<1>16. ReplayTypeOK'
  <2>1. scenValues' \in Seq(Nat)
    BY <1>11, <1>12
  <2>2. scenSettled' \in [1 .. Batch -> Nat]
    BY <1>12, <1>13
  <2> QED BY <1>10, <1>12, <1>13, <1>14, <1>15, <2>1, <2>2 DEF ReplayTypeOK
<1>17. Counted'
  <2>0. Len(scenValues) = slot - 1 /\ \A i \in 1 .. slot - 1 : scenValues[i] = 100
    BY <1>6 DEF ReplayInv, Counted
  <2>1. Len(scenValues') = slot /\ \A i \in 1 .. slot : scenValues'[i] = 100
    <3>1. Len(scenValues') = slot
      BY <1>2, <1>11, <1>12, <2>0
    <3>2. ASSUME NEW i \in 1 .. slot PROVE scenValues'[i] = 100
      BY <1>2, <1>11, <1>12, <2>0, <3>2, AppendProperties
    <3> QED BY <3>1, <3>2
  <2>2. ASSUME NEW r \in 1 .. Batch PROVE scenSettled'[r] = IF r <= slot THEN 1 ELSE 0
    <3>1. scenSettled'[r] = scenSettled[r] + (IF r = slot THEN 1 ELSE 0)
      BY <1>13
    <3>2. scenSettled[r] = IF r <= slot - 1 THEN 1 ELSE 0
      BY <1>6 DEF ReplayInv, Counted
    <3> QED BY <1>2, <3>1, <3>2
  <2> QED BY <1>6, <2>1, <2>2 DEF Counted
<1>18. Unseen'
  <2> SUFFICES ASSUME NEW r \in 1 .. Batch, r > slot
               PROVE  <<r, "End">> \notin Scen!ToSet(scenKeys') /\ <<r, "End", 0>> \notin Scen!ToSet(scenDupes')
    BY <1>6 DEF Unseen
  <2>1. r > slot - 1 /\ r # slot
    BY <1>2
  <2>2. <<r, "End">> \notin Scen!ToSet(scenKeys) /\ <<r, "End", 0>> \notin Scen!ToSet(scenDupes)
    BY <1>6, <2>1 DEF ReplayInv, Unseen
  <2>3. <<r, "End">> # key /\ <<r, "End", 0>> # dup
    BY <2>1
  <2> QED BY <1>14, <1>15, <2>2, <2>3
<1>19. StillKnown'
  <2>1. Len(scenDupes') \in 1 .. Len(scenDupes')
    BY <1>15
  <2>2. Scen!Ticks(slot') + 1 - Len(steps') = 0
    BY <1>2, <1>3, <1>4
  <2>3. Len(scenDupes') - Len(scenDupes') = 0
    BY <1>15
  <2> QED BY <1>1, <1>14, <1>15, <2>1, <2>2, <2>3 DEF StillKnown
<1> QED BY <1>3, <1>16, <1>17, <1>18, <1>19 DEF ReplayInv

\* A progress frame ages the key of the start frame by one place at most, and
\* touches neither the router nor the counts.
LEMMA ReplayTick ==
    ASSUME ReplayInv, Begun, Len(steps) # 1, Scen!ReplayFrame PROVE ReplayInv'
<1> DEFINE t == Scen!Ticks(slot)
           ev == Head(steps)
           l == Len(steps)
<1>0. /\ Batch \in Nat \ {0} /\ ScenDupCap \in Nat /\ ScenDupCap > 12
  BY ScenAssumption
<1>1. /\ steps # <<>> /\ steps' = Tail(steps) /\ slot' = slot
      /\ Scen!ProcessFrame(ev)
  BY DEF Scen!ReplayFrame
<1>2. t \in 0 .. 12 /\ slot \in 1 .. Batch /\ slot \in Nat \ {0}
  BY TicksHere DEF ReplayInv, InTable
<1>3. /\ StepsLeft' /\ Begun' /\ InTable' /\ l \in Nat \ {0} /\ Len(steps') = l - 1
      /\ FrameAt(ev, t + 3 - l, t, slot)
  BY <1>1, StepTaken DEF ReplayInv
<1>4. l < t + 2 /\ l >= 2
  BY <1>3 DEF Begun
<1>4a. Scen!Ticks(slot') = t
  BY <1>1
<1> HIDE DEF t, l
<1>5. ev.kind = "Progress" /\ ev.id = 0
  <2>1. t + 3 - l # 1 /\ t + 3 - l # t + 2
    BY <1>2, <1>3, <1>4
  <2> QED BY <1>3, <2>1 DEF FrameAt
<1> HIDE DEF ev
<1>6. Ended = slot /\ Ended' = slot
  BY <1>1, <1>3 DEF Ended
<1>7. Scen!Valid(ev) /\ ~Scen!NewEnd(ev, scenKeys) /\ \A ks : Scen!Routed(ev, ks) = ks
  BY <1>5 DEF Scen!Valid, Scen!NewEnd, Scen!Routed
<1>8. /\ scenMode = "engine" /\ scenToValidation = <<>>
      /\ scenSettled \in [1 .. Batch -> Nat] /\ scenValues \in Seq(Nat)
  BY DEF ReplayInv, ReplayTypeOK
<1>9. /\ scenMode' = scenMode /\ scenKeys' = scenKeys /\ scenToValidation' = <<>>
      /\ scenSettled' = scenSettled /\ scenValues' = scenValues
      /\ scenDupes' = scenDupes \/ scenDupes' = Scen!Remember(scenDupes, Scen!DupKey(ev), ScenDupCap)
  <2>1. CASE Scen!Duplicate(ev)
    BY <1>1, <1>5, <1>7, <1>8, <2>1
    DEF Scen!ProcessFrame, Scen!Route, Scen!stats
  <2>2. CASE ~Scen!Duplicate(ev)
    <3>1. /\ Scen!Through(ev) /\ Scen!RouteAndDrain(ev, scenKeys)
          /\ scenKeys' = Scen!Routed(ev, Scen!Routed(ev, scenKeys))
          /\ scenMode' = scenMode
      BY <1>1, <1>5, <1>7, <2>2 DEF Scen!ProcessFrame
    <3>2. /\ scenDupes' = Scen!Remember(scenDupes, Scen!DupKey(ev), ScenDupCap)
          /\ scenValues' = scenValues
      BY <1>5, <3>1 DEF Scen!Through, Scen!AddRound, Scen!stats
    <3>3. /\ scenToValidation' = <<>>
          /\ scenSettled' = [r \in 1 .. Batch |-> scenSettled[r] + Scen!Count(<<>>, r)]
      BY <1>7, <1>8, <3>1 DEF Scen!RouteAndDrain, Scen!Drained
    <3>4. scenSettled' = scenSettled
      BY <1>8, <3>3, CountOne
    <3> QED BY <1>7, <3>1, <3>2, <3>3, <3>4
  <2> QED BY <2>1, <2>2
<1>10. PICK S : scenDupes \in Seq(S) /\ Len(scenDupes) <= ScenDupCap
  BY DEF ReplayInv, ReplayTypeOK
<1>11. PICK i \in 1 .. Len(scenDupes) :
          scenDupes[i] = <<slot, "End", 0>> /\ Len(scenDupes) - i <= t + 1 - l
  BY DEF ReplayInv, StillKnown, t, l
<1>12. /\ \E U : scenDupes' \in Seq(U) /\ Len(scenDupes') <= ScenDupCap
       /\ Scen!ToSet(scenDupes') \subseteq Scen!ToSet(scenDupes) \cup {Scen!DupKey(ev)}
       /\ \E j \in 1 .. Len(scenDupes') : 
            scenDupes'[j] = <<slot, "End", 0>> /\ Len(scenDupes') - j <= t + 1 - (l - 1)
  <2>1. CASE scenDupes' = scenDupes
    <3>1. Len(scenDupes) \in Nat /\ t + 1 - l <= t + 1 - (l - 1)
      BY <1>2, <1>3, <1>10
    <3>2. Len(scenDupes) - i <= t + 1 - (l - 1)
      BY <1>2, <1>3, <1>11, <3>1
    <3> QED BY <1>10, <1>11, <2>1, <3>2
  <2>2. CASE scenDupes' = Scen!Remember(scenDupes, Scen!DupKey(ev), ScenDupCap)
    <3> DEFINE U == S \cup {Scen!DupKey(ev)}
    <3>1. scenDupes \in Seq(U) /\ Scen!DupKey(ev) \in U /\ ScenDupCap \in Nat \ {0} /\ Len(scenDupes) \in Nat
      BY <1>0, <1>10, WiderSeq
    <3> HIDE DEF U
    <3>2. scenDupes' \in Seq(U) /\ Scen!ToSet(scenDupes') \subseteq Scen!ToSet(scenDupes) \cup {Scen!DupKey(ev)}
      BY <2>2, <3>1, RememberKeeps
    <3>3. Len(scenDupes) - i < ScenDupCap - 1
      BY <1>0, <1>2, <1>3, <1>4, <1>11, <3>1
    <3>4. /\ Len(scenDupes') <= ScenDupCap
          /\ \E j \in 1 .. Len(scenDupes') :
               scenDupes'[j] = scenDupes[i] /\ Len(scenDupes') - j = Len(scenDupes) - i + 1
      <4> DEFINE new == Scen!Remember(scenDupes, Scen!DupKey(ev), ScenDupCap)
      <4>1. /\ Len(new) <= ScenDupCap
            /\ \E j \in 1 .. Len(new) : new[j] = scenDupes[i] /\ Len(new) - j = Len(scenDupes) - i + 1
        BY <1>0, <1>10, <3>1, <3>3, RememberAges
      <4> QED BY <2>2, <4>1, Zenon
    <3>5. PICK j \in 1 .. Len(scenDupes') :
               scenDupes'[j] = scenDupes[i] /\ Len(scenDupes') - j = Len(scenDupes) - i + 1
      BY <3>4
    <3>6. Len(scenDupes) - i + 1 <= t + 1 - (l - 1)
      BY <1>2, <1>3, <1>11, <3>1
    <3> QED BY <1>11, <3>2, <3>4, <3>5, <3>6, Zenon
  <2> QED BY <1>9, <2>1, <2>2
<1>13. ReplayTypeOK'
  BY <1>8, <1>9, <1>12 DEF ReplayInv, ReplayTypeOK
<1>14. Counted'
  BY <1>6, <1>9 DEF ReplayInv, Counted
<1>15. Unseen'
  <2>1. \A r : <<r, "End", 0>> # Scen!DupKey(ev)
    BY <1>5 DEF Scen!DupKey
  <2> QED BY <1>6, <1>9, <1>12, <2>1, Zenon DEF ReplayInv, Unseen
<1>16. StillKnown'
  <2>1. <<slot', "End">> \in Scen!ToSet(scenKeys')
    BY <1>1, <1>9 DEF ReplayInv, StillKnown
  <2>2. \E j \in 1 .. Len(scenDupes') :
            /\ scenDupes'[j] = <<slot', "End", 0>>
            /\ Len(scenDupes') - j <= Scen!Ticks(slot') + 1 - Len(steps')
    BY <1>1, <1>3, <1>4a, <1>12, Zenon
  <2> QED BY <2>1, <2>2 DEF StillKnown
<1> QED BY <1>3, <1>13, <1>14, <1>15, <1>16 DEF ReplayInv

\* The last frame is a duplicate, and the router knows its key.
LEMMA ReplayLast ==
    ASSUME ReplayInv, Begun, Len(steps) = 1, Scen!ReplayFrame PROVE ReplayInv'
<1> DEFINE t == Scen!Ticks(slot)
           ev == Head(steps)
           key == <<slot, "End">>
           dup == <<slot, "End", 0>>
<1>1. /\ steps # <<>> /\ steps' = Tail(steps) /\ slot' = slot
      /\ Scen!ProcessFrame(ev)
  BY DEF Scen!ReplayFrame
<1>2. t \in 0 .. 12 /\ slot \in 1 .. Batch /\ slot \in Nat \ {0} /\ Batch \in Nat
  BY TicksHere, ScenAssumption DEF ReplayInv, InTable
<1>3. /\ StepsLeft' /\ Begun' /\ InTable' /\ Len(steps') = 0
      /\ FrameAt(ev, t + 2, t, slot)
  <2>1. /\ StepsLeft' /\ Begun' /\ InTable' /\ Len(steps') = Len(steps) - 1
        /\ FrameAt(ev, t + 3 - Len(steps), t, slot)
    BY <1>1, StepTaken DEF ReplayInv
  <2>2. t + 3 - Len(steps) = t + 2 /\ Len(steps) - 1 = 0
    BY <1>2
  <2> HIDE DEF t, ev
  <2> QED BY <2>1, <2>2
<1>4. ev.kind = "End" /\ ev.id = slot /\ ev.elapsed = 0
  BY <1>3 DEF FrameAt
<1>4a. Scen!Ticks(slot') = t
  BY <1>1
<1> HIDE DEF ev, t
<1>5. Ended = slot /\ Ended' = slot
  BY <1>1, <1>3 DEF Ended
<1>6. PICK S : scenDupes \in Seq(S)
  BY DEF ReplayInv, ReplayTypeOK
<1>7. PICK i \in 1 .. Len(scenDupes) :
          scenDupes[i] = dup /\ Len(scenDupes) - i <= t + 1 - Len(steps)
  BY DEF ReplayInv, StillKnown, t
<1>8. dup \in Scen!ToSet(scenDupes) /\ key \in Scen!ToSet(scenKeys)
  <2>1. i \in DOMAIN scenDupes
    BY <1>6, <1>7, LenProperties
  <2> QED BY <1>7, <2>1 DEF ReplayInv, StillKnown, Scen!ToSet
<1>9. /\ Scen!Valid(ev) /\ Scen!Duplicate(ev) /\ ~Scen!NewEnd(ev, scenKeys)
      /\ Scen!Routed(ev, scenKeys) = Scen!Refreshed(scenKeys, key)
  BY <1>2, <1>4, <1>8
  DEF Scen!Valid, Scen!Duplicate, Scen!DupKey, Scen!NewEnd, Scen!RouterKey, Scen!Routed
<1>10. /\ scenMode' = scenMode /\ scenKeys' = Scen!Refreshed(scenKeys, key)
       /\ scenToValidation' = scenToValidation /\ scenSettled' = scenSettled
       /\ scenValues' = scenValues /\ scenDupes' = scenDupes
  BY <1>1, <1>9 DEF Scen!ProcessFrame, Scen!Route, Scen!stats
<1>11. /\ \E U : scenKeys' \in Seq(U)
       /\ key \in Scen!ToSet(scenKeys') /\ Scen!ToSet(scenKeys') \subseteq Scen!ToSet(scenKeys)
  <2>1. PICK U : scenKeys \in Seq(U)
    BY DEF ReplayInv, ReplayTypeOK
  <2>2. /\ scenKeys' \in Seq(U) /\ key \in Scen!ToSet(scenKeys')
        /\ Scen!ToSet(scenKeys') \subseteq Scen!ToSet(scenKeys) \cup {key}
    BY <1>8, <1>10, <2>1, RefreshedKeeps, Zenon
  <2> QED BY <1>8, <2>2, Zenon
<1>12. ReplayTypeOK'
  BY <1>10, <1>11 DEF ReplayInv, ReplayTypeOK
<1>13. Counted'
  BY <1>5, <1>10 DEF ReplayInv, Counted
<1>14. Unseen'
  BY <1>5, <1>10, <1>11, Zenon DEF ReplayInv, Unseen
<1>15. StillKnown'
  <2>1. <<slot', "End">> \in Scen!ToSet(scenKeys')
    BY <1>1, <1>11
  <2>2. /\ i \in 1 .. Len(scenDupes') /\ scenDupes'[i] = <<slot', "End", 0>>
    BY <1>1, <1>7, <1>10
  <2>3. Len(scenDupes') - i <= Scen!Ticks(slot') + 1 - Len(steps')
    <3>1. Len(scenDupes) \in Nat
      BY <1>6
    <3>2. Len(scenDupes) - i <= t + 1
      BY <1>2, <1>7, <3>1
    <3> QED BY <1>2, <1>3, <1>4a, <1>10, <3>2
  <2> QED BY <2>1, <2>2, <2>3 DEF StillKnown
<1> QED BY <1>3, <1>12, <1>13, <1>14, <1>15 DEF ReplayInv

\* The next scenario is unknown to both filters, and nothing is left to drain.
LEMMA ReplaySuccessor ==
    ASSUME ReplayInv, Scen!ReplayNext PROVE ReplayInv'
<1>0. Batch \in Nat \ {0}
  BY ScenAssumption
<1>1. /\ steps = <<>>
      /\ IF slot < Batch THEN slot' = slot + 1 /\ steps' = Scen!Steps(slot') ELSE slot' = slot /\ steps' = steps
      /\ scenToValidation' = <<>> /\ UNCHANGED <<scenMode, scenDupes, scenKeys, scenValues>>
  BY DEF Scen!ReplayNext, Scen!replay, Scen!filters, Scen!stats
<1>1a. scenToValidation = <<>> /\ scenSettled \in [1 .. Batch -> Nat]
  BY DEF ReplayInv, ReplayTypeOK
<1>1b. scenSettled' = scenSettled
  <2>1. scenSettled' = [r \in 1 .. Batch |-> scenSettled[r] + Scen!Count(<<>>, r)]
    BY <1>1a DEF Scen!ReplayNext
  <2>2. \A r \in 1 .. Batch : scenSettled[r] + Scen!Count(<<>>, r) = scenSettled[r]
    BY <1>1a, CountOne
  <2> QED BY <1>1a, <2>1, <2>2
<1>2. Scen!Ticks(slot) \in 0 .. 12 /\ slot \in 1 .. Batch
  BY TicksHere DEF ReplayInv, InTable
<1>3. Begun /\ Ended = slot
  <2>1. Len(steps) = 0
    BY <1>1
  <2> QED BY <1>2, <2>1 DEF Begun, Ended
<1>3a. CASE ~(slot < Batch)
  BY <1>1, <1>1a, <1>1b, <1>3a
     DEF ReplayInv, ReplayTypeOK, InTable, StepsLeft, Counted, Unseen, StillKnown, Begun, Ended
<1>3b. CASE slot < Batch
  <2>0. slot' = slot + 1 /\ steps' = Scen!Steps(slot')
    BY <1>1, <1>3b
  <2>1. InTable' /\ slot' \in Nat
    BY <1>0, <1>2, <1>3b, <2>0 DEF InTable
  <2>2. StepsLeft' /\ ~Begun'
    <3> DEFINE t == Scen!Ticks(slot')
    <3>1. t \in Nat
      <4>0. \A k \in Nat : k % 7 \in 0 .. 6
        OBVIOUS
      <4>1. slot' % 7 \in 0 .. 6
        BY <2>1, <4>0, Zenon
      <4> QED BY <4>1 DEF Scen!Ticks
    <3>2. /\ \E S : steps' \in Seq(S)
          /\ Len(steps') = t + 2
          /\ \A p \in 1 .. t + 2 : FrameAt(steps'[p], p, t, slot')
      BY <2>0, <3>1, ScenFrameKinds
    <3> HIDE DEF t
    <3>3. \A j \in 1 .. Len(steps') : j + (t + 2 - Len(steps')) = j
      BY <3>1, <3>2
    <3>4. \A j \in 1 .. Len(steps') : FrameAt(steps'[j], j + (t + 2 - Len(steps')), t, slot')
      BY <3>2, <3>3
    <3>5. Len(steps') <= t + 2 /\ ~(Len(steps') < t + 2)
      BY <3>1, <3>2
    <3> QED BY <3>2, <3>4, <3>5 DEF StepsLeft, Begun, t
  <2>3. Ended' = slot
    BY <1>2, <2>0, <2>2 DEF Ended
  <2>4. ReplayTypeOK'
    BY <1>1, <1>1b DEF ReplayInv, ReplayTypeOK
  <2>5. Counted' /\ Unseen'
    BY <1>1, <1>1b, <1>3, <2>3 DEF ReplayInv, Counted, Unseen
  <2>6. StillKnown'
    BY <2>2 DEF StillKnown
  <2> QED BY <2>1, <2>2, <2>4, <2>5, <2>6 DEF ReplayInv
<1> QED BY <1>3a, <1>3b

(* However many scenarios are replayed, each is one round for the          *)
(* statistics, recorded with the 1.00 of its start frame, and is settled   *)
(* once (EventEngine::processFrame, event_engine.hpp:140-153), as long     *)
(* as the DuplicateFilter keeps more keys than a scenario has progress     *)
(* frames.                                                                 *)
THEOREM ScenariosCountOnce == Scen!ReplaySpec => []ReplayCountsOnce
<1>1. Scen!ReplayInit => ReplayInv
  BY ReplayInitInv
<1>2. ReplayInv /\ [Scen!ReplayStep]_<<Scen!vars, Scen!replay>> => ReplayInv'
  <2> SUFFICES ASSUME ReplayInv, [Scen!ReplayStep]_<<Scen!vars, Scen!replay>> PROVE ReplayInv'
    OBVIOUS
  <2>1. CASE Scen!ReplayFrame
    BY <2>1, ReplayStart, ReplayTick, ReplayLast
  <2>2. CASE Scen!ReplayNext
    BY <2>2, ReplaySuccessor
  <2>3. CASE UNCHANGED <<Scen!vars, Scen!replay>>
    BY <2>3 DEF Scen!vars, Scen!replay, Scen!filters, Scen!stats, Scen!queues, ReplayInv,
         ReplayTypeOK, InTable, StepsLeft, Counted, Unseen, StillKnown, Begun, Ended
  <2> QED BY <2>1, <2>2, <2>3 DEF Scen!ReplayStep
<1>3. ReplayInv => ReplayCountsOnce
  <2> SUFFICES ASSUME ReplayInv, steps = <<>>
               PROVE  /\ Len(scenValues) = slot
                      /\ \A r \in 1 .. slot : scenSettled[r] = 1 /\ scenValues[r] = 100
    BY DEF ReplayCountsOnce, Scen!ReplayCountsOnce, Scen!Replayed
  <2>1. Scen!Ticks(slot) \in 0 .. 12 /\ slot \in 1 .. Batch /\ Batch \in Nat
    BY TicksHere, ScenAssumption, Zenon DEF ReplayInv, InTable
  <2>2. Ended = slot
    BY <2>1 DEF Begun, Ended
  <2>3. \A r \in 1 .. slot : r \in 1 .. Batch /\ r <= slot
    BY <2>1
  <2> QED BY <2>2, <2>3 DEF ReplayInv, Counted
<1> QED BY <1>1, <1>2, <1>3, PTL DEF Scen!ReplaySpec
-----------------------------------------------------------------------------
(***************************************************************************)
(* Induction over the natural numbers, as facts about sets of them.        *)
(***************************************************************************)

\* A set of natural numbers that is not empty has a least element.
LEMMA LeastNat ==
    ASSUME NEW T, T \subseteq Nat, T # {} PROVE \E k \in T : \A j \in T : k <= j
<1> DEFINE R == OpToRel(<, Nat)
<1>1. IsWellFoundedOn(R, Nat)
  BY NatLessThanWellFounded, Zenon
<1>2. PICK k \in T : \A j \in T : ~ (<<j, k>> \in R)
  <2> HIDE DEF R
  <2> QED BY <1>1, WFMin, Zenon
<1>3. \A j \in T : ~(j < k)
  <2> TAKE j \in T
  <2>1. j < k => <<j, k>> \in R
    BY DEF OpToRel
  <2> QED BY <1>2, <2>1, Zenon
<1> QED
  BY <1>3

\* A set with 0 and the successor of each number in it has all of them.
LEMMA SetInduction ==
    ASSUME NEW S, 0 \in S, \A k \in Nat : k \in S => k + 1 \in S PROVE Nat \subseteq S
<1> DEFINE T == {k \in Nat : k \notin S}
<1>1. SUFFICES ASSUME T # {} PROVE FALSE
  OBVIOUS
<1>2. PICK k \in T : \A j \in T : k <= j
  <2>1. T \subseteq Nat
    OBVIOUS
  <2> HIDE DEF T
  <2> QED BY <1>1, <2>1, LeastNat, Zenon
<1>3. k # 0 /\ k - 1 \in Nat /\ k - 1 \notin T
  BY <1>2
<1> QED BY <1>3

-----------------------------------------------------------------------------
(***************************************************************************)
(* Sums of sequences.                                                      *)
(***************************************************************************)

\* f has the sums of the first entries of s, up to k.
SumsUpTo(f, s, k) ==
    f \in [0 .. k -> Int] /\ f[0] = 0 /\ \A i \in 1 .. k : f[i] = f[i - 1] + s[i]

\* A sequence of numbers has partial sums.
LEMMA SumsExist ==
    ASSUME NEW s \in Seq(Int) PROVE \E f : SumsUpTo(f, s, Len(s))
<1> DEFINE T == {k \in Nat : k <= Len(s) => \E f : SumsUpTo(f, s, k)}
<1>0. Len(s) \in Nat /\ \A i \in 1 .. Len(s) : s[i] \in Int
  BY ElementOfSeq
<1>1. 0 \in T
  <2>1. SumsUpTo([i \in 0 .. 0 |-> 0], s, 0)
    BY DEF SumsUpTo
  <2> QED BY <2>1
<1>2. ASSUME NEW k \in Nat, k \in T PROVE k + 1 \in T
  <2> SUFFICES ASSUME k + 1 <= Len(s) PROVE \E f : SumsUpTo(f, s, k + 1)
    OBVIOUS
  <2>1. PICK f : SumsUpTo(f, s, k)
    BY <1>0, <1>2
  <2> DEFINE g == [i \in 0 .. k + 1 |-> IF i = k + 1 THEN f[k] + s[k + 1] ELSE f[i]]
  <2>2. f[k] \in Int /\ s[k + 1] \in Int
    BY <1>0, <2>1 DEF SumsUpTo
  <2>3. g \in [0 .. k + 1 -> Int] /\ g[0] = 0
    BY <2>1, <2>2 DEF SumsUpTo
  <2>4. ASSUME NEW i \in 1 .. k + 1 PROVE g[i] = g[i - 1] + s[i]
    <3>1. CASE i = k + 1
      <4>1. g[i] = f[k] + s[k + 1] /\ g[i - 1] = f[k]
        BY <3>1
      <4> QED BY <3>1, <4>1
    <3>2. CASE i # k + 1
      <4>1. i \in 1 .. k /\ i - 1 \in 0 .. k + 1 /\ i - 1 # k + 1 /\ i \in 0 .. k + 1
        BY <3>2
      <4>2. g[i] = f[i] /\ g[i - 1] = f[i - 1]
        BY <4>1
      <4> QED BY <2>1, <4>1, <4>2 DEF SumsUpTo
    <3> QED BY <3>1, <3>2
  <2> HIDE DEF g
  <2>5. SumsUpTo(g, s, k + 1)
    BY <2>3, <2>4 DEF SumsUpTo
  <2> QED BY <2>5
<1>3. Nat \subseteq T
  <2> HIDE DEF T
  <2> QED BY <1>1, <1>2, SetInduction, Zenon
<1> QED BY <1>0, <1>3

\* Sums is what its definition says.
LEMMA SumsAre ==
    ASSUME NEW s \in Seq(Int) PROVE SumsUpTo(Online!Sums(s), s, Len(s))
<1> DEFINE E(f) == [i \in 0 .. Len(s) |-> IF i = 0 THEN 0 ELSE f[i - 1] + s[i]]
<1>0. Len(s) \in Nat /\ \A i \in 1 .. Len(s) : s[i] \in Int
  BY ElementOfSeq
<1>1. PICK f : SumsUpTo(f, s, Len(s))
  BY SumsExist
<1>2. f = E(f)
  <2>1. f = [i \in 0 .. Len(s) |-> f[i]]
    BY <1>1 DEF SumsUpTo
  <2>2. \A i \in 0 .. Len(s) : f[i] = IF i = 0 THEN 0 ELSE f[i - 1] + s[i]
    BY <1>0, <1>1 DEF SumsUpTo
  <2> QED BY <2>1, <2>2, Zenon
<1>3. Online!Sums(s) = CHOOSE g : g = E(g)
  BY DEF Online!Sums
<1>4. Online!Sums(s) = E(Online!Sums(s))
  <2> HIDE DEF E
  <2> QED BY <1>2, <1>3
<1> DEFINE h == Online!Sums(s)
<1>5. h = [i \in 0 .. Len(s) |-> IF i = 0 THEN 0 ELSE h[i - 1] + s[i]]
  BY <1>4, Zenon
<1> HIDE DEF h, E
<1>6. h[0] = 0 /\ \A i \in 1 .. Len(s) : h[i] = h[i - 1] + s[i]
  <2>1. 0 \in 0 .. Len(s) /\ \A i \in 1 .. Len(s) : i \in 0 .. Len(s) /\ i # 0
    BY <1>0
  <2>2. \A i \in 0 .. Len(s) : h[i] = IF i = 0 THEN 0 ELSE h[i - 1] + s[i]
    BY <1>5, Zenon
  <2> QED BY <2>1, <2>2
<1> DEFINE T == {k \in Nat : k <= Len(s) => h[k] \in Int}
<1>7. 0 \in T
  BY <1>6
<1>8. ASSUME NEW k \in Nat, k \in T PROVE k + 1 \in T
  <2> SUFFICES ASSUME k + 1 <= Len(s) PROVE h[k + 1] \in Int
    OBVIOUS
  <2>1. h[k] \in Int /\ k + 1 \in 1 .. Len(s) /\ (k + 1) - 1 = k /\ s[k + 1] \in Int
    BY <1>0, <1>8
  <2>2. h[k + 1] = h[(k + 1) - 1] + s[k + 1]
    BY <1>6, <2>1
  <2> QED BY <2>1, <2>2
<1>9. Nat \subseteq T
  <2> HIDE DEF T
  <2> QED BY <1>7, <1>8, SetInduction, Zenon
<1>10. \A k \in 0 .. Len(s) : h[k] \in Int
  BY <1>0, <1>9
<1>11. h \in [0 .. Len(s) -> Int]
  BY <1>5, <1>10, Zenon
<1> QED BY <1>6, <1>11 DEF SumsUpTo, h

\* Sequences that agree up to k have the same sum up to k.
LEMMA SumsSame ==
    ASSUME NEW s \in Seq(Int), NEW u \in Seq(Int), NEW k \in Nat, k <= Len(s), k <= Len(u),
           \A i \in 1 .. k : s[i] = u[i]
    PROVE  Online!Sums(s)[k] = Online!Sums(u)[k]
<1> DEFINE f == Online!Sums(s)
           g == Online!Sums(u)
           T == {j \in Nat : j <= k => f[j] = g[j]}
<1>1. SumsUpTo(f, s, Len(s)) /\ SumsUpTo(g, u, Len(u)) /\ Len(s) \in Nat /\ Len(u) \in Nat
  BY SumsAre
<1> HIDE DEF f, g
<1>2. 0 \in T
  BY <1>1 DEF SumsUpTo
<1>3. ASSUME NEW j \in Nat, j \in T PROVE j + 1 \in T
  <2> SUFFICES ASSUME j + 1 <= k PROVE f[j + 1] = g[j + 1]
    OBVIOUS
  <2>1. f[j] = g[j] /\ j + 1 \in 1 .. Len(s) /\ j + 1 \in 1 .. Len(u) /\ (j + 1) - 1 = j /\ s[j + 1] = u[j + 1]
    BY <1>1, <1>3
  <2>2. f[j + 1] = f[(j + 1) - 1] + s[j + 1] /\ g[j + 1] = g[(j + 1) - 1] + u[j + 1]
    BY <1>1, <2>1 DEF SumsUpTo
  <2> QED BY <2>1, <2>2
<1>4. Nat \subseteq T
  <2> HIDE DEF T
  <2> QED BY <1>2, <1>3, SetInduction, Zenon
<1>5. k \in T
  BY <1>4
<1> QED BY <1>5 DEF f, g

\* The sum of a sequence with one more number.
LEMMA SumAppend ==
    ASSUME NEW s \in Seq(Int), NEW x \in Int
    PROVE  Online!SumOf(s) \in Int /\ Online!SumOf(Append(s, x)) = Online!SumOf(s) + x
<1> DEFINE u == Append(s, x)
           k == Len(s)
<1>1. u \in Seq(Int) /\ Len(u) = k + 1 /\ k \in Nat /\ u[k + 1] = x /\ \A i \in 1 .. k : u[i] = s[i]
  BY AppendProperties, LenProperties
<1> HIDE DEF u, k
<1>2. Online!Sums(u)[k] = Online!Sums(s)[k]
  <2>1. k <= Len(s) /\ k <= Len(u) /\ \A i \in 1 .. k : s[i] = u[i]
    BY <1>1 DEF k
  <2> QED BY <1>1, <2>1, SumsSame
<1>3. SumsUpTo(Online!Sums(u), u, k + 1) /\ SumsUpTo(Online!Sums(s), s, k)
  BY <1>1, SumsAre DEF k
<1>4. Online!Sums(u)[k + 1] = Online!Sums(u)[k] + x /\ Online!Sums(s)[k] \in Int
  <2>1. k + 1 \in 1 .. k + 1 /\ (k + 1) - 1 = k /\ k \in 0 .. k
    BY <1>1
  <2>2. Online!Sums(u)[k + 1] = Online!Sums(u)[(k + 1) - 1] + u[k + 1]
    BY <1>3, <2>1 DEF SumsUpTo
  <2> QED BY <1>1, <1>3, <2>1, <2>2 DEF SumsUpTo
<1> QED BY <1>1, <1>2, <1>4 DEF Online!SumOf, u, k

\* The sum of no numbers.
LEMMA SumEmpty == Online!SumOf(<<>>) = 0
<1>1. <<>> \in Seq(Int) /\ Len(<<>>) = 0
  OBVIOUS
<1>2. SumsUpTo(Online!Sums(<<>>), <<>>, 0)
  BY <1>1, SumsAre, Zenon
<1> QED BY <1>1, <1>2 DEF SumsUpTo, Online!SumOf

\* The squared deviations from m + q follow from those from m:
\* (y - q)^2 = y^2 - 2 q y + q^2, summed.
LEMMA SumShift ==
    ASSUME NEW s \in Seq(Int), NEW c \in Int, NEW m \in Int, NEW q \in Int
    PROVE  Online!SumOf([i \in 1 .. Len(s) |-> (c * s[i] - (m + q)) * (c * s[i] - (m + q))])
           = Online!SumOf([i \in 1 .. Len(s) |-> (c * s[i] - m) * (c * s[i] - m)])
             - 2 * q * (c * Online!SumOf(s) - Len(s) * m) + Len(s) * (q * q)
<1> DEFINE l == Len(s)
           a == [i \in 1 .. l |-> (c * s[i] - m) * (c * s[i] - m)]
           b == [i \in 1 .. l |-> (c * s[i] - (m + q)) * (c * s[i] - (m + q))]
           A == Online!Sums(a)
           B == Online!Sums(b)
           C == Online!Sums(s)
           T == {k \in Nat : k <= l => B[k] = A[k] - 2 * q * (c * C[k] - k * m) + k * (q * q)}
<1>1. l \in Nat /\ \A i \in 1 .. l : s[i] \in Int
  BY ElementOfSeq
<1>2. \A i \in 1 .. l : (c * s[i] - m) * (c * s[i] - m) \in Int /\ (c * s[i] - (m + q)) * (c * s[i] - (m + q)) \in Int
  BY <1>1
<1>3. a \in Seq(Int) /\ b \in Seq(Int) /\ Len(a) = l /\ Len(b) = l
  BY <1>1, <1>2
<1>4. \A i \in 1 .. l : a[i] = (c * s[i] - m) * (c * s[i] - m) /\ b[i] = (c * s[i] - (m + q)) * (c * s[i] - (m + q))
  OBVIOUS
<1> HIDE DEF a, b
<1>5. SumsUpTo(A, a, l) /\ SumsUpTo(B, b, l) /\ SumsUpTo(C, s, l)
  BY <1>3, SumsAre
<1> HIDE DEF A, B, C, l
<1>6. 0 \in T
  BY <1>1, <1>5 DEF SumsUpTo
<1>7. ASSUME NEW k \in Nat, k \in T PROVE k + 1 \in T
  <2> SUFFICES ASSUME k + 1 <= l
               PROVE  B[k + 1] = A[k + 1] - 2 * q * (c * C[k + 1] - (k + 1) * m) + (k + 1) * (q * q)
    OBVIOUS
  <2>1. B[k] = A[k] - 2 * q * (c * C[k] - k * m) + k * (q * q)
    BY <1>1, <1>7
  <2>2. /\ k + 1 \in 1 .. l /\ (k + 1) - 1 = k /\ k \in 0 .. l /\ s[k + 1] \in Int
        /\ A[k] \in Int /\ B[k] \in Int /\ C[k] \in Int
    BY <1>1, <1>5 DEF SumsUpTo
  <2> DEFINE y == c * s[k + 1] - m
  <2>3. y \in Int /\ c * s[k + 1] - (m + q) = y - q
    BY <2>2
  <2>4. /\ A[k + 1] = A[k] + y * y
        /\ B[k + 1] = B[k] + (y - q) * (y - q)
        /\ C[k + 1] = C[k] + s[k + 1]
    BY <1>4, <1>5, <2>2, <2>3 DEF SumsUpTo
  <2>5. (y - q) * (y - q) = y * y - 2 * q * y + q * q
    <3> HIDE DEF y
    <3> QED BY <2>3
  <2>6. c * C[k + 1] - (k + 1) * m = (c * C[k] - k * m) + y
    <3>1. c * (C[k] + s[k + 1]) = c * C[k] + c * s[k + 1] /\ (k + 1) * m = k * m + m
      BY <2>2
    <3>2. c * C[k] \in Int /\ c * s[k + 1] \in Int /\ k * m \in Int
      BY <2>2
    <3> DEFINE cc == c * C[k]
               cs == c * s[k + 1]
               km == k * m
    <3>3. c * C[k + 1] = cc + cs /\ (k + 1) * m = km + m /\ y = cs - m /\ c * C[k] = cc /\ k * m = km
      BY <2>4, <3>1
    <3>4. cc \in Int /\ cs \in Int /\ km \in Int
      BY <3>2
    <3> HIDE DEF cc, cs, km, y
    <3> QED BY <3>3, <3>4
  <2> DEFINE z == c * C[k] - k * m
  <2>7. z \in Int
    BY <2>2
  <2> HIDE DEF y, z
  <2>8. 2 * q * (z + y) = 2 * q * z + 2 * q * y
    BY <2>3, <2>7
  <2>9. (k + 1) * (q * q) = k * (q * q) + q * q
    OBVIOUS
  <2>10. B[k] = A[k] - 2 * q * z + k * (q * q) /\ c * C[k + 1] - (k + 1) * m = z + y
    BY <2>1, <2>6 DEF z
  <2>11. /\ 2 * q * z \in Int /\ 2 * q * y \in Int /\ q * q \in Int /\ y * y \in Int /\ k * (q * q) \in Int
         /\ 2 * q * (z + y) \in Int
    BY <2>3, <2>7
  <2> DEFINE qz == 2 * q * z
             qy == 2 * q * y
             qq == q * q
             yy == y * y
             kq == k * (q * q)
  <2>12. /\ qz \in Int /\ qy \in Int /\ qq \in Int /\ yy \in Int /\ kq \in Int
         /\ A[k + 1] = A[k] + yy /\ B[k + 1] = B[k] + (yy - qy + qq) /\ B[k] = A[k] - qz + kq
         /\ 2 * q * (c * C[k + 1] - (k + 1) * m) = qz + qy /\ (k + 1) * (q * q) = kq + qq
    BY <2>4, <2>5, <2>8, <2>9, <2>10, <2>11
  <2> HIDE DEF qz, qy, qq, yy, kq
  <2>13. B[k + 1] = A[k + 1] - (qz + qy) + (kq + qq)
    BY <2>2, <2>12
  <2> QED BY <2>12, <2>13, Zenon
<1>8. Nat \subseteq T
  <2> HIDE DEF T
  <2> QED BY <1>6, <1>7, SetInduction, Zenon
<1>9. l \in T
  BY <1>1, <1>8
<1>10. B[l] = A[l] - 2 * q * (c * C[l] - l * m) + l * (q * q)
  BY <1>1, <1>9
<1> QED BY <1>3, <1>10 DEF Online!SumOf, A, B, C, l, a, b

\* Division with remainder, and exact division.
LEMMA DivMod ==
    ASSUME NEW a \in Int, NEW k \in Nat \ {0}
    PROVE  a \div k \in Int /\ a % k \in 0 .. k - 1 /\ a = k * (a \div k) + (a % k)
  OBVIOUS

\* Quotient and remainder are determined by their sum.
LEMMA DivUnique ==
    ASSUME NEW k \in Nat \ {0}, NEW d \in Int, NEW r \in 0 .. k - 1
    PROVE  (k * d + r) \div k = d /\ (k * d + r) % k = r
<1> DEFINE a == k * d + r
           e == a \div k
           u == a % k
<1>1. a \in Int
  OBVIOUS
<1>2. e \in Int /\ u \in 0 .. k - 1 /\ a = k * e + u
  <2> HIDE DEF a
  <2> QED BY <1>1, DivMod
<1>3. k * e + u = k * d + r
  BY <1>2
<1> HIDE DEF e, u, a
<1>4. k * (e - d) = r - u
  <2>1. k * (e - d) = k * e - k * d
    BY <1>2
  <2>2. k * e \in Int /\ k * d \in Int
    BY <1>2
  <2> DEFINE ke == k * e
             kd == k * d
  <2>3. ke \in Int /\ kd \in Int /\ ke + u = kd + r /\ k * (e - d) = ke - kd
    BY <1>3, <2>1, <2>2
  <2> HIDE DEF ke, kd
  <2> QED BY <1>2, <2>3
<1>5. e = d
  <2>1. CASE e - d >= 1
    <3>1. k * (e - d) >= k
      BY <1>2, <2>1
    <3> QED BY <1>2, <1>4, <3>1
  <2>2. CASE e - d <= -1
    <3>1. k * (e - d) <= -k
      BY <1>2, <2>2
    <3> QED BY <1>2, <1>4, <3>1
  <2> QED BY <1>2, <2>1, <2>2
<1>6. u = r
  BY <1>2, <1>4, <1>5
<1> QED BY <1>5, <1>6 DEF e, u, a

\* The mean of k samples from that of k - 1: the step is exact.
LEMMA MeanMoves ==
    ASSUME NEW k \in Nat \ {0}, Scale % k = 0, NEW m \in Int, NEW t \in Int, NEW x \in Int,
           m * (k - 1) = Scale * t
    PROVE  \E q \in Int : /\ Scale * x - m = k * q /\ (Scale * x - m) \div k = q
                          /\ (m + q) * k = Scale * (t + x)
<1> DEFINE c == Scale \div k
           q == c * (t + x) - m
<1>1. Scale \in Nat
  BY OnlineAssumption
<1>2. c \in Int /\ Scale = k * c
  BY <1>1, DivMod
<1> HIDE DEF c
<1>3. q \in Int
  BY <1>2
<1>4. Scale * (t + x) = k * (c * (t + x))
  BY <1>2
<1>5. Scale * (t + x) = Scale * t + Scale * x
  BY <1>1
<1>6. m * (k - 1) = m * k - m /\ m * k = k * m
  OBVIOUS
<1>7. k * q = k * (c * (t + x)) - k * m
  <2> DEFINE y == c * (t + x)
  <2>1. y \in Int
    BY <1>2
  <2> HIDE DEF y
  <2>2. k * (y - m) = k * y - k * m
    BY <2>1
  <2> QED BY <2>2 DEF y
<1>8. Scale * x - m = k * q
  <2> DEFINE sx == Scale * x
             st == Scale * t
             km == k * m
             ky == k * (c * (t + x))
  <2>1. /\ sx \in Int /\ st \in Int /\ km \in Int /\ ky \in Int
        /\ km - m = st /\ ky = st + sx /\ k * q = ky - km
    BY <1>1, <1>2, <1>4, <1>5, <1>6, <1>7
  <2>2. Scale * x = sx
    OBVIOUS
  <2> HIDE DEF sx, st, km, ky, q
  <2> QED BY <2>1, <2>2
<1>9. (k * q) \div k = q
  <2>1. k * q + 0 = k * q /\ 0 \in 0 .. k - 1
    BY <1>3
  <2> HIDE DEF q
  <2> QED BY <1>3, <2>1, DivUnique
<1>10. (m + q) * k = Scale * (t + x)
  <2>1. m + q = c * (t + x)
    BY <1>2
  <2> HIDE DEF q
  <2>2. (c * (t + x)) * k = k * (c * (t + x))
    BY <1>2
  <2> QED BY <1>4, <2>1, <2>2
<1> QED BY <1>3, <1>8, <1>9, <1>10

\* What M2Step adds is less than what the squared deviations grow by, j q^2
\* times a k-th of Scale less.
LEMMA SecondMomentLow ==
    ASSUME NEW j \in Nat, NEW c \in Nat, NEW q \in Int, NEW old \in Int, NEW v \in Int,
           Scale = (j + 1) * c, 0 <= v, v <= Scale * old
    PROVE  LET e == j * q
               new == v + e * (Scale * e + c * e)
           IN  new \in Int /\ 0 <= new /\ new <= Scale * (old + j * (q * q) + e * e)
<1> DEFINE e == j * q
           w == q * q
           step == e * (Scale * e + c * e)
           more == j * w + e * e
<1>0. Scale \in Nat
  BY OnlineAssumption
<1>1. w \in Nat
  <2>1. q >= 0 => q * q >= 0
    OBVIOUS
  <2>2. q < 0 => q * q >= 0
    OBVIOUS
  <2> QED BY <2>1, <2>2
<1>2. e \in Int /\ e * e = j * j * w
  OBVIOUS
<1>3. step = (Scale + c) * (e * e)
  <2> HIDE DEF e
  <2> QED BY <1>0, <1>2
<1>4. Scale + c = c * (j + 2)
  OBVIOUS
<1>5. step = c * (j + 2) * (j * j * w)
  <2> HIDE DEF e, w, step
  <2> QED BY <1>2, <1>3, <1>4
<1>6. Scale * more = (j + 1) * c * (j * w + j * j * w)
  <2> HIDE DEF e, w
  <2> QED BY <1>2
<1> HIDE DEF w
<1>7. (j + 1) * c * (j * w + j * j * w) = c * (j + 2) * (j * j * w) + c * j * w
  BY <1>1
<1>8. c * j * w \in Nat /\ c * (j + 2) * (j * j * w) \in Nat
  <2>1. j * j \in Nat /\ c * j \in Nat /\ c * (j + 2) \in Nat
    OBVIOUS
  <2> DEFINE jj == j * j
             cj == c * j
             cc == c * (j + 2)
  <2>2. jj \in Nat /\ cj \in Nat /\ cc \in Nat
    BY <2>1
  <2> HIDE DEF jj, cj, cc
  <2>3. jj * w \in Nat /\ cj * w \in Nat
    BY <1>1, <2>2
  <2> DEFINE jw == jj * w
  <2>4. jw \in Nat
    BY <2>3
  <2> HIDE DEF jw
  <2>5. cc * jw \in Nat
    BY <2>2, <2>4
  <2> QED BY <2>3, <2>5 DEF jj, cj, cc, jw
<1>9. step \in Nat /\ Scale * more \in Int /\ step <= Scale * more
  <2> DEFINE a == c * (j + 2) * (j * j * w)
             b == c * j * w
  <2>1. step = a /\ Scale * more = a + b /\ a \in Nat /\ b \in Nat
    BY <1>5, <1>6, <1>7, <1>8
  <2> HIDE DEF a, b, step, more
  <2> QED BY <2>1
<1>10. more \in Int
  BY <1>1, <1>2
<1> HIDE DEF more, step
<1>11. Scale * (old + more) = Scale * old + Scale * more
  BY <1>0, <1>10
<1>12. Scale * old \in Int
  BY <1>0
<1>13. v + step \in Int /\ 0 <= v + step /\ v + step <= Scale * (old + more)
  <2> DEFINE so == Scale * old
             sm == Scale * more
  <2>1. so \in Int /\ sm \in Int /\ v <= so /\ step <= sm /\ Scale * (old + more) = so + sm /\ step \in Nat
    BY <1>9, <1>11, <1>12
  <2> HIDE DEF so, sm
  <2> QED BY <2>1
<1>14. old + more = old + j * (q * q) + e * e
  <2>1. j * w \in Int /\ e * e \in Int
    BY <1>1, <1>2
  <2> HIDE DEF e
  <2> QED BY <2>1 DEF more, w
<1> QED BY <1>13, <1>14 DEF step

-----------------------------------------------------------------------------
(***************************************************************************)
(* The families of online statistics, one inductive invariant each.        *)
(***************************************************************************)

\* Which operations a behaviour about a family has.
LEMMA FamilySteps ==
    ASSUME Online!Next
    PROVE  /\ family' = family
           /\ family = "window" => (\E x \in Samples : Online!Push(x)) \/ Online!MeanSize \/ Online!MeanSum
           /\ family = "journal" => \/ \E x \in Samples : Online!JournalAppend(x)
                                    \/ Online!JournalClear \/ Online!JournalSize \/ Online!JournalAt
           /\ family = "store" => \/ \E k \in StoreKeys : Online!Put(k) \/ Online!Get(k)
                                  \/ Online!StoreClear \/ Online!ListKeys \/ Online!NoKeys
           /\ family = "hist" => \E x \in Points \cup {Online!NaN} : Online!HistAdd(x)
           /\ family = "stat" => \E x \in Samples : Online!StatAdd(x)
<1> USE DEF Online!Push, Online!MeanSize, Online!MeanSum, Online!JournalAppend, Online!JournalClear,
         Online!JournalSize, Online!JournalAt, Online!Put, Online!Get, Online!StoreClear, Online!ListKeys,
         Online!NoKeys, Online!HistAdd, Online!StatAdd
<1>1. CASE \E x \in Samples : Online!Push(x) \/ Online!JournalAppend(x) \/ Online!StatAdd(x)
  BY <1>1, Zenon
<1>2. CASE \E x \in Points \cup {Online!NaN} : Online!HistAdd(x)
  BY <1>2
<1>3. CASE \E k \in StoreKeys : Online!Put(k) \/ Online!Get(k)
  BY <1>3, Zenon
<1>4. CASE \/ Online!MeanSize \/ Online!MeanSum \/ Online!JournalClear \/ Online!JournalSize \/ Online!JournalAt
           \/ Online!StoreClear \/ Online!ListKeys \/ Online!NoKeys
  BY <1>4, Zenon
<1> QED BY <1>1, <1>2, <1>3, <1>4, Zenon DEF Online!Next

\* The additions so far stay as they are.
LEMMA AddKeeps ==
    ASSUME NEW S, adds \in Seq(S), NEW x \in S, adds' = Append(adds, x)
    PROVE  /\ adds' \in Seq(S) /\ Len(adds) \in Nat /\ Len(adds') = Len(adds) + 1
           /\ adds'[Len(adds) + 1] = x
           /\ \A i \in 1 .. Len(adds) : adds'[i] = adds[i]
  BY AppendProperties, LenProperties

(* Statistics: the mean is exact, and m2_ below the squared deviations.    *)
StatInv ==
    /\ adds \in Seq(Int) /\ n = Len(adds) /\ n <= MaxAdds /\ mean \in Int /\ m2 \in Int
    /\ mean * n = Scale * Online!Total
    /\ 0 <= m2 /\ m2 <= Scale * Online!SquaredDeviations

\* Running moments start in their invariant, with no samples.
LEMMA StatInit == Online!Init => StatInv
<1> SUFFICES ASSUME Online!Init PROVE StatInv
  OBVIOUS
<1>1. adds = <<>> /\ n = 0 /\ mean = 0 /\ m2 = 0 /\ MaxAdds \in Nat /\ Scale \in Nat
  BY OnlineAssumption DEF Online!Init
<1>2. adds \in Seq(Int) /\ Len(adds) = 0
  BY <1>1
<1>3. [i \in 1 .. Len(adds) |-> (Scale * adds[i] - mean) * (Scale * adds[i] - mean)] = <<>>
  BY <1>2
<1>4. Online!Total = 0 /\ Online!SquaredDeviations = 0
  BY <1>1, <1>3, SumEmpty DEF Online!Total, Online!SquaredDeviations
<1> QED BY <1>1, <1>2, <1>4 DEF StatInv

\* Adding a sample keeps the running moments those of the samples.
LEMMA StatStep ==
    ASSUME StatInv, NEW x \in Samples, Online!StatAdd(x) PROVE StatInv'
<1> DEFINE j == Len(adds)
           k == j + 1
           t == Online!SumOf(adds)
           dev(s, m) == [i \in 1 .. Len(s) |-> (Scale * s[i] - m) * (Scale * s[i] - m)]
           old == Online!SumOf(dev(adds, mean))
<1>1. /\ adds \in Seq(Int) /\ n = j /\ j <= MaxAdds /\ mean \in Int /\ m2 \in Int
      /\ mean * j = Scale * t /\ 0 <= m2 /\ m2 <= Scale * old
  BY DEF StatInv, Online!Total, Online!SquaredDeviations
<1>2. /\ x \in Int /\ Scale \in Nat /\ MaxAdds \in Nat /\ j \in Nat
      /\ j < MaxAdds /\ adds' = Append(adds, x)
  BY <1>1, OnlineAssumption DEF Online!StatAdd, Online!Add
<1>3. /\ n' = k /\ mean' = mean + Online!MeanStep(x, k)
      /\ m2' = m2 + Online!M2Step(x, k, mean')
  BY <1>1 DEF Online!StatAdd
<1>4. k \in 1 .. MaxAdds /\ k \in Nat \ {0} /\ Scale % k = 0 /\ k - 1 = j
  BY <1>2, OnlineAssumption
<1>5. t \in Int /\ Online!SumOf(adds') = t + x
  BY <1>1, <1>2, SumAppend
<1>6. PICK q \in Int : /\ Scale * x - mean = k * q /\ (Scale * x - mean) \div k = q
                       /\ (mean + q) * k = Scale * (t + x)
  <2> HIDE DEF k, t, j
  <2>1. mean * (k - 1) = Scale * t
    BY <1>1, <1>4
  <2>2. k \in Nat \ {0} /\ Scale % k = 0 /\ mean \in Int /\ t \in Int /\ x \in Int
    BY <1>1, <1>2, <1>4, <1>5
  <2> QED BY <2>1, <2>2, MeanMoves
<1>7. mean' = mean + q
  BY <1>3, <1>6 DEF Online!MeanStep
<1>8. mean' * k = Scale * Online!SumOf(adds')
  BY <1>5, <1>6, <1>7
<1> DEFINE e == j * q
           c == Scale \div k
<1>9. Scale * x - mean' = e /\ e \in Int
  <2>1. k * q = j * q + q
    BY <1>2
  <2>2. j * q \in Int /\ Scale * x \in Int
    BY <1>2
  <2> DEFINE sx == Scale * x
             kq == k * q
  <2>3. sx \in Int /\ sx - mean = kq /\ kq = e + q /\ mean' = mean + q /\ e \in Int
    BY <1>6, <1>7, <2>1, <2>2
  <2> HIDE DEF sx, kq, e
  <2>4. sx - mean' = e
    BY <1>1, <2>3
  <2> QED BY <2>3, <2>4 DEF sx
<1>10. c \in Nat /\ Scale = (j + 1) * c
  <2>1. c \in Int /\ Scale = k * c
    <3> HIDE DEF k
    <3>1. c \in Int /\ Scale = k * c + (Scale % k)
      <4>1. Scale \in Int /\ k \in Nat \ {0}
        BY <1>2, <1>4
      <4> QED BY <4>1, DivMod
    <3>2. k * c \in Int
      BY <1>4, <3>1
    <3> HIDE DEF c
    <3> QED BY <1>4, <3>1, <3>2
  <2>2. c >= 0
    <3> HIDE DEF c, k
    <3>1. c < 0 => k * c < 0
      BY <1>4, <2>1
    <3> QED BY <1>2, <2>1, <3>1
  <2> QED BY <2>1, <2>2
<1>11. Online!M2Step(x, k, mean') = e * (Scale * e + c * e)
  BY <1>9 DEF Online!M2Step
<1>12. Online!SumOf(dev(adds, mean')) = old + j * (q * q) /\ old \in Int
  <2> DEFINE y == Scale * t - j * mean
             new == Online!SumOf(dev(adds, mean'))
             w == j * (q * q)
  <2>1. new = old - 2 * q * y + w
    <3>1. Online!SumOf(dev(adds, mean + q)) = old - 2 * q * y + w
      <4>1. adds \in Seq(Int) /\ Scale \in Int /\ mean \in Int
        BY <1>1, <1>2
      <4> QED BY <4>1, SumShift, Zenon
    <3> QED BY <1>7, <3>1
  <2>2. y = 0
    BY <1>1, <1>2
  <2>3. 2 * q * 0 = 0 /\ w \in Int
    BY <1>2
  <2>4. old \in Int
    <3>1. dev(adds, mean) \in Seq(Int)
      <4>1. \A i \in 1 .. Len(adds) : (Scale * adds[i] - mean) * (Scale * adds[i] - mean) \in Int
        BY <1>1, <1>2, ElementOfSeq
      <4> QED BY <1>2, <4>1
    <3> HIDE DEF dev
    <3> QED BY <3>1, SumAppend
  <2> HIDE DEF y, new, old, w
  <2>5. new = old + w
    BY <2>1, <2>2, <2>3, <2>4
  <2> QED BY <2>4, <2>5 DEF new, w
<1>13. Online!SumOf(dev(adds', mean')) = old + j * (q * q) + e * e
  <2>1. /\ Len(adds') = k /\ adds'[k] = x /\ \A i \in 1 .. j : adds'[i] = adds[i]
    BY <1>1, <1>2, AddKeeps
  <2> DEFINE a == dev(adds, mean')
  <2>2. a \in Seq(Int) /\ Len(a) = j /\ \A i \in 1 .. j : a[i] = (Scale * adds[i] - mean') * (Scale * adds[i] - mean')
    <3>1. mean' \in Int
      BY <1>1, <1>7
    <3>2. \A i \in 1 .. Len(adds) : (Scale * adds[i] - mean') * (Scale * adds[i] - mean') \in Int
      BY <1>1, <1>2, <3>1, ElementOfSeq
    <3> QED BY <1>2, <3>2
  <2>3. e * e \in Int
    BY <1>9
  <2>4. dev(adds', mean') = Append(a, e * e)
    <3> DEFINE b == dev(adds', mean')
    <3>1. b = [i \in 1 .. k |-> (Scale * adds'[i] - mean') * (Scale * adds'[i] - mean')]
      BY <2>1
    <3>2. ASSUME NEW i \in 1 .. k
          PROVE  (Scale * adds'[i] - mean') * (Scale * adds'[i] - mean') = IF i <= j THEN a[i] ELSE e * e
      <4>1. CASE i = k
        <5>1. Scale * adds'[i] - mean' = e
          BY <1>9, <2>1, <4>1
        <5> QED BY <1>2, <4>1, <5>1
      <4>2. CASE i # k
        <5>1. i \in 1 .. j /\ i <= j
          BY <1>2, <4>2
        <5> QED BY <2>1, <2>2, <5>1
      <4> QED BY <4>1, <4>2
    <3> HIDE DEF a, e
    <3>3. Append(a, e * e) = [i \in 1 .. k |-> IF i <= j THEN a[i] ELSE e * e]
      BY <1>2, <2>2, <2>3
    <3> QED BY <3>1, <3>2, <3>3
  <2> HIDE DEF a, e, dev
  <2>5. Online!SumOf(Append(a, e * e)) = Online!SumOf(a) + e * e
    BY <2>2, <2>3, SumAppend
  <2> QED BY <1>12, <2>4, <2>5 DEF a
<1>14. m2' \in Int /\ 0 <= m2' /\ m2' <= Scale * Online!SumOf(dev(adds', mean'))
  <2> HIDE DEF old, dev, c, j
  <2>1. LET f == j * q
            new == m2 + f * (Scale * f + c * f)
        IN  new \in Int /\ 0 <= new /\ new <= Scale * (old + j * (q * q) + f * f)
    BY <1>1, <1>2, <1>10, <1>12, SecondMomentLow, Zenon
  <2> QED BY <1>3, <1>11, <1>13, <2>1
<1>15. adds' \in Seq(Int) /\ n' = Len(adds') /\ n' <= MaxAdds /\ mean' \in Int
  BY <1>1, <1>2, <1>3, <1>4, <1>7
<1>16. mean' * n' = Scale * Online!SumOf(adds')
  BY <1>3, <1>8
<1> QED BY <1>14, <1>15, <1>16 DEF StatInv, Online!Total, Online!SquaredDeviations

(* Histograms: each bin counts its samples.                                *)
HistInv ==
    /\ adds \in Seq(Int) /\ n = Len(adds)
    /\ counts \in [0 .. Bins - 1 -> Int]
    /\ \A b \in 0 .. Bins - 1 : counts[b] = Cardinality({i \in 1 .. Len(adds) : Online!InBin(adds[i], b)})

\* Cardinality means the same inside the instance.
LEMMA OnlineCard == \A S : Online!Cardinality(S) = Cardinality(S)
  BY DEF Online!Cardinality, Cardinality

\* The histogram starts in its invariant, with empty bins.
LEMMA HistInit == Online!Init => HistInv
<1> SUFFICES ASSUME Online!Init PROVE HistInv
  OBVIOUS
<1>1. adds = <<>> /\ n = 0 /\ counts = [b \in 0 .. Bins - 1 |-> 0] /\ Len(adds) = 0
  BY DEF Online!Init
<1>2. \A b : {i \in 1 .. Len(adds) : Online!InBin(adds[i], b)} = {}
  BY <1>1
<1> QED BY <1>1, <1>2, FS_EmptySet DEF HistInv

\* A sample is in the bin that it is counted in, and in no other.
LEMMA OneBin ==
    ASSUME NEW x \in Int, x # Online!NaN
    PROVE  Online!Bin(x) \in 0 .. Bins - 1 /\ \A b \in 0 .. Bins - 1 : Online!InBin(x, b) <=> b = Online!Bin(x)
<1>1. Bins \in Nat \ {0}
  BY OnlineAssumption
<1>2. CASE x < 0
  BY <1>1, <1>2 DEF Online!Bin, Online!InBin
<1>3. CASE x > 100 * Bins - 1
  BY <1>1, <1>3 DEF Online!Bin, Online!InBin
<1>4. CASE x >= 0 /\ x <= 100 * Bins - 1
  <2> DEFINE d == x \div 100
  <2>1. d \in Int /\ 100 * d <= x /\ x < 100 * (d + 1)
    OBVIOUS
  <2>2. Online!Bin(x) = d
    BY <1>1, <1>4 DEF Online!Bin
  <2> HIDE DEF d
  <2>3. d \in 0 .. Bins - 1
    BY <1>1, <1>4, <2>1
  <2>4. ASSUME NEW b \in 0 .. Bins - 1 PROVE Online!InBin(x, b) <=> b = d
    <3>1. ASSUME b = d PROVE Online!InBin(x, b)
      BY <1>4, <2>1, <3>1 DEF Online!InBin
    <3>2. ASSUME b < d PROVE ~Online!InBin(x, b)
      <4>1. 100 * (b + 1) <= 100 * d /\ b # Bins - 1
        BY <1>1, <2>3, <3>2
      <4> QED BY <1>1, <2>1, <4>1 DEF Online!InBin
    <3>3. ASSUME b > d PROVE ~Online!InBin(x, b)
      <4>1. 100 * (d + 1) <= 100 * b /\ b # 0
        BY <1>1, <2>3, <3>3
      <4> QED BY <1>1, <2>1, <4>1 DEF Online!InBin
    <3> QED BY <1>1, <2>3, <3>1, <3>2, <3>3
  <2> QED BY <2>2, <2>3, <2>4
<1> QED BY <1>1, <1>2, <1>3, <1>4

\* Adding a point keeps each bin the number of the points in it.
LEMMA HistStep ==
    ASSUME HistInv, NEW x \in Points \cup {Online!NaN}, Online!HistAdd(x) PROVE HistInv'
<1> DEFINE j == Len(adds)
           In(b) == {i \in 1 .. j : Online!InBin(adds[i], b)}
<1>1. x \in Int /\ Bins \in Nat \ {0}
  BY OnlineAssumption DEF Online!NaN
<1>2. /\ adds' = Append(adds, x) /\ n' = n + 1
      /\ counts' = IF x # Online!NaN /\ Online!Bin(x) \in DOMAIN counts
                   THEN [counts EXCEPT ![Online!Bin(x)] = @ + 1] ELSE counts
  BY DEF Online!HistAdd, Online!Add
<1>3. /\ adds \in Seq(Int) /\ n = j /\ counts \in [0 .. Bins - 1 -> Int]
      /\ \A b \in 0 .. Bins - 1 : counts[b] = Cardinality(In(b))
  BY DEF HistInv
<1>4. /\ adds' \in Seq(Int) /\ j \in Nat /\ Len(adds') = j + 1
      /\ adds'[j + 1] = x /\ \A i \in 1 .. j : adds'[i] = adds[i]
  BY <1>1, <1>2, <1>3, AddKeeps
<1>5. ASSUME NEW b \in 0 .. Bins - 1
      PROVE  /\ IsFiniteSet(In(b)) /\ j + 1 \notin In(b)
             /\ {i \in 1 .. Len(adds') : Online!InBin(adds'[i], b)}
                = IF Online!InBin(x, b) THEN In(b) \cup {j + 1} ELSE In(b)
  <2>0. IsFiniteSet(1 .. j)
    BY <1>4, FS_Interval
  <2>1. IsFiniteSet(1 .. j) /\ In(b) \in SUBSET (1 .. j) /\ j + 1 \notin 1 .. j
    BY <1>4, <2>0
  <2>2. IsFiniteSet(In(b)) /\ j + 1 \notin In(b)
    BY <2>1, FS_Subset
  <2>3. \A i \in 1 .. j + 1 : i \in 1 .. j \/ i = j + 1
    BY <1>4
  <2>4. \A i \in 1 .. j : i \in 1 .. j + 1
    BY <1>4
  <2>5. j + 1 \in 1 .. j + 1
    BY <1>4
  <2> HIDE DEF j
  <2> QED BY <1>4, <2>2, <2>3, <2>4, <2>5
<1>6. ASSUME NEW b \in 0 .. Bins - 1
      PROVE  Cardinality({i \in 1 .. Len(adds') : Online!InBin(adds'[i], b)})
             = IF Online!InBin(x, b) THEN counts[b] + 1 ELSE counts[b]
  <2>1. Cardinality(In(b) \cup {j + 1}) = Cardinality(In(b)) + 1
    <3> HIDE DEF In, j
    <3> QED BY <1>5, FS_AddElement, Zenon
  <2> QED BY <1>3, <1>5, <2>1, Zenon
<1>7. /\ counts' \in [0 .. Bins - 1 -> Int]
      /\ \A b \in 0 .. Bins - 1 : counts'[b] = IF Online!InBin(x, b) THEN counts[b] + 1 ELSE counts[b]
  <2>1. CASE x = Online!NaN
    BY <1>2, <1>3, <2>1 DEF Online!InBin
  <2>2. CASE x # Online!NaN
    <3>1. /\ Online!Bin(x) \in 0 .. Bins - 1
          /\ \A b \in 0 .. Bins - 1 : Online!InBin(x, b) <=> b = Online!Bin(x)
      BY <1>1, <2>2, OneBin
    <3>2. counts' = [counts EXCEPT ![Online!Bin(x)] = @ + 1]
      BY <1>2, <1>3, <2>2, <3>1
    <3> QED BY <1>3, <3>1, <3>2
  <2> QED BY <2>1, <2>2
<1>8. n' = Len(adds')
  BY <1>2, <1>3, <1>4
<1> QED BY <1>4, <1>6, <1>7, <1>8, Zenon DEF HistInv

(* Windows: the entries are the last samples, and a mean in progress has   *)
(* read a size that the window has not fallen below.                       *)
Whole(r) ==
    /\ r = [pc |-> r.pc, n |-> r.n, at |-> r.at, out |-> r.out, keys |-> r.keys]
    /\ r.n \in Nat /\ r.at \in Nat

LastSamples ==
    /\ \E S : data \in Seq(S)
    /\ Len(data) <= WindowCap /\ Len(data) <= Len(adds)
    /\ \A i \in 1 .. Len(data) : data[i][2] = adds[Len(adds) - Len(data) + i]

MeanRead(r) ==
    LET out == r.out IN
    /\ out[2] \in Nat /\ out[3] \in Nat /\ out[4] \in Nat
    /\ out[2] <= out[3] /\ out[3] <= WindowCap /\ out[3] <= out[4] /\ out[4] <= Len(adds)
    /\ out[1] = Online!SumOf([i \in 1 .. out[3] |-> adds[out[4] - out[3] + i]])

WindowInv ==
    /\ adds \in Seq(Int) /\ LastSamples
    /\ Whole(reader)
    /\ reader.pc = "sum" => reader.n <= Len(data)
    /\ reader.out # <<>> => MeanRead(reader)

\* A reader that has not begun holds nothing.
LEMMA IdleReader == Whole(Online!Idle) /\ Online!Idle.out = <<>> /\ Online!Idle.pc = "idle" /\ Online!Idle.at = 0
<1>1. Online!Idle = [pc |-> "idle", n |-> 0, at |-> 0, out |-> <<>>, keys |-> {}]
  BY DEF Online!Idle
<1> QED BY <1>1 DEF Whole

\* The window starts in its invariant, empty.
LEMMA WindowInit == Online!Init => WindowInv
<1> SUFFICES ASSUME Online!Init PROVE WindowInv
  OBVIOUS
<1>1. adds = <<>> /\ data = <<>> /\ reader = Online!Idle /\ WindowCap \in Nat
  BY OnlineAssumption DEF Online!Init
<1>2. <<>> \in Seq(Int) /\ Len(<<>>) = 0
  OBVIOUS
<1>3. LastSamples
  BY <1>1, <1>2 DEF LastSamples
<1> QED BY <1>1, <1>2, <1>3, IdleReader DEF WindowInv

\* A push keeps the window the last samples, in order.
LEMMA PushStep ==
    ASSUME WindowInv, NEW x \in Samples, Online!Push(x) PROVE WindowInv'
<1> DEFINE j == Len(adds)
           l == Len(data)
           new == <<Len(adds'), x>>
           g == Append(data, new)
<1>1. x \in Int /\ WindowCap \in Nat \ {0}
  BY OnlineAssumption
<1>2. adds' = Append(adds, x) /\ data' = Online!Trimmed(g) /\ reader' = reader
  BY DEF Online!Push, Online!Add
<1>3. /\ adds' \in Seq(Int) /\ j \in Nat /\ Len(adds') = j + 1
      /\ adds'[j + 1] = x /\ \A i \in 1 .. j : adds'[i] = adds[i]
  BY <1>1, <1>2, AddKeeps DEF WindowInv
<1>4. PICK S : data \in Seq(S)
  BY DEF WindowInv, LastSamples
<1>5. /\ l \in Nat /\ l <= WindowCap /\ l <= j /\ \A i \in 1 .. l : data[i][2] = adds[j - l + i]
  BY <1>4 DEF WindowInv, LastSamples
<1> DEFINE U == S \cup {new}
<1>6. /\ g \in Seq(U) /\ Len(g) = l + 1 /\ g[l + 1] = new
      /\ \A i \in 1 .. l : g[i] = data[i]
  <2>1. data \in Seq(U) /\ new \in U
    BY <1>4, WiderSeq
  <2> HIDE DEF U, new
  <2> QED BY <2>1, AppendProperties
<1>7. new[2] = x
  OBVIOUS
<1> HIDE DEF g, U, new, j, l
<1>8. \A i \in 1 .. l + 1 : g[i][2] = adds'[j - l + i]
  <2> TAKE i \in 1 .. l + 1
  <2>1. CASE i = l + 1
    BY <1>3, <1>5, <1>6, <1>7, <2>1
  <2>2. CASE i # l + 1
    <3>1. i \in 1 .. l /\ j - l + i \in 1 .. j
      BY <1>3, <1>5, <2>2, SMTT(60)
    <3> QED BY <1>3, <1>5, <1>6, <3>1, Zenon
  <2> QED BY <2>1, <2>2
<1>9. LastSamples' /\ l <= Len(data')
  <2>1. CASE ~(Len(g) > WindowCap)
    <3>1. data' = g
      BY <1>2, <2>1 DEF Online!Trimmed
    <3>2. \A i \in 1 .. Len(data') : data'[i][2] = adds'[Len(adds') - Len(data') + i]
      <4>0. Len(adds') = j + 1 /\ Len(data') = l + 1 /\ j \in Nat /\ l \in Nat
        BY <1>3, <1>5, <1>6, <3>1
      <4>1. Len(adds') - Len(data') = j - l /\ Len(data') = l + 1
        BY <4>0
      <4> QED BY <1>8, <3>1, <4>1
    <3>3. Len(data') <= WindowCap /\ Len(data') <= Len(adds') /\ l <= Len(data')
      BY <1>1, <1>3, <1>5, <1>6, <2>1, <3>1
    <3> QED BY <1>6, <3>1, <3>2, <3>3 DEF LastSamples
  <2>2. CASE Len(g) > WindowCap
    <3>1. data' = Tail(g) /\ g # <<>>
      BY <1>2, <1>5, <1>6, <2>2 DEF Online!Trimmed
    <3>2. /\ Tail(g) \in Seq(U) /\ Len(Tail(g)) = l
          /\ \A i \in 1 .. l : Tail(g)[i] = g[i + 1]
      BY <1>5, <1>6, <3>1, HeadTailProperties
    <3>3. \A i \in 1 .. Len(data') : data'[i][2] = adds'[Len(adds') - Len(data') + i]
      <4>0. Len(adds') = j + 1 /\ Len(data') = l
        BY <1>3, <3>1, <3>2
      <4>1. ASSUME NEW i \in 1 .. l PROVE Tail(g)[i][2] = adds'[j + 1 - l + i]
        <5>1. i + 1 \in 1 .. l + 1 /\ j - l + (i + 1) = j + 1 - l + i
          BY <1>3, <1>5
        <5> QED BY <1>8, <3>2, <5>1
      <4> TAKE i \in 1 .. Len(data')
      <4>2. i \in 1 .. l
        BY <4>0
      <4>3. data'[i] = Tail(g)[i]
        BY <3>1
      <4>4. Len(adds') - Len(data') + i = j + 1 - l + i
        BY <1>3, <1>5, <4>0
      <4> QED BY <4>1, <4>2, <4>3, <4>4, Zenon
    <3>4. Len(data') <= WindowCap /\ Len(data') <= Len(adds') /\ l <= Len(data')
      BY <1>1, <1>3, <1>5, <3>1, <3>2
    <3> QED BY <3>1, <3>2, <3>3, <3>4 DEF LastSamples
  <2> QED BY <2>1, <2>2
<1>10. reader.pc = "sum" => reader'.n <= Len(data')
  <2>1. reader.n \in Nat /\ (reader.pc = "sum" => reader.n <= l)
    BY DEF WindowInv, Whole, l
  <2>2. Len(data') \in Nat
    BY <1>9 DEF LastSamples
  <2> QED BY <1>2, <1>5, <1>9, <2>1, <2>2
<1>11. reader.out # <<>> => MeanRead(reader)'
  <2> SUFFICES ASSUME reader.out # <<>> PROVE MeanRead(reader)'
    OBVIOUS
  <2> DEFINE out == reader.out
  <2>1. /\ out[2] \in Nat /\ out[3] \in Nat /\ out[4] \in Nat
        /\ out[2] <= out[3] /\ out[3] <= WindowCap /\ out[3] <= out[4] /\ out[4] <= j
        /\ out[1] = Online!SumOf([i \in 1 .. out[3] |-> adds[out[4] - out[3] + i]])
    BY DEF WindowInv, MeanRead, j
  <2>2. \A i \in 1 .. out[3] : adds'[out[4] - out[3] + i] = adds[out[4] - out[3] + i]
    <3> TAKE i \in 1 .. out[3]
    <3> DEFINE a == out[3]
               b == out[4]
    <3>0. a \in Nat /\ b \in Nat /\ a <= b /\ b <= j /\ j \in Nat /\ i \in 1 .. a
      BY <1>3, <2>1
    <3> HIDE DEF a, b
    <3>1. b - a + i \in 1 .. j
      BY <3>0
    <3>2. adds'[b - a + i] = adds[b - a + i]
      BY <1>3, <3>1
    <3> QED BY <3>2 DEF a, b
  <2>3. [i \in 1 .. out[3] |-> adds'[out[4] - out[3] + i]] = [i \in 1 .. out[3] |-> adds[out[4] - out[3] + i]]
    BY <2>2
  <2>4. out[4] <= Len(adds')
    BY <1>3, <2>1
  <2> QED BY <1>2, <2>1, <2>3, <2>4, Zenon DEF MeanRead
<1> QED BY <1>2, <1>3, <1>9, <1>10, <1>11 DEF WindowInv

\* Each step on the window, a scan included, keeps its invariant.
LEMMA WindowStep ==
    ASSUME WindowInv, Online!MeanSize \/ Online!MeanSum PROVE WindowInv'
<1>0. /\ reader = [pc |-> reader.pc, n |-> reader.n, at |-> reader.at, out |-> reader.out, keys |-> reader.keys]
      /\ reader.n \in Nat /\ reader.at \in Nat
  BY DEF WindowInv, Whole
<1>1. adds' = adds /\ data' = data
  BY DEF Online!MeanSize, Online!MeanSum
<1>2. adds' \in Seq(Int) /\ LastSamples'
  BY <1>1, Zenon DEF WindowInv, LastSamples
<1>3. PICK S : data \in Seq(S)
  BY DEF WindowInv, LastSamples
<1>4. /\ Len(data) \in Nat /\ Len(adds) \in Nat /\ WindowCap \in Nat
      /\ Len(data) <= WindowCap /\ Len(data) <= Len(adds)
      /\ \A i \in 1 .. Len(data) : data[i][2] = adds[Len(adds) - Len(data) + i]
  BY <1>3, OnlineAssumption DEF WindowInv, LastSamples
<1>5. CASE Online!MeanSize
  <2>1. reader' = [Online!Idle EXCEPT !.pc = "sum", !.n = Len(data)]
    BY <1>5 DEF Online!MeanSize
  <2>2. reader' = [pc |-> "sum", n |-> Len(data), at |-> 0, out |-> <<>>, keys |-> {}]
    BY <2>1, Zenon DEF Online!Idle
  <2>3. reader'.out = <<>>
    BY <2>2
  <2>4. Whole(reader')
    BY <1>4, <2>2 DEF Whole
  <2>5. reader'.n <= Len(data')
    BY <1>1, <1>4, <2>2
  <2> QED BY <1>2, <2>3, <2>4, <2>5 DEF WindowInv
<1>6. CASE Online!MeanSum
  <2> DEFINE out == <<Online!WindowSum, reader.n, Len(data), Len(adds)>>
  <2>1. reader.pc = "sum" /\ reader' = [reader EXCEPT !.pc = "idle", !.out = out]
    BY <1>6 DEF Online!MeanSum
  <2>2. reader' = [pc |-> "idle", n |-> reader.n, at |-> reader.at, out |-> out, keys |-> reader.keys]
    BY <1>0, <2>1, Zenon
  <2>3. reader.n \in Nat /\ reader.at \in Nat
    BY <1>0
  <2>4. Whole(reader')
    BY <2>2, <2>3 DEF Whole
  <2>5. reader.n \in Nat /\ reader.n <= Len(data)
    BY <1>0, <2>1 DEF WindowInv
  <2>6. Online!WindowSum = Online!SumOf([i \in 1 .. Len(data) |-> adds[Len(adds) - Len(data) + i]])
    <3>1. [i \in 1 .. Len(data) |-> data[i][2]] = [i \in 1 .. Len(data) |-> adds[Len(adds) - Len(data) + i]]
      BY <1>4
    <3> QED BY <3>1 DEF Online!WindowSum
  <2>7. /\ reader'.out[1] = Online!WindowSum /\ reader'.out[2] = reader.n
        /\ reader'.out[3] = Len(data) /\ reader'.out[4] = Len(adds) /\ reader'.pc = "idle"
    BY <2>2
  <2>8. MeanRead(reader)'
    BY <1>1, <1>4, <2>5, <2>6, <2>7 DEF MeanRead
  <2> QED BY <1>2, <2>4, <2>7, <2>8 DEF WindowInv
<1> QED BY <1>5, <1>6

(* Journals: the numbers of the entries grow, and every entry behind the   *)
(* reader's index is newer than all that the reader has seen.              *)
Increasing == \A i, j \in 1 .. Len(data) : i < j => data[i][1] < data[j][1]
Numbered == \A j \in 1 .. Len(data) : data[j][1] \in Nat /\ data[j][1] <= Len(adds)
SeenForward ==
    LET out == reader.out IN
    /\ out \in Seq(Nat)
    /\ \A i \in 1 .. Len(out) : out[i] <= Len(adds)
    /\ \A i, j \in 1 .. Len(out) : i < j => out[i] < out[j]
    /\ \A i \in 1 .. Len(out), j \in 1 .. Len(data) : j > reader.at => out[i] < data[j][1]

JournalInv ==
    /\ adds \in Seq(Samples) /\ (\E S : data \in Seq(S))
    /\ Numbered /\ Increasing
    /\ Whole(reader) /\ SeenForward

\* The journal starts in its invariant, empty.
LEMMA JournalInit == Online!Init => JournalInv
<1> SUFFICES ASSUME Online!Init PROVE JournalInv
  OBVIOUS
<1>1. adds = <<>> /\ data = <<>> /\ reader = Online!Idle
  BY DEF Online!Init
<1>2. <<>> \in Seq(Samples) /\ Len(<<>>) = 0 /\ <<>> \in Seq(Nat)
  OBVIOUS
<1>3. Numbered /\ Increasing
  BY <1>1, <1>2 DEF Numbered, Increasing
<1>4. reader.out = <<>>
  BY <1>1, IdleReader
<1>5. SeenForward
  BY <1>2, <1>4 DEF SeenForward
<1> QED BY <1>1, <1>2, <1>3, <1>5, IdleReader DEF JournalInv

\* push_back and erase: the entries move up by d places.
LEMMA JournalMoves ==
    ASSUME NEW S, NEW s \in Seq(S), NEW e
    PROVE  LET new == Online!Journalled(s, e) IN
           /\ \E U : new \in Seq(U)
           /\ \E d \in {0, 1} :
                 /\ Len(new) = Len(s) + 1 - d /\ Len(new) \in Nat \ {0} /\ new[Len(new)] = e
                 /\ \A j \in 1 .. Len(new) - 1 : j + d \in 1 .. Len(s) /\ new[j] = s[j + d]
<1> DEFINE U == S \cup {e}
           l == Len(s)
<1>1. s \in Seq(U) /\ e \in U /\ WindowCap \in Nat \ {0} /\ l \in Nat
  BY WiderSeq, OnlineAssumption
<1> HIDE DEF U
<1>2. CASE l >= WindowCap
  <2> DEFINE r == Tail(s)
             new == Append(r, e)
  <2>1. Online!Journalled(s, e) = new
    BY <1>2 DEF Online!Journalled
  <2>2. s # <<>> /\ l >= 1
    BY <1>1, <1>2
  <2>3. r \in Seq(U) /\ Len(r) = l - 1 /\ \A j \in 1 .. l - 1 : r[j] = s[j + 1]
    BY <1>1, <2>2, HeadTailProperties
  <2> HIDE DEF r, l
  <2>4. new \in Seq(U) /\ Len(new) = l /\ new[l] = e /\ \A j \in 1 .. l - 1 : new[j] = r[j]
    <3>1. /\ new \in Seq(U) /\ Len(new) = Len(r) + 1 /\ new[Len(r) + 1] = e
          /\ \A j \in 1 .. Len(r) : new[j] = r[j]
      BY <1>1, <2>3, AppendProperties
    <3>2. Len(r) + 1 = l
      BY <1>1, <2>3
    <3> HIDE DEF new
    <3> QED BY <2>3, <3>1, <3>2
  <2> HIDE DEF new
  <2>5. \A j \in 1 .. l - 1 : j + 1 \in 1 .. l
    BY <1>1
  <2>6. l = l + 1 - 1
    BY <1>1
  <2> QED BY <1>1, <2>1, <2>2, <2>3, <2>4, <2>5, <2>6 DEF l
<1>3. CASE ~(l >= WindowCap)
  <2> DEFINE new == Append(s, e)
  <2>1. Online!Journalled(s, e) = new
    BY <1>3 DEF Online!Journalled
  <2>2. new \in Seq(U) /\ Len(new) = l + 1 /\ new[l + 1] = e /\ \A j \in 1 .. l : new[j] = s[j]
    BY <1>1, AppendProperties
  <2> HIDE DEF new, l
  <2>3. l + 1 - 0 = l + 1 /\ l + 1 \in Nat \ {0} /\ l + 1 - 1 = l
    BY <1>1
  <2>4. \A j \in 1 .. l : j + 0 = j
    BY <1>1
  <2>5. \A j \in 1 .. Len(new) - 1 : j + 0 \in 1 .. l /\ new[j] = s[j + 0]
    <3>1. Len(new) - 1 = l
      BY <1>1, <2>2
    <3> QED BY <2>2, <2>4, <3>1
  <2> QED BY <2>1, <2>2, <2>3, <2>5 DEF l
<1> QED BY <1>2, <1>3

\* Appending keeps the journal, and what a reader has of it, in order.
LEMMA JournalAppendStep ==
    ASSUME JournalInv, NEW x \in Samples, Online!JournalAppend(x) PROVE JournalInv'
<1> DEFINE m == Len(adds)
           e == <<Len(adds'), x>>
           out == reader.out
<1>1. adds' = Append(adds, x) /\ data' = Online!Journalled(data, e) /\ reader' = reader
  BY DEF Online!JournalAppend, Online!Add
<1>2. adds' \in Seq(Samples) /\ m \in Nat /\ Len(adds') = m + 1
  BY <1>1, AddKeeps DEF JournalInv
<1>3. PICK S : data \in Seq(S)
  BY DEF JournalInv
<1>4. e[1] = m + 1
  BY <1>2
<1>5. /\ \E U : data' \in Seq(U)
      /\ \E d \in {0, 1} :
                 /\ Len(data') = Len(data) + 1 - d /\ Len(data') \in Nat \ {0} /\ data'[Len(data')] = e
                 /\ \A j \in 1 .. Len(data') - 1 : j + d \in 1 .. Len(data) /\ data'[j] = data[j + d]
  <2> HIDE DEF e
  <2> DEFINE new == Online!Journalled(data, e)
  <2>1. /\ \E U : new \in Seq(U)
        /\ \E d \in {0, 1} :
                 /\ Len(new) = Len(data) + 1 - d /\ Len(new) \in Nat \ {0} /\ new[Len(new)] = e
                 /\ \A j \in 1 .. Len(new) - 1 : j + d \in 1 .. Len(data) /\ new[j] = data[j + d]
    BY <1>3, JournalMoves
  <2> HIDE DEF new
  <2> QED BY <1>1, <2>1, Zenon DEF new
<1>6. PICK d \in {0, 1} :
                 /\ Len(data') = Len(data) + 1 - d /\ Len(data') \in Nat \ {0} /\ data'[Len(data')] = e
                 /\ \A j \in 1 .. Len(data') - 1 : j + d \in 1 .. Len(data) /\ data'[j] = data[j + d]
  BY <1>5, Zenon
<1>7. /\ Numbered /\ Increasing /\ SeenForward /\ Whole(reader)
  BY DEF JournalInv
<1> HIDE DEF m, e
<1>8. ASSUME NEW j \in 1 .. Len(data')
      PROVE  /\ data'[j][1] \in Nat /\ data'[j][1] <= m + 1
             /\ j # Len(data') => /\ j + d \in 1 .. Len(data) /\ data'[j][1] = data[j + d][1]
                                  /\ data'[j][1] <= m
             /\ j = Len(data') => data'[j][1] = m + 1
  <2>1. CASE j = Len(data')
    BY <1>2, <1>4, <1>6, <2>1
  <2>2. CASE j # Len(data')
    <3>1. j \in 1 .. Len(data') - 1
      BY <1>6, <2>2
    <3>2. j + d \in 1 .. Len(data) /\ data'[j][1] = data[j + d][1]
      BY <1>6, <3>1
    <3>3. data[j + d][1] \in Nat /\ data[j + d][1] <= m
      BY <1>7, <3>2 DEF Numbered, m
    <3> QED BY <1>2, <2>2, <3>2, <3>3
  <2> QED BY <2>1, <2>2
<1>9. Numbered'
  BY <1>2, <1>8 DEF Numbered
<1>10. Increasing'
  <2> SUFFICES ASSUME NEW i \in 1 .. Len(data'), NEW j \in 1 .. Len(data'), i < j
               PROVE  data'[i][1] < data'[j][1]
    BY DEF Increasing
  <2>1. i # Len(data')
    BY <1>6
  <2>2. i + d \in 1 .. Len(data) /\ data'[i][1] = data[i + d][1] /\ data'[i][1] <= m /\ data'[i][1] \in Nat
    BY <1>8, <2>1
  <2>3. CASE j = Len(data')
    <3>1. data'[j][1] = m + 1
      BY <1>8, <2>3
    <3> QED BY <1>2, <2>2, <3>1
  <2>4. CASE j # Len(data')
    <3>1. j + d \in 1 .. Len(data) /\ data'[j][1] = data[j + d][1]
      BY <1>8, <2>4
    <3>2. i + d < j + d
      OBVIOUS
    <3>3. data[i + d][1] < data[j + d][1]
      BY <1>7, <2>2, <3>1, <3>2 DEF Increasing
    <3> QED BY <2>2, <3>1, <3>3
  <2> QED BY <2>3, <2>4
<1>11. SeenForward'
  <2>1. /\ out \in Seq(Nat) /\ \A i \in 1 .. Len(out) : out[i] <= m /\ out[i] \in Nat
        /\ \A i, j \in 1 .. Len(out) : i < j => out[i] < out[j]
        /\ \A i \in 1 .. Len(out), j \in 1 .. Len(data) : j > reader.at => out[i] < data[j][1]
    BY <1>7, ElementOfSeq DEF SeenForward, m
  <2>2. reader.at \in Nat
    BY <1>7 DEF Whole
  <2> HIDE DEF out
  <2>3. \A i \in 1 .. Len(out) : out[i] <= Len(adds')
    BY <1>2, <2>1
  <2>4. ASSUME NEW i \in 1 .. Len(out), NEW j \in 1 .. Len(data'), j > reader.at
        PROVE  out[i] < data'[j][1]
    <3>1. CASE j = Len(data')
      <4>1. data'[j][1] = m + 1
        BY <1>8, <3>1
      <4> QED BY <1>2, <2>1, <4>1
    <3>2. CASE j # Len(data')
      <4>1. j + d \in 1 .. Len(data) /\ data'[j][1] = data[j + d][1]
        BY <1>8, <3>2, Zenon
      <4>2. j + d > reader.at
        BY <2>2, <2>4
      <4> QED BY <2>1, <4>1, <4>2
    <3> QED BY <3>1, <3>2
  <2> QED BY <1>1, <2>1, <2>3, <2>4 DEF SeenForward, out
<1> QED BY <1>1, <1>2, <1>5, <1>7, <1>9, <1>10, <1>11 DEF JournalInv

\* Each step on the journal keeps its invariant.
LEMMA JournalStep ==
    ASSUME JournalInv, Online!JournalClear \/ Online!JournalSize \/ Online!JournalAt PROVE JournalInv'
<1> DEFINE out == reader.out
<1>0. /\ adds \in Seq(Samples) /\ Numbered /\ Increasing /\ Whole(reader)
      /\ out \in Seq(Nat) /\ \A i \in 1 .. Len(out) : out[i] <= Len(adds)
      /\ \A i, j \in 1 .. Len(out) : i < j => out[i] < out[j]
      /\ \A i \in 1 .. Len(out), j \in 1 .. Len(data) : j > reader.at => out[i] < data[j][1]
  BY DEF JournalInv, SeenForward
<1>1. adds' = adds
  BY DEF Online!JournalClear, Online!JournalSize, Online!JournalAt
<1>2. CASE Online!JournalClear
  <2>1. data' = <<>> /\ reader' = reader /\ <<>> \in Seq({}) /\ Len(<<>>) = 0
    BY <1>2 DEF Online!JournalClear
  <2>2. Numbered' /\ Increasing'
    BY <2>1 DEF Numbered, Increasing
  <2>3. SeenForward'
    BY <1>0, <1>1, <2>1 DEF SeenForward
  <2> QED BY <1>0, <1>1, <2>1, <2>2, <2>3 DEF JournalInv
<1>3. PICK S : data \in Seq(S)
  BY DEF JournalInv
<1>4. ASSUME data' = data PROVE Numbered' /\ Increasing' /\ \E U : data' \in Seq(U)
  BY <1>0, <1>1, <1>3, <1>4 DEF Numbered, Increasing
<1>5. CASE Online!JournalSize
  <2>1. data' = data /\ reader' = [Online!Idle EXCEPT !.pc = "scan", !.n = Len(data)]
    BY <1>5 DEF Online!JournalSize
  <2>2. reader' = [pc |-> "scan", n |-> Len(data), at |-> 0, out |-> <<>>, keys |-> {}]
    BY <2>1, Zenon DEF Online!Idle
  <2>2a. Len(data) \in Nat
    BY <1>3
  <2>3. Whole(reader')
    BY <2>2, <2>2a DEF Whole
  <2>4. SeenForward'
    <3>1. reader'.out = <<>> /\ <<>> \in Seq(Nat) /\ Len(<<>>) = 0
      BY <2>2
    <3> QED BY <3>1 DEF SeenForward
  <2> QED BY <1>0, <1>1, <1>4, <2>1, <2>3, <2>4 DEF JournalInv
<1>6. CASE Online!JournalAt
  <2>0. /\ reader = [pc |-> reader.pc, n |-> reader.n, at |-> reader.at, out |-> out, keys |-> reader.keys]
        /\ reader.n \in Nat /\ reader.at \in Nat
    BY <1>0 DEF Whole
  <2>1. data' = data
    BY <1>6 DEF Online!JournalAt
  <2>2. CASE reader.at = reader.n
    <3>1. reader' = [reader EXCEPT !.pc = "idle"]
      BY <1>6, <2>2 DEF Online!JournalAt
    <3>2. reader' = [pc |-> "idle", n |-> reader.n, at |-> reader.at, out |-> out, keys |-> reader.keys]
      BY <2>0, <3>1
    <3>3. Whole(reader') /\ reader'.at = reader.at /\ reader'.out = out
      BY <2>0, <3>2 DEF Whole
    <3>4. SeenForward'
      BY <1>0, <1>1, <2>1, <3>3, Zenon DEF SeenForward
    <3> QED BY <1>0, <1>1, <1>4, <2>1, <3>3, <3>4 DEF JournalInv
  <2>3. CASE reader.at # reader.n
    <3> DEFINE a == reader.at
               new == IF a < Len(data) THEN Append(out, data[a + 1][1]) ELSE out
    <3>1. reader' = [reader EXCEPT !.at = a + 1, !.out = new]
      BY <1>6, <2>3 DEF Online!JournalAt
    <3>2. reader' = [pc |-> reader.pc, n |-> reader.n, at |-> a + 1, out |-> new, keys |-> reader.keys]
      BY <2>0, <3>1, Zenon
    <3>3. Whole(reader') /\ reader'.at = a + 1 /\ reader'.out = new
      BY <2>0, <3>2 DEF Whole
    <3>4. a \in Nat /\ Len(data) \in Nat /\ Len(adds) \in Nat
      BY <1>0, <1>3, <2>0
    <3> HIDE DEF a, out
    <3>5. CASE ~(a < Len(data))
      <4>1. new = out
        BY <3>5
      <4>2. \A i \in 1 .. Len(out), j \in 1 .. Len(data) : j > a + 1 => out[i] < data[j][1]
        BY <3>4, <3>5
      <4>3. SeenForward'
        BY <1>0, <1>1, <2>1, <3>3, <4>1, <4>2 DEF SeenForward
      <4> QED BY <1>0, <1>1, <1>4, <2>1, <3>3, <4>3 DEF JournalInv
    <3>6. CASE a < Len(data)
      <4> DEFINE y == data[a + 1][1]
                 l == Len(out)
      <4>1. a + 1 \in 1 .. Len(data) /\ a + 1 > a
        BY <3>4, <3>6
      <4>2. y \in Nat /\ y <= Len(adds) /\ \A i \in 1 .. l : out[i] < y
        BY <1>0, <4>1 DEF Numbered, a
      <4>3. \A j \in 1 .. Len(data) : j > a + 1 => y < data[j][1] /\ data[j][1] \in Nat
        BY <1>0, <4>1 DEF Numbered, Increasing
      <4> HIDE DEF y
      <4>4. new = Append(out, y)
        BY <3>6 DEF y
      <4> HIDE DEF new
      <4>5. /\ new \in Seq(Nat) /\ Len(new) = l + 1 /\ l \in Nat /\ new[l + 1] = y
            /\ \A i \in 1 .. l : new[i] = out[i] /\ out[i] \in Nat
        BY <1>0, <4>2, <4>4, AppendProperties, ElementOfSeq, LenProperties
      <4> HIDE DEF l
      <4>6. ASSUME NEW i \in 1 .. l + 1
            PROVE  /\ new[i] \in Nat /\ new[i] <= y
                   /\ i \in 1 .. l => new[i] = out[i] /\ new[i] < y
        <5>1. i \in 1 .. l \/ i = l + 1
          BY <4>5
        <5>2. i \in 1 .. l => new[i] = out[i] /\ out[i] \in Nat /\ out[i] < y
          BY <4>2, <4>5
        <5>3. i = l + 1 => ~(i \in 1 .. l)
          BY <4>5
        <5> QED BY <4>2, <4>5, <5>1, <5>2, <5>3
      <4>7. \A i \in 1 .. Len(new) : new[i] <= Len(adds)
        BY <3>4, <4>2, <4>5, <4>6
      <4>8. ASSUME NEW i \in 1 .. Len(new), NEW j \in 1 .. Len(new), i < j PROVE new[i] < new[j]
        <5>1. i \in 1 .. l
          BY <4>5, <4>8
        <5>2. CASE j = l + 1
          BY <4>5, <4>6, <5>1, <5>2
        <5>3. CASE j # l + 1
          <6>1. j \in 1 .. l
            BY <4>5, <5>3
          <6>2. out[i] < out[j]
            BY <1>0, <4>8, <5>1, <6>1 DEF l
          <6> QED BY <4>5, <5>1, <6>1, <6>2
        <5> QED BY <5>2, <5>3
      <4>9. ASSUME NEW i \in 1 .. Len(new), NEW j \in 1 .. Len(data), j > a + 1 PROVE new[i] < data[j][1]
        <5>1. new[i] \in Nat /\ new[i] <= y
          BY <4>5, <4>6
        <5> QED BY <4>2, <4>3, <4>9, <5>1
      <4>10. SeenForward'
        BY <1>1, <2>1, <3>3, <4>5, <4>7, <4>8, <4>9 DEF SeenForward
      <4> QED BY <1>0, <1>1, <1>4, <2>1, <3>3, <4>10 DEF JournalInv
    <3> QED BY <3>5, <3>6
  <2> QED BY <2>2, <2>3
<1> QED BY <1>2, <1>5, <1>6

(* Stores: a value is the last one put, and a listed key that is gone was  *)
(* cleared since.                                                          *)
Puts(s, k, m) == {0} \cup {i \in 1 .. m : s[i] = k}
Last(s, k, m) == Online!Max(Puts(s, k, m))

StoreInv ==
    /\ adds \in Seq(StoreKeys)
    /\ \A k \in DOMAIN store : store[k] = Last(adds, k, Len(adds))
    /\ Whole(reader)
    /\ reader.pc = "get" /\ ~cleared => reader.keys \subseteq DOMAIN store
    /\ reader.out # <<>> =>
        LET out == reader.out IN
        /\ out[3] \in Nat /\ out[3] <= Len(adds)
        /\ out[2] = Last(adds, out[1], out[3]) \/ (out[2] = 0 /\ cleared)

\* The last put of a key among the first m ones.
LEMMA LastPutIs == \A k, m : Online!LastPut(k, m) = Last(adds, k, m)
  BY DEF Online!LastPut, Last, Puts

\* The store starts in its invariant, empty.
LEMMA StoreInit == Online!Init => StoreInv
<1> SUFFICES ASSUME Online!Init PROVE StoreInv
  OBVIOUS
<1>1. adds = <<>> /\ store = [k \in {} |-> 0] /\ reader = Online!Idle
  BY DEF Online!Init
<1>2. DOMAIN store = {} /\ <<>> \in Seq(StoreKeys)
  BY <1>1
<1> QED BY <1>1, <1>2, IdleReader DEF StoreInv

\* A put keeps every key at its last put.
LEMMA PutStep ==
    ASSUME StoreInv, NEW k \in StoreKeys, Online!Put(k) PROVE StoreInv'
<1> DEFINE m == Len(adds)
           out == reader.out
<1>1. adds' = Append(adds, k) /\ store' = Online!Assigned(k, Len(adds')) /\ reader' = reader /\ cleared' = cleared
  BY DEF Online!Put, Online!Add
<1>2. /\ adds' \in Seq(StoreKeys) /\ m \in Nat /\ Len(adds') = m + 1
      /\ adds'[m + 1] = k /\ \A i \in 1 .. m : adds'[i] = adds[i]
  BY <1>1, AddKeeps DEF StoreInv
<1> HIDE DEF m
<1>3. ASSUME NEW j, NEW a \in 0 .. m PROVE Last(adds', j, a) = Last(adds, j, a)
  <2>1. \A i \in 1 .. a : i \in 1 .. m
    BY <1>2
  <2>2. Puts(adds', j, a) = Puts(adds, j, a)
    BY <1>2, <2>1 DEF Puts
  <2> QED BY <2>2 DEF Last
<1>4. Last(adds', k, m + 1) = m + 1
  <2> DEFINE P == Puts(adds', k, m + 1)
  <2>1. m + 1 \in P
    <3>1. m + 1 \in 1 .. m + 1
      BY <1>2
    <3> QED BY <1>2, <3>1 DEF Puts
  <2>2. \A y \in P : y \in Int /\ m + 1 >= y
    BY <1>2 DEF Puts
  <2> HIDE DEF P
  <2>3. \A y \in P : (\A z \in P : y >= z) => y = m + 1
    BY <1>2, <2>1, <2>2
  <2>4. Online!Max(P) = m + 1
    BY <2>1, <2>2, <2>3 DEF Online!Max
  <2> QED BY <2>4 DEF Last, P
<1>5. ASSUME NEW j, j # k PROVE Last(adds', j, m + 1) = Last(adds, j, m)
  <2>1. \A i \in 1 .. m + 1 : i \in 1 .. m \/ i = m + 1
    BY <1>2
  <2>2. \A i \in 1 .. m : i \in 1 .. m + 1
    BY <1>2
  <2>3. Puts(adds', j, m + 1) = Puts(adds, j, m)
    BY <1>2, <1>5, <2>1, <2>2 DEF Puts
  <2> QED BY <2>3 DEF Last
<1>6. DOMAIN store' = DOMAIN store \cup {k}
  BY <1>1 DEF Online!Assigned
<1>7. ASSUME NEW j \in DOMAIN store' PROVE store'[j] = Last(adds', j, Len(adds'))
  <2>1. CASE j = k
    <3>1. store'[j] = m + 1
      BY <1>1, <1>2, <2>1 DEF Online!Assigned
    <3> QED BY <1>2, <1>4, <2>1, <3>1
  <2>2. CASE j # k
    <3>1. j \in DOMAIN store /\ store'[j] = store[j]
      BY <1>1, <1>6, <1>7, <2>2 DEF Online!Assigned
    <3>2. store[j] = Last(adds, j, m)
      BY <3>1 DEF StoreInv, m
    <3> QED BY <1>2, <1>5, <2>2, <3>1, <3>2
  <2> QED BY <2>1, <2>2
<1>8. reader.pc = "get" /\ ~cleared => reader.keys \subseteq DOMAIN store'
  BY <1>6 DEF StoreInv
<1>9. ASSUME out # <<>>
      PROVE  /\ out[3] \in Nat /\ out[3] <= Len(adds')
             /\ out[2] = Last(adds', out[1], out[3]) \/ (out[2] = 0 /\ cleared)
  <2>1. /\ out[3] \in Nat /\ out[3] <= m
        /\ out[2] = Last(adds, out[1], out[3]) \/ (out[2] = 0 /\ cleared)
    BY <1>9 DEF StoreInv, m
  <2> HIDE DEF out
  <2>2. out[3] \in 0 .. m /\ out[3] <= Len(adds')
    BY <1>2, <2>1
  <2> QED BY <1>3, <2>1, <2>2
<1>10. Whole(reader')
  BY <1>1 DEF StoreInv
<1> QED BY <1>1, <1>2, <1>7, <1>8, <1>9, <1>10 DEF StoreInv

\* Reading, listing and clearing keep the invariant of the store.
LEMMA StoreReadStep ==
    ASSUME StoreInv, \/ \E k \in StoreKeys : Online!Get(k)
                     \/ Online!StoreClear \/ Online!ListKeys \/ Online!NoKeys
    PROVE  StoreInv'
<1>0. /\ reader = [pc |-> reader.pc, n |-> reader.n, at |-> reader.at, out |-> reader.out, keys |-> reader.keys]
      /\ reader.n \in Nat /\ reader.at \in Nat
  BY DEF StoreInv, Whole
<1>1. CASE Online!StoreClear
  <2>1. adds' = adds /\ DOMAIN store' = {} /\ cleared' = TRUE /\ reader' = reader
    BY <1>1 DEF Online!StoreClear
  <2> QED BY <2>1 DEF StoreInv
<1>2. CASE Online!ListKeys
  <2>1. adds' = adds /\ store' = store /\ cleared' = FALSE
        /\ reader' = [Online!Idle EXCEPT !.pc = "get", !.keys = DOMAIN store]
    BY <1>2 DEF Online!ListKeys
  <2>2. reader' = [pc |-> "get", n |-> 0, at |-> 0, out |-> <<>>, keys |-> DOMAIN store]
    BY <2>1, Zenon DEF Online!Idle
  <2>3. Whole(reader') /\ reader'.out = <<>> /\ reader'.keys = DOMAIN store
    BY <2>2 DEF Whole
  <2> QED BY <2>1, <2>3 DEF StoreInv
<1>3. CASE Online!NoKeys
  <2>1. adds' = adds /\ store' = store /\ cleared' = cleared /\ reader' = Online!Idle
    BY <1>3 DEF Online!NoKeys
  <2> QED BY <2>1, IdleReader DEF StoreInv
<1>4. ASSUME NEW k \in StoreKeys, Online!Get(k) PROVE StoreInv'
  <2> DEFINE v == IF k \in DOMAIN store THEN store[k] ELSE 0
             out == <<k, v, Len(adds)>>
             pc == IF reader.keys = {k} THEN "idle" ELSE "get"
  <2>1. /\ reader.pc = "get" /\ k \in reader.keys
        /\ adds' = adds /\ store' = store /\ cleared' = cleared
        /\ reader' = [reader EXCEPT !.keys = reader.keys \ {k}, !.pc = pc, !.out = out]
    BY <1>4, Zenon DEF Online!Get
  <2>2. reader' = [pc |-> pc, n |-> reader.n, at |-> reader.at, out |-> out, keys |-> reader.keys \ {k}]
    BY <1>0, <2>1, Zenon
  <2>3. /\ Whole(reader') /\ reader'.keys = reader.keys \ {k} /\ reader'.out = out
    BY <1>0, <2>2 DEF Whole
  <2>4. out[1] = k /\ out[2] = v /\ out[3] = Len(adds) /\ Len(adds) \in Nat
    BY DEF StoreInv
  <2>5. v = Last(adds, k, Len(adds)) \/ (v = 0 /\ cleared)
    BY <2>1 DEF StoreInv
  <2> HIDE DEF v, pc, out
  <2>6. ~cleared' => reader'.keys \subseteq DOMAIN store'
    BY <2>1, <2>3 DEF StoreInv
  <2> QED BY <2>1, <2>3, <2>4, <2>5, <2>6 DEF StoreInv
<1> QED BY <1>1, <1>2, <1>3, <1>4

-----------------------------------------------------------------------------
(***************************************************************************)
(* The families together.                                                  *)
(***************************************************************************)
OnlineInv ==
    /\ family = "window" => WindowInv
    /\ family = "journal" => JournalInv
    /\ family = "store" => StoreInv
    /\ family = "hist" => HistInv
    /\ family = "stat" => StatInv

(* Whatever is added, cleared and read between two locks of a reader, each *)
(* family keeps its promise: a mean of a full window is that of its last   *)
(* samples, a scan goes forward, a read is current, every bin counts its   *)
(* samples, and the running mean is exact while the running m2_ is never   *)
(* above the sum of squared deviations (prediction/online).                *)
THEOREM StatisticsSound == Online!Spec => []FamiliesSound
<1>1. Online!Init => OnlineInv
  BY WindowInit, JournalInit, StoreInit, HistInit, StatInit DEF OnlineInv
<1>2. OnlineInv /\ [Online!Next]_(Online!vars) => OnlineInv'
  <2> SUFFICES ASSUME OnlineInv, [Online!Next]_(Online!vars) PROVE OnlineInv'
    OBVIOUS
  <2>1. CASE Online!Next
    <3>1. /\ family' = family
          /\ family = "window" => (\E x \in Samples : Online!Push(x)) \/ Online!MeanSize \/ Online!MeanSum
          /\ family = "journal" => \/ \E x \in Samples : Online!JournalAppend(x)
                                   \/ Online!JournalClear \/ Online!JournalSize \/ Online!JournalAt
          /\ family = "store" => \/ \E k \in StoreKeys : Online!Put(k) \/ Online!Get(k)
                                 \/ Online!StoreClear \/ Online!ListKeys \/ Online!NoKeys
          /\ family = "hist" => \E x \in Points \cup {Online!NaN} : Online!HistAdd(x)
          /\ family = "stat" => \E x \in Samples : Online!StatAdd(x)
      BY <2>1, FamilySteps
    <3>2. CASE family = "window"
      BY <3>1, <3>2, PushStep, WindowStep DEF OnlineInv
    <3>3. CASE family = "journal"
      BY <3>1, <3>3, JournalAppendStep, JournalStep DEF OnlineInv
    <3>4. CASE family = "store"
      BY <3>1, <3>4, PutStep, StoreReadStep DEF OnlineInv
    <3>5. CASE family = "hist"
      BY <3>1, <3>5, HistStep DEF OnlineInv
    <3>6. CASE family = "stat"
      BY <3>1, <3>6, StatStep DEF OnlineInv
    <3> QED BY <3>1, <3>2, <3>3, <3>4, <3>5, <3>6 DEF OnlineInv
  <2>2. CASE UNCHANGED Online!vars
    <3>1. UNCHANGED <<family, adds, data, store, counts, n, mean, m2, reader, cleared>>
      BY <2>2 DEF Online!vars
    <3>2. WindowInv' <=> WindowInv
      BY <3>1 DEF WindowInv, LastSamples, MeanRead
    <3>3. JournalInv' <=> JournalInv
      BY <3>1 DEF JournalInv, Numbered, Increasing, SeenForward
    <3>4. StoreInv' <=> StoreInv
      BY <3>1 DEF StoreInv
    <3>5. HistInv' <=> HistInv
      BY <3>1 DEF HistInv
    <3>6. StatInv' <=> StatInv
      BY <3>1 DEF StatInv, Online!Total, Online!SquaredDeviations
    <3> QED BY <3>1, <3>2, <3>3, <3>4, <3>5, <3>6 DEF OnlineInv
  <2> QED BY <2>1, <2>2
<1>3. OnlineInv => FamiliesSound
  <2> SUFFICES ASSUME OnlineInv
               PROVE  /\ Online!MeanExactWhenFull /\ Online!ScanForward /\ Online!ReadIsCurrent
                      /\ Online!BinsAddUp /\ Online!MeanExactVarianceLow
    BY DEF FamiliesSound, Online!FamiliesSound
  <2>1. Online!MeanExactWhenFull
    <3> SUFFICES ASSUME family = "window", reader.out # <<>>
                 PROVE  LET size == reader.out[3]
                            at == reader.out[4]
                        IN  /\ reader.out[1] = Online!SumOf([i \in 1 .. size |-> adds[at - size + i]])
                            /\ reader.out[2] = WindowCap => size = WindowCap
                            /\ reader.out[2] <= size
      BY DEF Online!MeanExactWhenFull
    <3>1. MeanRead(reader) /\ WindowCap \in Nat
      BY OnlineAssumption DEF OnlineInv, WindowInv
    <3> QED BY <3>1 DEF MeanRead
  <2>2. Online!ScanForward
    BY DEF OnlineInv, JournalInv, SeenForward, Online!ScanForward
  <2>3. Online!ReadIsCurrent
    BY LastPutIs DEF OnlineInv, StoreInv, Online!ReadIsCurrent
  <2>4. Online!BinsAddUp
    BY OnlineCard DEF OnlineInv, HistInv, Online!BinsAddUp
  <2>5. Online!MeanExactVarianceLow
    BY DEF OnlineInv, StatInv, Online!MeanExactVarianceLow
  <2> QED BY <2>1, <2>2, <2>3, <2>4, <2>5
<1> QED BY <1>1, <1>2, <1>3, PTL DEF Online!Spec
-----------------------------------------------------------------------------
(***************************************************************************)
(* The frame codec: numbers and their digits.                              *)
(***************************************************************************)

\* f shifts m right by up to k digits.
ShiftsUpTo(f, m, r, k) ==
    f \in [0 .. k -> Nat] /\ f[0] = m /\ \A i \in 1 .. k : f[i] = f[i - 1] \div r

\* Division with remainder of natural numbers.
LEMMA DivNat ==
    ASSUME NEW m \in Nat, NEW r \in Nat \ {0}
    PROVE  m \div r \in Nat /\ m % r \in 0 .. r - 1 /\ m = r * (m \div r) + (m % r)
<1>1. m \div r \in Int /\ m % r \in 0 .. r - 1 /\ m = r * (m \div r) + (m % r)
  <2>1. \A a \in Int : a \div r \in Int /\ a % r \in 0 .. r - 1 /\ a = r * (a \div r) + (a % r)
    BY DivMod
  <2>2. m \in Int
    OBVIOUS
  <2> QED BY <2>1, <2>2, Zenon
<1> DEFINE q == m \div r
           s == m % r
<1>2. q >= 0
  <2> HIDE DEF q, s
  <2> SUFFICES ASSUME q <= -1 PROVE FALSE
    BY <1>1 DEF q
  <2>1. r * q <= r * (-1)
    BY <1>1 DEF q
  <2> QED BY <1>1, <2>1 DEF q, s
<1> QED BY <1>1, <1>2

\* Any number can be shifted any number of digits.
LEMMA ShiftsExist ==
    ASSUME NEW m \in Nat, NEW r \in Nat \ {0}
    PROVE  \A k \in Nat : \E f : ShiftsUpTo(f, m, r, k)
<1> DEFINE T == {k \in Nat : \E f : ShiftsUpTo(f, m, r, k)}
<1>1. 0 \in T
  <2>1. ShiftsUpTo([i \in 0 .. 0 |-> m], m, r, 0)
    BY DEF ShiftsUpTo
  <2> QED BY <2>1
<1>2. ASSUME NEW k \in Nat, k \in T PROVE k + 1 \in T
  <2>1. PICK f : ShiftsUpTo(f, m, r, k)
    BY <1>2
  <2> DEFINE g == [i \in 0 .. k + 1 |-> IF i = k + 1 THEN f[k] \div r ELSE f[i]]
  <2>2. f[k] \in Nat /\ f[k] \div r \in Nat
    <3>1. f[k] \in Nat
      BY <2>1 DEF ShiftsUpTo
    <3> QED BY <3>1, DivNat
  <2>3. g \in [0 .. k + 1 -> Nat] /\ g[0] = m
    BY <2>1, <2>2 DEF ShiftsUpTo
  <2>4. ASSUME NEW i \in 1 .. k + 1 PROVE g[i] = g[i - 1] \div r
    <3>1. CASE i = k + 1
      <4>1. g[i] = f[k] \div r /\ g[i - 1] = f[k]
        BY <3>1
      <4> QED BY <4>1
    <3>2. CASE i # k + 1
      <4>1. i \in 1 .. k /\ i - 1 \in 0 .. k + 1 /\ i - 1 # k + 1 /\ i \in 0 .. k + 1
        BY <3>2
      <4>2. g[i] = f[i] /\ g[i - 1] = f[i - 1]
        BY <4>1
      <4> QED BY <2>1, <4>1, <4>2 DEF ShiftsUpTo
    <3> QED BY <3>1, <3>2
  <2> HIDE DEF g
  <2>5. ShiftsUpTo(g, m, r, k + 1)
    BY <2>3, <2>4 DEF ShiftsUpTo
  <2> QED BY <2>5
<1>3. Nat \subseteq T
  <2> HIDE DEF T
  <2> QED BY <1>1, <1>2, SetInduction
<1> QED BY <1>3

\* Two such functions agree as far as both go.
LEMMA ShiftsAgree ==
    ASSUME NEW m \in Nat, NEW r \in Nat \ {0}, NEW k \in Nat, NEW l \in Nat, k <= l, NEW f, NEW g,
           ShiftsUpTo(f, m, r, k), ShiftsUpTo(g, m, r, l)
    PROVE  \A i \in 0 .. k : f[i] = g[i]
<1> DEFINE T == {i \in Nat : i <= k => f[i] = g[i]}
<1>1. 0 \in T
  BY DEF ShiftsUpTo
<1>2. ASSUME NEW i \in Nat, i \in T PROVE i + 1 \in T
  <2> SUFFICES ASSUME i + 1 <= k PROVE f[i + 1] = g[i + 1]
    OBVIOUS
  <2>1. f[i] = g[i] /\ i + 1 \in 1 .. k /\ i + 1 \in 1 .. l /\ (i + 1) - 1 = i
    BY <1>2
  <2>2. f[i + 1] = f[(i + 1) - 1] \div r /\ g[i + 1] = g[(i + 1) - 1] \div r
    BY <2>1 DEF ShiftsUpTo
  <2> QED BY <2>1, <2>2
<1>3. Nat \subseteq T
  <2> HIDE DEF T
  <2> QED BY <1>1, <1>2, SetInduction
<1> QED BY <1>3

\* Shifted is what its definition says.
LEMMA ShiftedIs ==
    ASSUME NEW m \in Nat, NEW r \in Nat \ {0}
    PROVE  LET f == Codec!Shifted(m, r) IN
           /\ f[0] = m
           /\ \A i \in Nat : f[i] \in Nat /\ f[i + 1] = f[i] \div r
<1> DEFINE E(f) == [i \in Nat |-> IF i = 0 THEN m ELSE f[i - 1] \div r]
           G(k) == CHOOSE f : ShiftsUpTo(f, m, r, k)
           w == [k \in Nat |-> G(k)[k]]
<1>1. \A k \in Nat : ShiftsUpTo(G(k), m, r, k)
  BY ShiftsExist
<1> HIDE DEF G
<1>2. w[0] = m
  BY <1>1 DEF ShiftsUpTo
<1>3. ASSUME NEW i \in Nat PROVE w[i] \in Nat /\ w[i + 1] = w[i] \div r
  <2>1. ShiftsUpTo(G(i), m, r, i) /\ ShiftsUpTo(G(i + 1), m, r, i + 1)
    BY <1>1
  <2>2. i <= i + 1 /\ i \in 0 .. i /\ i + 1 \in Nat /\ i + 1 \in 1 .. i + 1 /\ (i + 1) - 1 = i
    OBVIOUS
  <2>3. G(i)[i] = G(i + 1)[i]
    BY <2>1, <2>2, ShiftsAgree
  <2>4. G(i + 1)[i + 1] = G(i + 1)[(i + 1) - 1] \div r /\ G(i)[i] \in Nat
    BY <2>1, <2>2 DEF ShiftsUpTo
  <2> QED BY <2>2, <2>3, <2>4
<1>4. w = E(w)
  <2>1. \A i \in Nat : w[i] = IF i = 0 THEN m ELSE w[i - 1] \div r
    <3> TAKE i \in Nat
    <3>1. CASE i = 0
      BY <1>2, <3>1
    <3>2. CASE i # 0
      <4>1. i - 1 \in Nat /\ (i - 1) + 1 = i
        BY <3>2
      <4> QED BY <1>3, <3>2, <4>1, Zenon
    <3> QED BY <3>1, <3>2
  <2>2. w = [i \in Nat |-> w[i]]
    OBVIOUS
  <2> HIDE DEF w
  <2> QED BY <2>1, <2>2, Zenon
<1>5. Codec!Shifted(m, r) = CHOOSE f : f = E(f)
  BY DEF Codec!Shifted
<1>6. Codec!Shifted(m, r) = E(Codec!Shifted(m, r))
  <2> HIDE DEF E, w
  <2> QED BY <1>4, <1>5
<1> DEFINE h == Codec!Shifted(m, r)
<1>7. h = [i \in Nat |-> IF i = 0 THEN m ELSE h[i - 1] \div r]
  BY <1>6
<1> HIDE DEF h, E, w
<1>8. h[0] = m
  BY <1>7
<1>9. \A i \in Nat : h[i + 1] = h[i] \div r
  <2> TAKE i \in Nat
  <2>1. i + 1 \in Nat /\ i + 1 # 0 /\ (i + 1) - 1 = i
    OBVIOUS
  <2>2. h[i + 1] = IF i + 1 = 0 THEN m ELSE h[(i + 1) - 1] \div r
    BY <1>7, <2>1
  <2> QED BY <2>1, <2>2
<1> DEFINE T == {i \in Nat : h[i] \in Nat}
<1>10. 0 \in T /\ \A i \in Nat : i \in T => i + 1 \in T
  BY <1>8, <1>9
<1>11. Nat \subseteq T
  <2> HIDE DEF T
  <2> QED BY <1>10, SetInduction
<1> QED BY <1>8, <1>9, <1>11 DEF h

\* Sums and products of natural numbers are natural.
LEMMA NatMul ==
    ASSUME NEW a \in Nat, NEW b \in Nat, NEW c \in Nat PROVE c + a * b \in Nat
<1>1. a * b \in Nat
  OBVIOUS
<1> QED BY <1>1

\* The values of the suffixes of a sequence of digits.
LEMMA ValuesAre ==
    ASSUME NEW d \in Seq(Nat), NEW r \in Nat
    PROVE  LET v == Codec!Values(d, r) IN
           /\ v \in [1 .. Len(d) + 1 -> Nat] /\ v[Len(d) + 1] = 0
           /\ \A i \in 1 .. Len(d) : v[i] = d[i] + r * v[i + 1]
<1> DEFINE L == Len(d)
           B(f, i) == IF i > L THEN 0 ELSE d[i] + r * f[i + 1]
           E(f) == [i \in 1 .. L + 1 |-> B(f, i)]
           Good(f, k) == \A i \in 1 .. L + 1 : i >= L + 1 - k => f[i] = B(f, i)
           T == {k \in Nat : \E f \in [1 .. L + 1 -> Nat] : Good(f, k)}
<1>0. L \in Nat /\ \A i \in 1 .. L : d[i] \in Nat
  BY ElementOfSeq
<1> HIDE DEF L
<1>1. 0 \in T
  <2>1. [i \in 1 .. L + 1 |-> 0] \in [1 .. L + 1 -> Nat] /\ Good([i \in 1 .. L + 1 |-> 0], 0)
    BY <1>0
  <2> QED BY <2>1, Zenon
<1>2. ASSUME NEW k \in Nat, k \in T PROVE k + 1 \in T
  <2>1. PICK f \in [1 .. L + 1 -> Nat] : Good(f, k)
    BY <1>2
  <2>2. CASE k + 1 > L
    <3>1. Good(f, k + 1)
      <4> SUFFICES ASSUME NEW i \in 1 .. L + 1, i >= L + 1 - (k + 1) PROVE f[i] = B(f, i)
        OBVIOUS
      <4>1. i >= L + 1 - k
        BY <1>0, <2>2
      <4> QED BY <2>1, <4>1
    <3> HIDE DEF Good
    <3> QED BY <2>1, <3>1
  <2>3. CASE k + 1 <= L
    <3> DEFINE j == L - k
               g == [i \in 1 .. L + 1 |-> IF i = j THEN d[j] + r * f[j + 1] ELSE f[i]]
    <3>1. j \in 1 .. L /\ j + 1 \in 1 .. L + 1 /\ j = L + 1 - (k + 1)
      BY <1>0, <2>3
    <3> HIDE DEF j
    <3>2. f[j + 1] \in Nat /\ d[j] \in Nat
      BY <1>0, <3>1
    <3>3. d[j] + r * f[j + 1] \in Nat
      BY <3>2, NatMul, Zenon
    <3>4. g \in [1 .. L + 1 -> Nat]
      BY <3>3
    <3>5. ASSUME NEW i \in 1 .. L + 1, i >= L + 1 - (k + 1) PROVE g[i] = B(g, i)
      <4>1. CASE i = j
        <5>1. g[i] = d[j] + r * f[j + 1] /\ g[i + 1] = f[j + 1] /\ ~ (i > L)
          BY <1>0, <3>1, <4>1
        <5> QED BY <4>1, <5>1
      <4>2. CASE i # j
        <5>1. i >= L + 1 - k /\ i > j
          BY <1>0, <3>1, <3>5, <4>2
        <5>2. g[i] = f[i] /\ f[i] = B(f, i)
          BY <2>1, <4>2, <5>1
        <5>3. CASE i > L
          BY <5>2, <5>3
        <5>4. CASE ~ (i > L)
          <6>1. i + 1 \in 1 .. L + 1 /\ i + 1 # j
            BY <1>0, <3>1, <5>1, <5>4
          <6>2. g[i + 1] = f[i + 1]
            BY <6>1
          <6> QED BY <5>2, <5>4, <6>2
        <5> QED BY <5>3, <5>4
      <4> QED BY <4>1, <4>2
    <3> HIDE DEF g
    <3>6. Good(g, k + 1)
      BY <3>5
    <3> HIDE DEF Good
    <3> QED BY <3>4, <3>6
  <2> HIDE DEF T
  <2> QED BY <1>0, <2>2, <2>3
<1>3. L + 1 \in T
  <2>1. Nat \subseteq T
    <3> HIDE DEF T
    <3> QED BY <1>1, <1>2, SetInduction, Zenon
  <2> HIDE DEF T
  <2> QED BY <1>0, <2>1
<1>4. PICK w \in [1 .. L + 1 -> Nat] : Good(w, L + 1)
  BY <1>3
<1>5. w = E(w)
  <2>1. \A i \in 1 .. L + 1 : w[i] = B(w, i)
    BY <1>0, <1>4
  <2> HIDE DEF B
  <2> QED BY <2>1
<1>6. Codec!Values(d, r) = CHOOSE f : f = E(f)
  BY DEF Codec!Values, L
<1> DEFINE v == Codec!Values(d, r)
<1>7. v = E(v)
  <2> HIDE DEF E
  <2> QED BY <1>5, <1>6
<1> HIDE DEF v
<1>8. \A i \in 1 .. L + 1 : v[i] = B(v, i)
  <2> HIDE DEF B
  <2> QED BY <1>7, Zenon
<1>9. v[L + 1] = 0 /\ \A i \in 1 .. L : v[i] = d[i] + r * v[i + 1]
  BY <1>0, <1>8
<1> DEFINE U == {k \in Nat : k <= L => v[L + 1 - k] \in Nat}
<1>10. 0 \in U
  BY <1>0, <1>9
<1>11. ASSUME NEW k \in Nat, k \in U PROVE k + 1 \in U
  <2> SUFFICES ASSUME k + 1 <= L PROVE v[L + 1 - (k + 1)] \in Nat
    OBVIOUS
  <2> DEFINE j == L - k
  <2>1. j \in 1 .. L /\ j + 1 = L + 1 - k /\ j = L + 1 - (k + 1)
    BY <1>0
  <2>2. v[j + 1] \in Nat /\ d[j] \in Nat
    BY <1>0, <1>11, <2>1
  <2> HIDE DEF j
  <2>3. v[j] = d[j] + r * v[j + 1]
    BY <1>9, <2>1
  <2> HIDE DEF U
  <2>4. v[j] \in Nat
    BY <2>2, <2>3, NatMul, ZenonT(60)
  <2> QED BY <2>1, <2>4
<1>12. Nat \subseteq U
  <2> HIDE DEF U
  <2> QED BY <1>10, <1>11, SetInduction, Zenon
<1>13. \A i \in 1 .. L + 1 : v[i] \in Nat
  <2> TAKE i \in 1 .. L + 1
  <2>1. L + 1 - i \in Nat /\ L + 1 - i <= L /\ L + 1 - (L + 1 - i) = i
    BY <1>0
  <2>2. L + 1 - i \in U
    BY <1>12, <2>1
  <2> QED BY <2>1, <2>2
<1>14. v \in [1 .. L + 1 -> Nat]
  <2>1. v = [i \in 1 .. L + 1 |-> v[i]]
    <3> HIDE DEF B
    <3>1. v = [i \in 1 .. L + 1 |-> B(v, i)]
      BY <1>7, Zenon
    <3> QED BY <3>1
  <2> HIDE DEF U
  <2> QED BY <1>13, <2>1
<1> QED BY <1>9, <1>14 DEF v, L

\* A number is made of its digits again.
LEMMA NumberOfDigits ==
    ASSUME NEW d \in Seq(Nat), NEW r \in Nat \ {0}, NEW m \in Nat,
           \A i \in 1 .. Len(d) : d[i] = Codec!Shifted(m, r)[i - 1] % r,
           Codec!Shifted(m, r)[Len(d)] = 0
    PROVE  Codec!Number(d, r) = m
<1> DEFINE L == Len(d)
           s == Codec!Shifted(m, r)
           v == Codec!Values(d, r)
           U == {k \in Nat : k <= L => v[L + 1 - k] = s[L - k]}
<1>0. L \in Nat
  OBVIOUS
<1>1. s[0] = m /\ \A i \in Nat : s[i] \in Nat /\ s[i + 1] = s[i] \div r
  BY ShiftedIs, Zenon
<1>2. v[L + 1] = 0 /\ \A i \in 1 .. L : v[i] = d[i] + r * v[i + 1]
  <2>1. r \in Nat
    OBVIOUS
  <2> QED BY <2>1, ValuesAre
<1>3. s[L] = 0 /\ \A i \in 1 .. L : d[i] = s[i - 1] % r
  OBVIOUS
<1> HIDE DEF L, s, v
<1>4. 0 \in U
  BY <1>0, <1>2, <1>3
<1>5. ASSUME NEW k \in Nat, k \in U PROVE k + 1 \in U
  <2> SUFFICES ASSUME k + 1 <= L PROVE v[L + 1 - (k + 1)] = s[L - (k + 1)]
    OBVIOUS
  <2> DEFINE j == L - k
  <2>1. j \in 1 .. L /\ j + 1 = L + 1 - k /\ j = L + 1 - (k + 1) /\ j - 1 = L - (k + 1) /\ j - 1 \in Nat
        /\ (j - 1) + 1 = j
    BY <1>0
  <2>2. v[j + 1] = s[j]
    <3>1. k <= L
      BY <1>0
    <3>2. v[L + 1 - k] = s[L - k]
      BY <1>5, <3>1
    <3> QED BY <2>1, <3>2
  <2> HIDE DEF j
  <2>3. v[j] = (s[j - 1] % r) + r * s[j]
    BY <1>2, <1>3, <2>1, <2>2, Zenon
  <2>4. s[j - 1] \in Nat /\ s[j] = s[j - 1] \div r
    BY <1>1, <2>1, Zenon
  <2>5. s[j - 1] = r * (s[j - 1] \div r) + (s[j - 1] % r)
    BY <2>4, DivNat, Zenon
  <2> DEFINE a == s[j - 1] % r
             b == r * s[j]
  <2>6. a \in Int /\ b \in Int /\ v[j] = a + b /\ s[j - 1] = b + a
    <3>1. a \in 0 .. r - 1 /\ s[j] \in Nat
      BY <2>4, DivNat, ZenonT(60)
    <3>2. a \in Int /\ b \in Int
      BY <3>1
    <3>3. v[j] = a + b
      BY <2>3
    <3>4. s[j - 1] = b + a
      BY <2>4, <2>5
    <3> QED BY <3>2, <3>3, <3>4
  <2>7. v[j] = s[j - 1]
    <3> HIDE DEF a, b
    <3> QED BY <2>6
  <2> HIDE DEF U
  <2> QED BY <2>1, <2>7, Zenon
<1>6. L \in U
  <2>1. Nat \subseteq U
    <3> HIDE DEF U
    <3> QED BY <1>4, <1>5, SetInduction, Zenon
  <2> QED BY <1>0, <2>1, Zenon
<1>7. v[1] = m
  <2>1. v[L + 1 - L] = s[L - L]
    BY <1>0, <1>6
  <2>2. L + 1 - L = 1 /\ L - L = 0
    BY <1>0
  <2> QED BY <1>1, <2>1, <2>2, Zenon
<1> QED BY <1>7 DEF Codec!Number, v

-----------------------------------------------------------------------------
(***************************************************************************)
(* Varints.                                                                *)
(***************************************************************************)

\* What is sent fits in 64 bits.
Fits(m) == m \in Nat /\ Codec!Shifted(m, 128)[10] = 0

\* A function on 1 .. k is a sequence of length k.
LEMMA FunSeq ==
    ASSUME NEW S, NEW k \in Nat, NEW f \in [1 .. k -> S] PROVE f \in Seq(S) /\ Len(f) = k
<1>1. f \in Seq(S)
  BY SeqDef
<1>2. DOMAIN f = 1 .. Len(f) /\ Len(f) \in Nat
  BY <1>1, LenProperties
<1> QED BY <1>1, <1>2

\* The group of a byte is a number.
LEMMA ByteMod == ASSUME NEW x \in 0 .. 255 PROVE x % 128 \in Nat
  OBVIOUS

\* Min of a set of numbers is its least element.
LEMMA MinCodec ==
    ASSUME NEW S, S \subseteq Nat, S # {}
    PROVE  Codec!Min(S) \in S /\ \A y \in S : Codec!Min(S) <= y
<1>1. \E x \in S : \A y \in S : x <= y
  BY LeastNat, Zenon
<1>2. Codec!Min(S) = CHOOSE x \in S : \A y \in S : x <= y
  BY DEF Codec!Min
<1> QED BY <1>1, <1>2, Zenon

\* Nothing shifts to nothing.
LEMMA DivZero == ASSUME NEW r \in Nat \ {0} PROVE 0 \div r = 0
<1>1. 0 \in 0 .. r - 1 /\ r * 0 + 0 = 0
  OBVIOUS
<1> QED BY <1>1, DivUnique

\* What has been shifted out stays out.
LEMMA ShiftedZero ==
    ASSUME NEW m \in Nat, NEW r \in Nat \ {0}, NEW k \in Nat, Codec!Shifted(m, r)[k] = 0,
           NEW l \in Nat, k <= l
    PROVE  Codec!Shifted(m, r)[l] = 0
<1> DEFINE s == Codec!Shifted(m, r)
           T == {i \in Nat : s[k + i] = 0}
<1>1. \A i \in Nat : s[i] \in Nat /\ s[i + 1] = s[i] \div r
  BY ShiftedIs
<1>2. s[k] = 0
  OBVIOUS
<1> HIDE DEF s
<1>3. 0 \in T
  BY <1>2
<1>4. ASSUME NEW i \in Nat, i \in T PROVE i + 1 \in T
  <2>1. k + i \in Nat /\ s[k + i] = 0 /\ (k + i) + 1 = k + (i + 1) /\ i + 1 \in Nat
    BY <1>4
  <2>2. s[(k + i) + 1] = 0
    BY <1>1, <2>1, DivZero
  <2> QED BY <2>1, <2>2
<1>5. Nat \subseteq T
  <2> HIDE DEF T
  <2> QED BY <1>3, <1>4, SetInduction
<1>6. l - k \in Nat /\ k + (l - k) = l
  OBVIOUS
<1>7. s[k + (l - k)] = 0
  BY <1>5, <1>6
<1> QED BY <1>6, <1>7 DEF s

\* The number of groups of a varint is the least that holds the number.
LEMMA GroupsOf ==
    ASSUME NEW m, Fits(m)
    PROVE  /\ Codec!GroupCount(m) \in 1 .. 10
           /\ Codec!Shifted(m, 128)[Codec!GroupCount(m)] = 0
           /\ \A k \in 1 .. 10 : Codec!Shifted(m, 128)[k] = 0 => Codec!GroupCount(m) <= k
<1> DEFINE S == {k \in 1 .. 10 : Codec!Shifted(m, 128)[k] = 0}
<1>1. Codec!GroupCount(m) = Codec!Min(S)
  BY DEF Codec!GroupCount, Codec!MaxGroups, Codec!Limb
<1>2. S \subseteq Nat /\ 10 \in S
  BY DEF Fits
<1>3. Codec!Min(S) \in S /\ \A y \in S : Codec!Min(S) <= y
  <2> HIDE DEF S
  <2> QED BY <1>2, MinCodec, Zenon
<1> QED BY <1>1, <1>3

\* The bytes of a varint.
LEMMA WrittenIs ==
    ASSUME NEW m, Fits(m)
    PROVE  LET w == Codec!WriteVarint(m)
               g == Codec!GroupCount(m)
           IN  /\ w \in Seq(0 .. 255) /\ Len(w) = g
               /\ \A i \in 1 .. g : /\ w[i] % 128 = Codec!Shifted(m, 128)[i - 1] % 128
                                    /\ w[i] < 128 <=> i = g
<1> DEFINE w == Codec!WriteVarint(m)
           g == Codec!GroupCount(m)
           s == Codec!Shifted(m, 128)
<1>1. g \in 1 .. 10 /\ m \in Nat
  BY GroupsOf DEF Fits
<1>2. w = [i \in 1 .. g |-> (s[i - 1] % 128) + (IF i < g THEN 128 ELSE 0)]
  BY DEF Codec!WriteVarint, Codec!Limb
<1>3. \A i \in Nat : s[i] \in Nat
  BY <1>1, ShiftedIs
<1> HIDE DEF w, g, s
<1>4. ASSUME NEW i \in 1 .. g
      PROVE  w[i] \in 0 .. 255 /\ w[i] % 128 = s[i - 1] % 128 /\ (w[i] < 128 <=> i = g)
  <2>1. i - 1 \in Nat
    BY <1>1
  <2>2. s[i - 1] \in Nat
    BY <1>3, <2>1
  <2> DEFINE a == s[i - 1] % 128
  <2>3. a \in 0 .. 127
    BY <2>2
  <2>4. w[i] = a + (IF i < g THEN 128 ELSE 0)
    BY <1>2
  <2> HIDE DEF a
  <2>5. a % 128 = a /\ (a + 128) % 128 = a
    BY <2>3
  <2> QED BY <1>1, <2>3, <2>4, <2>5, SMTT(60) DEF a
<1>5. w \in Seq(0 .. 255) /\ Len(w) = g
  <2>1. w \in [1 .. g -> 0 .. 255] /\ g \in Nat
    BY <1>1, <1>2, <1>4
  <2> QED BY <2>1, FunSeq
<1> QED BY <1>4, <1>5 DEF w, g, s

\* The bytes of w are those of buf from off on, as far as buf goes.
Matches(buf, off, w) == \A i \in 1 .. Len(w) : off + i - 1 <= Len(buf) => buf[off + i - 1] = w[i]

\* A varint that was written is read back if it is complete and has no more
\* than Groups groups, and not read otherwise.
LEMMA ReadWritten ==
    ASSUME NEW m, Fits(m), NEW buf \in Seq(0 .. 255), NEW off \in Nat \ {0},
           Matches(buf, off, Codec!WriteVarint(m))
    PROVE  Codec!ReadVarint(buf, off) =
           IF off + Codec!GroupCount(m) - 1 <= Len(buf) /\ Codec!GroupCount(m) <= Groups
           THEN [found |-> TRUE, next |-> off + Codec!GroupCount(m), value |-> m]
           ELSE [found |-> FALSE]
<1> DEFINE w == Codec!WriteVarint(m)
           g == Codec!GroupCount(m)
           s == Codec!Shifted(m, 128)
           L == Len(buf)
           e == off + g - 1
           Q == Codec!Ends(buf, off)
<1>1. /\ g \in 1 .. 10 /\ Len(w) = g /\ m \in Nat /\ s[g] = 0 /\ L \in Nat /\ Groups \in Nat \ {0}
      /\ e \in Nat /\ off <= e /\ e - off = g - 1
  BY GroupsOf, WrittenIs, CodecAssumption DEF Fits
<1>2. \A i \in 1 .. L : buf[i] \in 0 .. 255
  BY ElementOfSeq, Zenon
<1>3. \A i \in 1 .. g : w[i] % 128 = s[i - 1] % 128 /\ (w[i] < 128 <=> i = g)
  BY WrittenIs
<1>4. \A i \in 1 .. g : off + i - 1 <= L => buf[off + i - 1] = w[i]
  BY <1>1 DEF Matches
<1>5. Q = {i \in off .. L : buf[i] < 128 /\ i - off < Groups}
  BY DEF Codec!Ends
<1> HIDE DEF w, g, s, L, e, Q
<1>6. ASSUME NEW i \in off .. L, i <= e PROVE buf[i] < 128 <=> i = e
  <2>1. i - off + 1 \in 1 .. g /\ off + (i - off + 1) - 1 = i
    BY <1>1, <1>6
  <2>2. buf[i] = w[i - off + 1]
    BY <1>4, <2>1
  <2>3. w[i - off + 1] < 128 <=> i - off + 1 = g
    BY <1>3, <2>1
  <2> QED BY <1>1, <1>6, <2>2, <2>3
<1>7. Q \subseteq Nat
  BY <1>1, <1>5
<1>8. CASE e <= L /\ g <= Groups
  <2>1. e \in Q
    BY <1>1, <1>5, <1>6, <1>8
  <2>2. \A y \in Q : e <= y
    BY <1>1, <1>5, <1>6, <1>8
  <2>3. Codec!Min(Q) = e
    <3>1. Codec!Min(Q) \in Q /\ Codec!Min(Q) <= e
      BY <1>7, <2>1, MinCodec, Zenon
    <3>2. e <= Codec!Min(Q) /\ Codec!Min(Q) \in Nat
      BY <1>7, <2>2, <3>1, Zenon
    <3> QED BY <1>1, <3>1, <3>2
  <2> DEFINE d == [i \in 1 .. e - off + 1 |-> buf[off + i - 1] % 128]
  <2>4. d = [i \in 1 .. g |-> buf[off + i - 1] % 128]
    BY <1>1
  <2>5. \A i \in 1 .. g : d[i] = s[i - 1] % 128 /\ d[i] \in Nat
    <3> TAKE i \in 1 .. g
    <3>1. off + i - 1 \in 1 .. L
      BY <1>1, <1>8
    <3>2. buf[off + i - 1] = w[i] /\ buf[off + i - 1] \in 0 .. 255
      BY <1>2, <1>4, <3>1
    <3>3. d[i] = buf[off + i - 1] % 128
      BY <2>4, Zenon
    <3> HIDE DEF d
    <3>4. buf[off + i - 1] % 128 \in Nat
      BY <3>2, ByteMod, Zenon
    <3> QED BY <1>3, <3>2, <3>3, <3>4
  <2>6. d \in Seq(Nat) /\ Len(d) = g
    <3>1. d \in [1 .. g -> Nat]
      <4>1. DOMAIN d = 1 .. g /\ d = [i \in 1 .. g |-> d[i]]
        BY <2>4
      <4> HIDE DEF d
      <4> QED BY <2>5, <4>1
    <3>2. g \in Nat
      BY <1>1
    <3> HIDE DEF d
    <3> QED BY <3>1, <3>2, FunSeq
  <2>7. Codec!Number(d, 128) = m
    <3> HIDE DEF d
    <3>1. \A i \in 1 .. Len(d) : d[i] = Codec!Shifted(m, 128)[i - 1] % 128
      BY <2>5, <2>6 DEF s
    <3>2. Codec!Shifted(m, 128)[Len(d)] = 0 /\ 128 \in Nat \ {0}
      BY <1>1, <2>6 DEF s
    <3> QED BY <1>1, <2>6, <3>1, <3>2, NumberOfDigits
  <2>8. Codec!ReadVarint(buf, off) = [found |-> TRUE, next |-> e + 1, value |-> Codec!Number(d, 128)]
    <3>1. Codec!Ends(buf, off) # {} /\ Codec!Min(Codec!Ends(buf, off)) = e
      BY <2>1, <2>3 DEF Q
    <3> QED BY <3>1 DEF Codec!ReadVarint, Codec!Limb
  <2>9. e + 1 = off + g
    BY <1>1 DEF e
  <2> HIDE DEF d
  <2> QED BY <1>8, <2>7, <2>8, <2>9, Zenon DEF e, g, L
<1>9. CASE ~ (e <= L /\ g <= Groups)
  <2>1. Q = {}
    <3> SUFFICES ASSUME NEW i \in Q PROVE FALSE
      OBVIOUS
    <3>1. i \in off .. L /\ buf[i] < 128 /\ i - off < Groups
      BY <1>5
    <3>2. CASE i < e
      BY <1>1, <1>6, <3>1, <3>2
    <3>3. CASE i >= e
      BY <1>1, <1>9, <3>1, <3>3
    <3> QED BY <1>1, <3>1, <3>2, <3>3
  <2>2. Codec!ReadVarint(buf, off) = [found |-> FALSE]
    BY <2>1 DEF Codec!ReadVarint, Codec!None, Q
  <2> QED BY <1>9, <2>2 DEF e, g, L
<1> QED BY <1>8, <1>9

\* Reading makes progress within the buffer.
LEMMA ReadProgress ==
    ASSUME NEW buf \in Seq(0 .. 255), NEW off \in Nat \ {0}
    PROVE  LET x == Codec!ReadVarint(buf, off) IN
           \/ x.found = FALSE
           \/ x.found = TRUE /\ x.next \in off + 1 .. Len(buf) + 1 /\ x.value \in Nat
<1> DEFINE Q == Codec!Ends(buf, off)
           e == Codec!Min(Q)
           L == Len(buf)
<1>1. CASE Q = {}
  BY <1>1 DEF Codec!ReadVarint, Codec!None
<1>2. CASE Q # {}
  <2>1. Q \subseteq Nat /\ Q \subseteq off .. L /\ L \in Nat
    BY DEF Codec!Ends
  <2>2. e \in off .. L
    <3> HIDE DEF Q, L
    <3> QED BY <1>2, <2>1, MinCodec, Zenon
  <2> DEFINE d == [i \in 1 .. e - off + 1 |-> buf[off + i - 1] % 128]
  <2>3. Codec!ReadVarint(buf, off) = [found |-> TRUE, next |-> e + 1, value |-> Codec!Number(d, 128)]
    BY <1>2 DEF Codec!ReadVarint, Codec!Limb
  <2> HIDE DEF e
  <2>4. d \in Seq(Nat) /\ Len(d) \in Nat
    <3>1. \A i \in 1 .. e - off + 1 : buf[off + i - 1] % 128 \in Nat
      <4> TAKE i \in 1 .. e - off + 1
      <4>1. off + i - 1 \in 1 .. L
        BY <2>1, <2>2
      <4>2. buf[off + i - 1] \in 0 .. 255
        BY <4>1, ElementOfSeq, Zenon
      <4> QED BY <4>2, ByteMod, Zenon
    <3>2. d \in [1 .. e - off + 1 -> Nat]
      BY <3>1
    <3>3. e - off + 1 \in Nat
      BY <2>1, <2>2
    <3> HIDE DEF d
    <3> QED BY <3>2, <3>3, FunSeq
  <2> HIDE DEF d
  <2>5. Codec!Number(d, 128) \in Nat
    <3>1. Codec!Values(d, 128) \in [1 .. Len(d) + 1 -> Nat] /\ 1 \in 1 .. Len(d) + 1
      BY <2>4, ValuesAre, SMTT(60)
    <3> QED BY <3>1 DEF Codec!Number
  <2> QED BY <2>1, <2>2, <2>3, <2>5
<1> QED BY <1>1, <1>2, Zenon

\* What is readable is written in few enough groups.
LEMMA ReadableIs ==
    ASSUME NEW m, Fits(m) PROVE Codec!Readable(m) <=> Codec!GroupCount(m) <= Groups
<1> DEFINE g == Codec!GroupCount(m)
           s == Codec!Shifted(m, 128)
<1>1. g \in 1 .. 10 /\ s[g] = 0 /\ Groups \in Nat \ {0} /\ m \in Nat /\ 128 \in Nat \ {0}
      /\ \A k \in 1 .. 10 : s[k] = 0 => g <= k
  BY GroupsOf, CodecAssumption DEF Fits
<1>2. Codec!Readable(m) <=> s[Groups] = 0
  BY DEF Codec!Readable, Codec!Limb
<1>3. g <= Groups => s[Groups] = 0
  <2> HAVE g <= Groups
  <2>1. g \in Nat /\ Groups \in Nat
    BY <1>1
  <2> HIDE DEF g
  <2> QED BY <1>1, <2>1, ShiftedZero
<1> HIDE DEF g, s
<1>4. s[Groups] = 0 => g <= Groups
  BY <1>1
<1> QED BY <1>2, <1>3, <1>4 DEF g

-----------------------------------------------------------------------------
(***************************************************************************)
(* Protobuf fields.                                                        *)
(***************************************************************************)

\* A match of two parts is a match of each.
LEMMA MatchesSplit ==
    ASSUME NEW buf, NEW off \in Nat \ {0}, NEW u \in Seq(0 .. 255), NEW w \in Seq(0 .. 255),
           Matches(buf, off, u \o w)
    PROVE  Matches(buf, off, u) /\ Matches(buf, off + Len(u), w)
<1>1. /\ Len(u) \in Nat /\ Len(w) \in Nat /\ Len(u \o w) = Len(u) + Len(w)
      /\ \A i \in 1 .. Len(u) + Len(w) : (u \o w)[i] = IF i <= Len(u) THEN u[i] ELSE w[i - Len(u)]
  BY ConcatProperties, LenProperties
<1>2. \A i \in 1 .. Len(u) + Len(w) : off + i - 1 <= Len(buf) => buf[off + i - 1] = (u \o w)[i]
  BY <1>1 DEF Matches
<1>3. ASSUME NEW i \in 1 .. Len(u), off + i - 1 <= Len(buf) PROVE buf[off + i - 1] = u[i]
  <2>1. i \in 1 .. Len(u) + Len(w) /\ i <= Len(u)
    BY <1>1
  <2> QED BY <1>1, <1>2, <1>3, <2>1
<1>4. ASSUME NEW i \in 1 .. Len(w), (off + Len(u)) + i - 1 <= Len(buf)
      PROVE  buf[(off + Len(u)) + i - 1] = w[i]
  <2> DEFINE j == Len(u) + i
  <2>1. j \in 1 .. Len(u) + Len(w) /\ ~ (j <= Len(u)) /\ j - Len(u) = i
        /\ off + j - 1 = (off + Len(u)) + i - 1
    BY <1>1
  <2> HIDE DEF j
  <2>2. (u \o w)[j] = w[i]
    BY <1>1, <2>1
  <2>3. off + j - 1 <= Len(buf)
    BY <1>4, <2>1
  <2>4. buf[off + j - 1] = (u \o w)[j]
    BY <1>2, <2>1, <2>3
  <2> QED BY <2>1, <2>2, <2>4
<1> QED BY <1>3, <1>4 DEF Matches

\* A number below 128 takes one group.
LEMMA SmallVarint ==
    ASSUME NEW c \in 0 .. 127
    PROVE  Fits(c) /\ Codec!GroupCount(c) = 1
<1> DEFINE s == Codec!Shifted(c, 128)
<1>1. c \in Nat /\ 128 \in Nat \ {0} /\ 1 \in Nat /\ 10 \in Nat /\ 1 <= 10 /\ 0 \in Nat /\ 0 + 1 = 1
  OBVIOUS
<1>2. s[0] = c /\ s[0 + 1] = s[0] \div 128
  BY <1>1, ShiftedIs
<1>3. c \div 128 = 0
  OBVIOUS
<1>4. s[1] = 0
  BY <1>1, <1>2, <1>3
<1>5. s[10] = 0
  BY <1>1, <1>4, ShiftedZero
<1>6. Fits(c)
  BY <1>1, <1>5 DEF Fits
<1>7. Codec!GroupCount(c) \in 1 .. 10 /\ Codec!GroupCount(c) <= 1
  BY <1>4, <1>6, GroupsOf
<1> QED BY <1>6, <1>7

\* The varint of a tag, which is short.
LEMMA ReadTag ==
    ASSUME NEW c \in 0 .. 127, NEW buf \in Seq(0 .. 255), NEW off \in 1 .. Len(buf),
           Matches(buf, off, Codec!WriteVarint(c))
    PROVE  Codec!ReadVarint(buf, off) = [found |-> TRUE, next |-> off + 1, value |-> c]
<1>1. Fits(c) /\ Codec!GroupCount(c) = 1 /\ Groups \in Nat \ {0}
  BY SmallVarint, CodecAssumption, Zenon
<1>2. off \in Nat \ {0} /\ off + 1 - 1 <= Len(buf) /\ 1 <= Groups
  BY <1>1
<1>3. Codec!ReadVarint(buf, off) =
           IF off + Codec!GroupCount(c) - 1 <= Len(buf) /\ Codec!GroupCount(c) <= Groups
           THEN [found |-> TRUE, next |-> off + Codec!GroupCount(c), value |-> c]
           ELSE [found |-> FALSE]
  BY <1>1, <1>2, ReadWritten
<1> QED BY <1>1, <1>2, <1>3

\* decodeProtobuf's round, from the two varints it reads.
LEMMA DecodeNumIs ==
    ASSUME NEW buf, NEW off, NEW t, NEW v, Codec!ReadVarint(buf, off) = t, Codec!ReadVarint(buf, t.next) = v,
           t.found, v.found, t.value % 8 = 0
    PROVE  Codec!DecodeField(buf, off) =
           [found |-> TRUE, next |-> v.next, field |-> Codec!Num(t.value \div 8, v.value)]
  BY DEF Codec!DecodeField

\* A text field: its length must lie within the buffer.
LEMMA DecodeTextIs ==
    ASSUME NEW buf, NEW off, NEW t, NEW v, Codec!ReadVarint(buf, off) = t, Codec!ReadVarint(buf, t.next) = v,
           t.found, v.found, t.value % 8 = 2
    PROVE  Codec!DecodeField(buf, off) =
           IF v.next + v.value - 1 > Len(buf) THEN [found |-> FALSE]
           ELSE [found |-> TRUE, next |-> v.next + v.value,
                 field |-> Codec!Text(t.value \div 8, SubSeq(buf, v.next, v.next + v.value - 1))]
  BY DEF Codec!DecodeField, Codec!None

\* A field with a number is read when it is complete and readable.
LEMMA ReadNum ==
    ASSUME NEW f \in 1 .. 15, NEW m, Fits(m), NEW buf \in Seq(0 .. 255), NEW off \in 1 .. Len(buf),
           Matches(buf, off, Codec!EncodeField(Codec!Num(f, m)))
    PROVE  Codec!DecodeField(buf, off) =
           IF off + Codec!GroupCount(m) <= Len(buf) /\ Codec!GroupCount(m) <= Groups
           THEN [found |-> TRUE, next |-> off + 1 + Codec!GroupCount(m), field |-> Codec!Num(f, m)]
           ELSE [found |-> FALSE]
<1> DEFINE c == f * 8
           u == Codec!WriteVarint(c)
           w == Codec!WriteVarint(m)
           g == Codec!GroupCount(m)
<1>1. c \in 0 .. 127 /\ c % 8 = 0 /\ c \div 8 = f /\ off \in Nat \ {0} /\ off + 1 \in Nat \ {0}
  OBVIOUS
<1>2. Codec!EncodeField(Codec!Num(f, m)) = u \o w
  <2>1. Codec!Num(f, m).field * 8 + Codec!Num(f, m).wire = c /\ Codec!Num(f, m).wire = 0
        /\ Codec!Num(f, m).num = m
    BY DEF Codec!Num
  <2> QED BY <2>1 DEF Codec!EncodeField
<1>3. u \in Seq(0 .. 255) /\ Len(u) = 1 /\ w \in Seq(0 .. 255) /\ Fits(c) /\ g \in 1 .. 10
  <2> HIDE DEF c
  <2> QED BY <1>1, SmallVarint, WrittenIs, GroupsOf, ZenonT(90)
<1> HIDE DEF c, u, w, g
<1>4. Matches(buf, off, u) /\ Matches(buf, off + 1, w)
  <2>1. Matches(buf, off, u \o w)
    BY <1>2
  <2>2. Matches(buf, off, u) /\ Matches(buf, off + Len(u), w)
    BY <1>1, <1>3, <2>1, MatchesSplit, Zenon
  <2> QED BY <1>3, <2>2
<1>5. Codec!ReadVarint(buf, off) = [found |-> TRUE, next |-> off + 1, value |-> c]
  BY <1>1, <1>4, ReadTag, Zenon DEF u
<1>6. Codec!ReadVarint(buf, off + 1) =
           IF (off + 1) + g - 1 <= Len(buf) /\ g <= Groups
           THEN [found |-> TRUE, next |-> (off + 1) + g, value |-> m]
           ELSE [found |-> FALSE]
  BY <1>1, <1>4, ReadWritten, Zenon DEF w, g
<1>7. (off + 1) + g - 1 = off + g /\ (off + 1) + g = off + 1 + g
  BY <1>3
<1>8. CASE off + g <= Len(buf) /\ g <= Groups
  <2>1. Codec!ReadVarint(buf, off + 1) = [found |-> TRUE, next |-> off + 1 + g, value |-> m]
    BY <1>6, <1>7, <1>8
  <2>2. Codec!DecodeField(buf, off) = [found |-> TRUE, next |-> off + 1 + g, field |-> Codec!Num(f, m)]
    <3> DEFINE t == [found |-> TRUE, next |-> off + 1, value |-> c]
               v == [found |-> TRUE, next |-> off + 1 + g, value |-> m]
    <3>1. t.found = TRUE /\ t.next = off + 1 /\ t.value = c
      OBVIOUS
    <3>2. v.found = TRUE /\ v.next = off + 1 + g /\ v.value = m
      OBVIOUS
    <3>3. Codec!ReadVarint(buf, off) = t /\ Codec!ReadVarint(buf, t.next) = v
      BY <1>5, <2>1, <3>1
    <3> HIDE DEF t, v
    <3>4. Codec!DecodeField(buf, off) =
          [found |-> TRUE, next |-> v.next, field |-> Codec!Num(t.value \div 8, v.value)]
      BY <1>1, <3>1, <3>2, <3>3, DecodeNumIs
    <3> QED BY <1>1, <3>1, <3>2, <3>4, Zenon
  <2> QED BY <1>8, <2>2 DEF g
<1>9. CASE ~ (off + g <= Len(buf) /\ g <= Groups)
  <2>1. Codec!ReadVarint(buf, off + 1) = [found |-> FALSE]
    BY <1>6, <1>7, <1>9
  <2>2. Codec!DecodeField(buf, off) = [found |-> FALSE]
    BY <1>1, <1>5, <2>1 DEF Codec!DecodeField, Codec!None
  <2> QED BY <1>9, <2>2 DEF g
<1> QED BY <1>8, <1>9

\* A field with a text is read as one of its own number, up to its end, or not
\* at all.
LEMMA ReadText ==
    ASSUME NEW f \in 1 .. 15, NEW h \in Seq(0 .. 255), Fits(Len(h)),
           NEW buf \in Seq(0 .. 255), NEW off \in 1 .. Len(buf),
           Matches(buf, off, Codec!EncodeField(Codec!Text(f, h)))
    PROVE  LET x == Codec!DecodeField(buf, off) IN
           \/ x = [found |-> FALSE]
           \/ /\ x.found = TRUE /\ x.field.field = f /\ x.field.wire = 2
              /\ x.next = off + 1 + Codec!GroupCount(Len(h)) + Len(h)
<1> DEFINE c == f * 8 + 2
           m == Len(h)
           u == Codec!WriteVarint(c)
           w == Codec!WriteVarint(m)
           g == Codec!GroupCount(m)
<1>1. c \in 0 .. 127 /\ c % 8 = 2 /\ c \div 8 = f /\ off \in Nat \ {0} /\ off + 1 \in Nat \ {0} /\ m \in Nat
  OBVIOUS
<1>2. Codec!EncodeField(Codec!Text(f, h)) = u \o (w \o h)
  <2>1. Codec!Text(f, h).field * 8 + Codec!Text(f, h).wire = c /\ Codec!Text(f, h).wire = 2
        /\ Codec!Text(f, h).text = h
    BY DEF Codec!Text
  <2> QED BY <2>1, SMTT(60) DEF Codec!EncodeField
<1>3. u \in Seq(0 .. 255) /\ Len(u) = 1 /\ w \in Seq(0 .. 255) /\ w \o h \in Seq(0 .. 255) /\ g \in 1 .. 10
  <2> HIDE DEF c
  <2>1. u \in Seq(0 .. 255) /\ Len(u) = 1
    BY <1>1, SmallVarint, WrittenIs, ZenonT(60)
  <2>2. w \in Seq(0 .. 255) /\ g \in 1 .. 10
    BY WrittenIs, GroupsOf
  <2> QED BY <2>1, <2>2, ConcatProperties
<1>4. Fits(m)
  OBVIOUS
<1> HIDE DEF c, u, w, g, m
<1>5. Matches(buf, off, u) /\ Matches(buf, off + 1, w)
  <2>1. Matches(buf, off, u \o (w \o h))
    BY <1>2
  <2>2. Matches(buf, off, u) /\ Matches(buf, off + Len(u), w \o h)
    BY <1>1, <1>3, <2>1, MatchesSplit, ZenonT(60)
  <2>3. Matches(buf, off + 1, w \o h)
    BY <1>3, <2>2
  <2> QED BY <1>1, <1>3, <2>2, <2>3, MatchesSplit
<1>6. Codec!ReadVarint(buf, off) = [found |-> TRUE, next |-> off + 1, value |-> c]
  BY <1>1, <1>5, ReadTag, Zenon DEF u
<1>7. Codec!ReadVarint(buf, off + 1) =
           IF (off + 1) + g - 1 <= Len(buf) /\ g <= Groups
           THEN [found |-> TRUE, next |-> (off + 1) + g, value |-> m]
           ELSE [found |-> FALSE]
  BY <1>1, <1>4, <1>5, ReadWritten, Zenon DEF w, g
<1>8. CASE Codec!ReadVarint(buf, off + 1) = [found |-> TRUE, next |-> (off + 1) + g, value |-> m]
  <2> DEFINE x == Codec!DecodeField(buf, off)
             t == Codec!Text(f, SubSeq(buf, off + 1 + g, off + 1 + g + m - 1))
             p == [found |-> TRUE, next |-> off + 1, value |-> c]
             v == [found |-> TRUE, next |-> off + 1 + g, value |-> m]
  <2>1. x = IF off + 1 + g + m - 1 > Len(buf) THEN [found |-> FALSE]
            ELSE [found |-> TRUE, next |-> off + 1 + g + m, field |-> t]
    <3>1. p.found = TRUE /\ p.next = off + 1 /\ p.value = c
      OBVIOUS
    <3>2. v.found = TRUE /\ v.next = off + 1 + g /\ v.value = m
      OBVIOUS
    <3>3. Codec!ReadVarint(buf, off) = p /\ Codec!ReadVarint(buf, p.next) = v
      BY <1>6, <1>8, <3>1
    <3> HIDE DEF p, v
    <3>4. x = IF v.next + v.value - 1 > Len(buf) THEN [found |-> FALSE]
              ELSE [found |-> TRUE, next |-> v.next + v.value,
                    field |-> Codec!Text(p.value \div 8, SubSeq(buf, v.next, v.next + v.value - 1))]
      BY <1>1, <3>1, <3>2, <3>3, DecodeTextIs
    <3> QED BY <1>1, <3>1, <3>2, <3>4, Zenon
  <2>2. t.field = f /\ t.wire = 2
    BY DEF Codec!Text
  <2> HIDE DEF x, t
  <2>3. \/ x = [found |-> FALSE]
        \/ x.found = TRUE /\ x.field.field = f /\ x.field.wire = 2 /\ x.next = off + 1 + g + m
    <3>1. CASE off + 1 + g + m - 1 > Len(buf)
      <4>1. x = [found |-> FALSE]
        BY <2>1, <3>1
      <4> QED BY <4>1
    <3>2. CASE ~ (off + 1 + g + m - 1 > Len(buf))
      <4>1. x = [found |-> TRUE, next |-> off + 1 + g + m, field |-> t]
        BY <2>1, <3>2
      <4>2. x.found = TRUE /\ x.next = off + 1 + g + m /\ x.field = t
        BY <4>1
      <4> QED BY <2>2, <4>2
    <3> QED BY <3>1, <3>2, Zenon
  <2> QED BY <2>3 DEF x, g, m
<1>9. CASE Codec!ReadVarint(buf, off + 1) = [found |-> FALSE]
  <2>1. Codec!DecodeField(buf, off) = [found |-> FALSE]
    BY <1>1, <1>6, <1>9 DEF Codec!DecodeField, Codec!None
  <2> QED BY <2>1
<1> QED BY <1>7, <1>8, <1>9, Zenon

\* Every field that is read ends within the buffer.
LEMMA FieldProgress ==
    ASSUME NEW buf \in Seq(0 .. 255), NEW off \in 1 .. Len(buf)
    PROVE  LET x == Codec!DecodeField(buf, off) IN
           x.found = FALSE \/ (x.found = TRUE /\ x.next \in off + 1 .. Len(buf) + 1)
<1> DEFINE t == Codec!ReadVarint(buf, off)
           v == Codec!ReadVarint(buf, t.next)
           x == Codec!DecodeField(buf, off)
           L == Len(buf)
<1>0. L \in Nat /\ off \in Nat \ {0}
  OBVIOUS
<1>1. t.found = FALSE \/ (t.found = TRUE /\ t.next \in off + 1 .. L + 1 /\ t.value \in Nat)
  BY <1>0, ReadProgress, Zenon
<1>2. x = IF ~t.found THEN [found |-> FALSE]
          ELSE IF t.value % 8 \notin {0, 2} \/ ~v.found THEN [found |-> FALSE]
          ELSE IF t.value % 8 = 0
               THEN [found |-> TRUE, next |-> v.next, field |-> Codec!Num(t.value \div 8, v.value)]
          ELSE IF v.next + v.value - 1 > L THEN [found |-> FALSE]
          ELSE [found |-> TRUE, next |-> v.next + v.value,
                field |-> Codec!Text(t.value \div 8, SubSeq(buf, v.next, v.next + v.value - 1))]
  BY DEF Codec!DecodeField, Codec!None
<1> HIDE DEF t, x, L
<1>3. CASE t.found = TRUE
  <2>1. t.next \in Nat \ {0} /\ t.next \in off + 1 .. L + 1
    BY <1>0, <1>1, <1>3
  <2>2. v.found = FALSE \/ (v.found = TRUE /\ v.next \in t.next + 1 .. L + 1 /\ v.value \in Nat)
    BY <2>1, ReadProgress, Zenon DEF L
  <2> HIDE DEF v
  <2>3. CASE v.found = TRUE
    <3>1. v.next \in off + 1 .. L + 1 /\ v.value \in Nat
      BY <1>0, <2>1, <2>2, <2>3
    <3>2. v.next + v.value - 1 > L \/ v.next + v.value \in off + 1 .. L + 1
      BY <1>0, <3>1, SMTT(60)
    <3>3. CASE t.value % 8 \notin {0, 2}
      <4>1. x = [found |-> FALSE]
        BY <1>2, <1>3, <3>3
      <4> QED BY <4>1 DEF x
    <3>4. CASE t.value % 8 = 0
      <4>1. x = [found |-> TRUE, next |-> v.next, field |-> Codec!Num(t.value \div 8, v.value)]
        BY <1>2, <1>3, <2>3, <3>4
      <4>2. x.found = TRUE /\ x.next = v.next
        BY <4>1
      <4> QED BY <3>1, <4>2 DEF x, L
    <3>5. CASE t.value % 8 = 2 /\ v.next + v.value - 1 > L
      <4>1. x = [found |-> FALSE]
        BY <1>2, <1>3, <3>5
      <4> QED BY <4>1 DEF x
    <3>6. CASE t.value % 8 = 2 /\ ~ (v.next + v.value - 1 > L)
      <4>1. x = [found |-> TRUE, next |-> v.next + v.value,
                 field |-> Codec!Text(t.value \div 8, SubSeq(buf, v.next, v.next + v.value - 1))]
        BY <1>2, <1>3, <2>3, <3>6
      <4>2. x.found = TRUE /\ x.next = v.next + v.value
        BY <4>1
      <4> QED BY <3>2, <3>6, <4>2 DEF x, L
    <3> QED BY <3>3, <3>4, <3>5, <3>6, Zenon
  <2>4. CASE v.found = FALSE
    <3>1. x = [found |-> FALSE]
      BY <1>2, <1>3, <2>4
    <3> QED BY <3>1 DEF x
  <2> QED BY <2>2, <2>3, <2>4, Zenon
<1>4. CASE t.found = FALSE
  <2>1. x = [found |-> FALSE]
    BY <1>2, <1>4
  <2> QED BY <2>1 DEF x
<1> QED BY <1>1, <1>3, <1>4, Zenon

\* decodeProtobuf reads field after field.
LEMMA FieldsAre ==
    ASSUME NEW buf \in Seq(0 .. 255)
    PROVE  \A off \in 1 .. Len(buf) + 1 :
               Codec!FieldsFrom(buf)[off] =
               IF off > Len(buf) \/ ~Codec!DecodeField(buf, off).found THEN <<>>
               ELSE <<Codec!DecodeField(buf, off).field>> \o Codec!FieldsFrom(buf)[Codec!DecodeField(buf, off).next]
<1> DEFINE L == Len(buf)
           x(i) == Codec!DecodeField(buf, i)
           B(f, i) == IF i > L \/ ~x(i).found THEN <<>> ELSE <<x(i).field>> \o f[x(i).next]
           E(f) == [i \in 1 .. L + 1 |-> B(f, i)]
           Good(f, k) == f = [i \in 1 .. L + 1 |-> f[i]] /\ \A i \in 1 .. L + 1 : i >= L + 1 - k => f[i] = B(f, i)
           T == {k \in Nat : \E f : Good(f, k)}
<1>0. L \in Nat /\ \A i \in 1 .. L : x(i).found => x(i).next \in i + 1 .. L + 1
  <2>1. L \in Nat
    OBVIOUS
  <2>2. ASSUME NEW i \in 1 .. L, x(i).found PROVE x(i).next \in i + 1 .. L + 1
    BY <2>2, FieldProgress, Zenon
  <2> QED BY <2>1, <2>2
<1> HIDE DEF L, x
<1>1. 0 \in T
  <2> DEFINE f == [i \in 1 .. L + 1 |-> <<>>]
  <2>1. f = [i \in 1 .. L + 1 |-> f[i]]
    OBVIOUS
  <2>2. ASSUME NEW i \in 1 .. L + 1, i >= L + 1 - 0 PROVE f[i] = B(f, i)
    <3>1. i > L
      BY <1>0, <2>2
    <3> QED BY <3>1
  <2>3. Good(f, 0)
    <3> HIDE DEF f, B
    <3> QED BY <2>1, <2>2
  <2> HIDE DEF Good
  <2> QED BY <2>3
<1>2. ASSUME NEW k \in Nat, k \in T PROVE k + 1 \in T
  <2>1. PICK f : Good(f, k)
    BY <1>2
  <2>2. CASE k + 1 > L
    <3>1. Good(f, k + 1)
      <4> SUFFICES ASSUME NEW i \in 1 .. L + 1, i >= L + 1 - (k + 1) PROVE f[i] = B(f, i)
        <5> HIDE DEF B
        <5> QED BY <2>1
      <4>1. i >= L + 1 - k
        BY <1>0, <2>2
      <4> HIDE DEF B
      <4> QED BY <2>1, <4>1
    <3> HIDE DEF Good
    <3> QED BY <2>1, <3>1
  <2>3. CASE k + 1 <= L
    <3> DEFINE j == L - k
               b == B(f, j)
               g == [i \in 1 .. L + 1 |-> IF i = j THEN b ELSE f[i]]
    <3>1. j \in 1 .. L /\ j = L + 1 - (k + 1)
      BY <1>0, <2>3
    <3> HIDE DEF j
    <3>2. g = [i \in 1 .. L + 1 |-> g[i]]
      <4> HIDE DEF b
      <4> QED OBVIOUS
    <3>3. ASSUME NEW i \in 1 .. L + 1, i >= j PROVE B(g, i) = B(f, i)
      <4>1. CASE i > L \/ ~x(i).found
        BY <4>1
      <4>2. CASE ~ (i > L \/ ~x(i).found)
        <5>1. x(i).next \in 1 .. L + 1 /\ x(i).next # j
          BY <1>0, <3>1, <3>3, <4>2
        <5>2. g[x(i).next] = f[x(i).next]
          <6> HIDE DEF b
          <6> QED BY <5>1
        <5> HIDE DEF g
        <5> QED BY <5>2
      <4> QED BY <4>1, <4>2
    <3>4. ASSUME NEW i \in 1 .. L + 1, i >= L + 1 - (k + 1) PROVE g[i] = B(g, i)
      <4>1. B(g, i) = B(f, i)
        <5> HIDE DEF B, g
        <5> QED BY <3>1, <3>3, <3>4
      <4>2. CASE i = j
        <5>1. g[i] = b
          <6> HIDE DEF b
          <6> QED BY <4>2
        <5> HIDE DEF B, g
        <5> QED BY <4>1, <4>2, <5>1
      <4>3. CASE i # j
        <5>1. g[i] = f[i]
          <6> HIDE DEF b
          <6> QED BY <4>3
        <5>2. i >= L + 1 - k
          BY <1>0, <3>1, <3>4, <4>3
        <5> HIDE DEF B, g
        <5> QED BY <2>1, <4>1, <5>1, <5>2
      <4> QED BY <4>2, <4>3
    <3>5. Good(g, k + 1)
      <4> HIDE DEF B, g
      <4> QED BY <3>2, <3>4
    <3> HIDE DEF Good, g
    <3> QED BY <3>5
  <2> HIDE DEF T
  <2> QED BY <1>0, <2>2, <2>3
<1>3. L + 1 \in T
  <2>1. Nat \subseteq T
    <3> HIDE DEF T
    <3> QED BY <1>1, <1>2, SetInduction
  <2> HIDE DEF T
  <2> QED BY <1>0, <2>1
<1>4. PICK w : Good(w, L + 1)
  BY <1>3
<1>5. w = E(w)
  <2> HIDE DEF B
  <2>1. \A i \in 1 .. L + 1 : w[i] = B(w, i)
    BY <1>0, <1>4
  <2>2. w = [i \in 1 .. L + 1 |-> w[i]]
    BY <1>4
  <2> QED BY <2>1, <2>2
<1>6. Codec!FieldsFrom(buf) = CHOOSE f : f = E(f)
  BY DEF Codec!FieldsFrom, L, x
<1> DEFINE v == Codec!FieldsFrom(buf)
<1>7. v = E(v)
  <2> HIDE DEF E
  <2> QED BY <1>5, <1>6
<1> HIDE DEF v
<1>8. \A i \in 1 .. L + 1 : v[i] = B(v, i)
  <2> HIDE DEF B
  <2> QED BY <1>7, Zenon
<1> QED BY <1>8 DEF v, L, x

-----------------------------------------------------------------------------
(* The fields of a payload.                                                *)

\* The greatest of one number.
LEMMA MaxOne == ASSUME NEW k \in Nat PROVE Codec!Max({k}) = k
  BY DEF Codec!Max

\* The only field of its number, a number.
LEMMA GetAt ==
    ASSUME NEW fs, NEW f, NEW k \in Nat, k \in 1 .. Len(fs), fs[k].field = f, fs[k].wire = 0,
           \A j \in 1 .. Len(fs) : fs[j].field = f => j = k
    PROVE  Codec!Get(fs, f, 0) = <<fs[k].num>>
<1> DEFINE A == {i \in 1 .. Len(fs) : fs[i].field = f}
<1>1. A = {k}
  OBVIOUS
<1>2. Codec!Max(A) = k /\ A # {}
  <2> HIDE DEF A
  <2> QED BY <1>1, MaxOne
<1> QED BY <1>2, Zenon DEF Codec!Get

\* A field that is not there.
LEMMA GetNot ==
    ASSUME NEW fs, NEW f, NEW wire, \A j \in 1 .. Len(fs) : fs[j].field # f
    PROVE  Codec!Get(fs, f, wire) = <<>>
<1>1. {i \in 1 .. Len(fs) : fs[i].field = f} = {}
  OBVIOUS
<1> QED BY <1>1 DEF Codec!Get

\* The shapes of what is decoded, and what is taken from them.
LEMMA Shapes ==
    ASSUME NEW a, NEW b, NEW c
    PROVE  /\ <<a>> \o <<>> = <<a>> /\ <<a>> \o <<b>> = <<a, b>> /\ <<a>> \o <<b, c>> = <<a, b, c>>
           /\ Len(<<a>>) = 1 /\ Len(<<a, b>>) = 2 /\ Len(<<a, b, c>>) = 3
<1> DEFINE S == {a, b, c}
<1>1. <<a>> \in Seq(S) /\ <<b>> \in Seq(S) /\ <<b, c>> \in Seq(S)
  OBVIOUS
<1>2. <<a, b>> \in Seq(S) /\ <<a, b, c>> \in Seq(S)
  OBVIOUS
<1>3. Len(<<a>>) = 1 /\ Len(<<b>>) = 1 /\ Len(<<a, b>>) = 2 /\ Len(<<a, b, c>>) = 3 /\ Len(<<b, c>>) = 2
  OBVIOUS
<1>4. <<a>> \o <<>> = <<a>>
  BY <1>1, ConcatEmptySeq
<1>5. <<a>> \o <<b>> = <<a, b>>
  <2> DEFINE u == <<a>> \o <<b>>
             w == <<a, b>>
  <2>1. u \in Seq(S) /\ Len(u) = 2 /\ u[1] = a /\ u[2] = b
    BY <1>1, <1>3, ConcatProperties
  <2>2. w \in Seq(S) /\ Len(w) = 2 /\ w[1] = a /\ w[2] = b
    OBVIOUS
  <2> HIDE DEF u, w, S
  <2>3. u = w
    BY <2>1, <2>2, SeqEqual
  <2> QED BY <2>3 DEF u, w
<1>6. <<a>> \o <<b, c>> = <<a, b, c>>
  <2> DEFINE u == <<a>> \o <<b, c>>
             w == <<a, b, c>>
  <2>1. u \in Seq(S) /\ Len(u) = 3 /\ u[1] = a /\ u[2] = b /\ u[3] = c
    BY <1>1, <1>3, ConcatProperties
  <2>2. w \in Seq(S) /\ Len(w) = 3 /\ w[1] = a /\ w[2] = b /\ w[3] = c
    OBVIOUS
  <2> HIDE DEF u, w, S
  <2>3. u = w
    BY <2>1, <2>2, SeqEqual
  <2> QED BY <2>3 DEF u, w
<1> QED BY <1>3, <1>4, <1>5, <1>6

\* Nothing is found among no fields.
LEMMA NoFields == Codec!Get(<<>>, 1, 0) = <<>> /\ Codec!Get(<<>>, 1, 2) = <<>> /\ Codec!Get(<<>>, 6, 0) = <<>>
<1>1. \A j \in 1 .. Len(<<>>) : FALSE
  OBVIOUS
<1> QED BY <1>1, GetNot

\* The parts of a number field.
LEMMA NumIs == ASSUME NEW f, NEW m PROVE Codec!Num(f, m).field = f /\ Codec!Num(f, m).wire = 0 /\ Codec!Num(f, m).num = m
  BY DEF Codec!Num

\* What is found when only the id was read.
LEMMA OneField ==
    ASSUME NEW m PROVE Codec!Get(<<Codec!Num(1, m)>>, 1, 0) = <<m>> /\ Codec!Get(<<Codec!Num(1, m)>>, 6, 0) = <<>>
<1> DEFINE fs == <<Codec!Num(1, m)>>
<1>1. Len(fs) = 1 /\ fs[1].field = 1 /\ fs[1].wire = 0 /\ fs[1].num = m
  BY NumIs
<1> HIDE DEF fs
<1>2. Codec!Get(fs, 1, 0) = <<m>>
  BY <1>1, GetAt
<1>3. Codec!Get(fs, 6, 0) = <<>>
  BY <1>1, GetNot
<1> QED BY <1>2, <1>3 DEF fs

\* What is found when the id and the multiplier were read.
LEMMA MoreFields ==
    ASSUME NEW i, NEW m, NEW fs, Len(fs) \in 2 .. 3, fs[1] = Codec!Num(1, i), fs[2] = Codec!Num(6, m),
           Len(fs) = 3 => fs[3].field = 7
    PROVE  Codec!Get(fs, 1, 0) = <<i>> /\ Codec!Get(fs, 6, 0) = <<m>>
<1>1. /\ fs[1].field = 1 /\ fs[1].wire = 0 /\ fs[1].num = i
      /\ fs[2].field = 6 /\ fs[2].wire = 0 /\ fs[2].num = m
  BY NumIs
<1> DEFINE L == Len(fs)
<1>0. L \in 2 .. 3
  OBVIOUS
<1>2. \A j \in 1 .. L : j = 1 \/ j = 2 \/ (j = 3 /\ L = 3)
  <2> HIDE DEF L
  <2> QED BY <1>0
<1>3. 1 \in 1 .. L /\ 2 \in 1 .. L
  <2> HIDE DEF L
  <2> QED BY <1>0
<1>4. Codec!Get(fs, 1, 0) = <<fs[1].num>>
  <2>1. \A j \in 1 .. Len(fs) : fs[j].field = 1 => j = 1
    BY <1>1, <1>2
  <2> QED BY <1>1, <1>3, <2>1, GetAt
<1>5. Codec!Get(fs, 6, 0) = <<fs[2].num>>
  <2>1. \A j \in 1 .. Len(fs) : fs[j].field = 6 => j = 2
    BY <1>1, <1>2
  <2> QED BY <1>1, <1>3, <2>1, GetAt
<1> QED BY <1>1, <1>4, <1>5

\* A byte without its flag is its group.
LEMMA ByteSmall == ASSUME NEW x \in 0 .. 255, x < 128 PROVE x % 128 = x
  OBVIOUS

\* The bytes of a number field.
LEMMA NumBytes ==
    ASSUME NEW f \in 1 .. 15, NEW m, Fits(m)
    PROVE  /\ Codec!EncodeField(Codec!Num(f, m)) \in Seq(0 .. 255)
           /\ Len(Codec!EncodeField(Codec!Num(f, m))) = 1 + Codec!GroupCount(m)
           /\ Codec!EncodeField(Codec!Num(f, m)) = Codec!WriteVarint(f * 8) \o Codec!WriteVarint(m)
<1> DEFINE c == f * 8
           u == Codec!WriteVarint(c)
           w == Codec!WriteVarint(m)
<1>1. c \in 0 .. 127
  OBVIOUS
<1>2. Codec!EncodeField(Codec!Num(f, m)) = u \o w
  <2>1. Codec!Num(f, m).field * 8 + Codec!Num(f, m).wire = c /\ Codec!Num(f, m).wire = 0
        /\ Codec!Num(f, m).num = m
    BY DEF Codec!Num
  <2> QED BY <2>1 DEF Codec!EncodeField
<1>3. u \in Seq(0 .. 255) /\ Len(u) = 1
  <2> HIDE DEF c
  <2> QED BY <1>1, SmallVarint, WrittenIs, ZenonT(90)
<1>4. w \in Seq(0 .. 255) /\ Len(w) = Codec!GroupCount(m)
  BY WrittenIs
<1> HIDE DEF u, w
<1>5. u \o w \in Seq(0 .. 255) /\ Len(u \o w) = Len(u) + Len(w)
  BY <1>3, <1>4, ConcatProperties, ZenonT(60)
<1> QED BY <1>2, <1>3, <1>4, <1>5, Zenon DEF u, w, c

\* The bytes of a text field.
LEMMA TextBytes ==
    ASSUME NEW f \in 1 .. 15, NEW h \in Seq(0 .. 255), Fits(Len(h))
    PROVE  /\ Codec!EncodeField(Codec!Text(f, h)) \in Seq(0 .. 255)
           /\ Len(Codec!EncodeField(Codec!Text(f, h))) = 1 + Codec!GroupCount(Len(h)) + Len(h)
<1> DEFINE c == f * 8 + 2
           u == Codec!WriteVarint(c)
           w == Codec!WriteVarint(Len(h))
<1>1. c \in 0 .. 127
  OBVIOUS
<1>2. Codec!EncodeField(Codec!Text(f, h)) = u \o (w \o h)
  <2>1. Codec!Text(f, h).field * 8 + Codec!Text(f, h).wire = c /\ Codec!Text(f, h).wire = 2
        /\ Codec!Text(f, h).text = h
    BY DEF Codec!Text
  <2> QED BY <2>1, SMTT(60) DEF Codec!EncodeField
<1>3. u \in Seq(0 .. 255) /\ Len(u) = 1
  <2> HIDE DEF c
  <2> QED BY <1>1, SmallVarint, WrittenIs, ZenonT(90)
<1>4. w \in Seq(0 .. 255) /\ Len(w) = Codec!GroupCount(Len(h)) /\ Codec!GroupCount(Len(h)) \in 1 .. 10
      /\ Len(h) \in Nat
  BY WrittenIs, GroupsOf
<1> HIDE DEF u, w
<1>5. w \o h \in Seq(0 .. 255) /\ Len(w \o h) = Len(w) + Len(h)
  BY <1>4, ConcatProperties
<1>6. u \o (w \o h) \in Seq(0 .. 255) /\ Len(u \o (w \o h)) = Len(u) + Len(w \o h)
  BY <1>3, <1>5, ConcatProperties, ZenonT(90)
<1>7. Len(u \o (w \o h)) = 1 + Codec!GroupCount(Len(h)) + Len(h)
  BY <1>3, <1>4, <1>5, <1>6
<1> QED BY <1>2, <1>6, <1>7

\* The three parts of a round's payload.
LEMMA RoundBytes ==
    ASSUME NEW i, NEW m, NEW h \in Seq(0 .. 255), Fits(i), Fits(m), Fits(Len(h))
    PROVE  LET p == Codec!EncodeEndPayload(i, m, h)
               a == Codec!GroupCount(i)
               b == Codec!GroupCount(m)
               c == IF h = <<>> THEN 0 ELSE 1 + Codec!GroupCount(Len(h)) + Len(h)
           IN  /\ p \in Seq(0 .. 255) /\ Len(p) = 2 + a + b + c
               /\ \A buf : Matches(buf, 1, p) =>
                    /\ Matches(buf, 1, Codec!EncodeField(Codec!Num(1, i)))
                    /\ Matches(buf, 2 + a, Codec!EncodeField(Codec!Num(6, m)))
                    /\ h # <<>> => Matches(buf, 3 + a + b, Codec!EncodeField(Codec!Text(7, h)))
<1> DEFINE p == Codec!EncodeEndPayload(i, m, h)
           a == Codec!GroupCount(i)
           b == Codec!GroupCount(m)
           c == IF h = <<>> THEN 0 ELSE 1 + Codec!GroupCount(Len(h)) + Len(h)
           u == Codec!EncodeField(Codec!Num(1, i))
           v == Codec!EncodeField(Codec!Num(6, m))
           w == IF h = <<>> THEN <<>> ELSE Codec!EncodeField(Codec!Text(7, h))
<1>1. p = (u \o v) \o w
  BY DEF Codec!EncodeEndPayload
<1>2. /\ u \in Seq(0 .. 255) /\ Len(u) = 1 + a /\ a \in 1 .. 10
      /\ v \in Seq(0 .. 255) /\ Len(v) = 1 + b /\ b \in 1 .. 10
  <2>1. 1 \in 1 .. 15 /\ 6 \in 1 .. 15
    OBVIOUS
  <2> QED BY <2>1, NumBytes, GroupsOf
<1>3. w \in Seq(0 .. 255) /\ Len(w) = c /\ c \in Nat
  <2>1. CASE h = <<>>
    BY <2>1
  <2>2. CASE h # <<>>
    <3>1. 7 \in 1 .. 15
      OBVIOUS
    <3>2. w \in Seq(0 .. 255) /\ Len(w) = c
      BY <2>2, <3>1, TextBytes
    <3> QED BY <3>2
  <2> QED BY <2>1, <2>2
<1>4. h # <<>> => w = Codec!EncodeField(Codec!Text(7, h))
  OBVIOUS
<1> HIDE DEF p, a, b, c, u, v, w
<1>5. u \o v \in Seq(0 .. 255) /\ Len(u \o v) = Len(u) + Len(v)
  BY <1>2, ConcatProperties
<1>6. p \in Seq(0 .. 255) /\ Len(p) = Len(u \o v) + Len(w)
  BY <1>1, <1>3, <1>5, ConcatProperties, ZenonT(90)
<1>7. Len(p) = 2 + a + b + c /\ 1 + Len(u) = 2 + a /\ 1 + Len(u \o v) = 3 + a + b
  BY <1>2, <1>3, <1>5, <1>6
<1>8. ASSUME NEW buf, Matches(buf, 1, p)
      PROVE  Matches(buf, 1, u) /\ Matches(buf, 2 + a, v) /\ Matches(buf, 3 + a + b, w)
  <2>1. 1 \in Nat \ {0}
    OBVIOUS
  <2>2. Matches(buf, 1, (u \o v) \o w)
    BY <1>1, <1>8
  <2>3. Matches(buf, 1, u \o v) /\ Matches(buf, 1 + Len(u \o v), w)
    BY <1>3, <1>5, <2>1, <2>2, MatchesSplit, Zenon
  <2>4. Matches(buf, 1, u) /\ Matches(buf, 1 + Len(u), v)
    BY <1>2, <2>1, <2>3, MatchesSplit
  <2> QED BY <1>7, <2>3, <2>4
<1>9. \A buf : Matches(buf, 1, p) =>
        /\ Matches(buf, 1, u) /\ Matches(buf, 2 + a, v)
        /\ h # <<>> => Matches(buf, 3 + a + b, Codec!EncodeField(Codec!Text(7, h)))
  BY <1>4, <1>8
<1> QED BY <1>6, <1>7, <1>9 DEF p, a, b, c, u, v

\* A field that is not read ends the reading.
LEMMA FieldsEnd ==
    ASSUME NEW buf \in Seq(0 .. 255), NEW off \in 1 .. Len(buf) + 1,
           off > Len(buf) \/ Codec!DecodeField(buf, off) = [found |-> FALSE]
    PROVE  Codec!FieldsFrom(buf)[off] = <<>>
<1>1. off > Len(buf) \/ ~Codec!DecodeField(buf, off).found
  OBVIOUS
<1> QED BY <1>1, FieldsAre, Zenon

\* Decoding goes on after a field that was read.
LEMMA FieldsGoOn ==
    ASSUME NEW buf \in Seq(0 .. 255), NEW off \in 1 .. Len(buf), Codec!DecodeField(buf, off).found = TRUE
    PROVE  Codec!FieldsFrom(buf)[off] =
           <<Codec!DecodeField(buf, off).field>> \o Codec!FieldsFrom(buf)[Codec!DecodeField(buf, off).next]
<1>1. off \in 1 .. Len(buf) + 1 /\ ~ (off > Len(buf))
  OBVIOUS
<1> QED BY <1>1, FieldsAre, Zenon

\* The start of a round's payload: its id and its multiplier, or what there is of
\* them.
LEMMA RoundFields ==
    ASSUME NEW i, NEW m, NEW h \in Seq(0 .. 255), Fits(i), Fits(m), Fits(Len(h)),
           NEW buf \in Seq(0 .. 255), Matches(buf, 1, Codec!EncodeEndPayload(i, m, h)),
           Len(buf) <= Len(Codec!EncodeEndPayload(i, m, h))
    PROVE  LET a == Codec!GroupCount(i)
               b == Codec!GroupCount(m)
               gotId == 1 + a <= Len(buf) /\ a <= Groups
               gotMult == gotId /\ 2 + a + b <= Len(buf) /\ b <= Groups
               r == Codec!FieldsToPayload(Codec!DecodeProtobuf(buf))
           IN  r.id = (IF gotId THEN <<i>> ELSE <<>>) /\ r.mult = (IF gotMult THEN <<m>> ELSE <<>>)
<1> DEFINE a == Codec!GroupCount(i)
           b == Codec!GroupCount(m)
           c == IF h = <<>> THEN 0 ELSE 1 + Codec!GroupCount(Len(h)) + Len(h)
           L == Len(buf)
           gotId == 1 + a <= L /\ a <= Groups
           gotMult == gotId /\ 2 + a + b <= L /\ b <= Groups
           D == Codec!DecodeProtobuf(buf)
           F == Codec!FieldsFrom(buf)
           r == Codec!FieldsToPayload(D)
<1>0. r.id = (IF Codec!Get(D, 1, 0) # <<>> THEN Codec!Get(D, 1, 0) ELSE Codec!Get(D, 1, 2))
      /\ r.mult = Codec!Get(D, 6, 0) /\ D = F[1]
  BY DEF Codec!FieldsToPayload, Codec!DecodeProtobuf
<1>1. a \in 1 .. 10 /\ b \in 1 .. 10 /\ L \in Nat /\ L <= 2 + a + b + c
  BY GroupsOf, RoundBytes
<1>2. Matches(buf, 1, Codec!EncodeField(Codec!Num(1, i)))
      /\ Matches(buf, 2 + a, Codec!EncodeField(Codec!Num(6, m)))
      /\ (h # <<>> => Matches(buf, 3 + a + b, Codec!EncodeField(Codec!Text(7, h))))
  BY RoundBytes
<1>3. 1 \in 1 .. 15 /\ 6 \in 1 .. 15 /\ 7 \in 1 .. 15 /\ Groups \in Nat /\ 1 \in 1 .. L + 1
  BY <1>1, CodecAssumption
<1>4. L >= 1 => Codec!DecodeField(buf, 1) =
           IF 1 + a <= L /\ a <= Groups
           THEN [found |-> TRUE, next |-> 1 + 1 + a, field |-> Codec!Num(1, i)]
           ELSE [found |-> FALSE]
  <2> HAVE L >= 1
  <2>1. 1 \in 1 .. Len(buf)
    OBVIOUS
  <2> QED BY <1>2, <1>3, <2>1, ReadNum
<1>5. 2 + a <= L => Codec!DecodeField(buf, 2 + a) =
           IF 2 + a + b <= L /\ b <= Groups
           THEN [found |-> TRUE, next |-> 2 + a + 1 + b, field |-> Codec!Num(6, m)]
           ELSE [found |-> FALSE]
  <2> HAVE 2 + a <= L
  <2>1. 2 + a \in 1 .. Len(buf)
    BY <1>1
  <2> QED BY <1>2, <1>3, <2>1, ReadNum, ZenonT(60)
<1>6. ASSUME 3 + a + b <= L
      PROVE  LET x == Codec!DecodeField(buf, 3 + a + b) IN
             \/ x = [found |-> FALSE]
             \/ x.found = TRUE /\ x.field.field = 7 /\ x.next = L + 1
  <2> DEFINE o == 3 + a + b
             x == Codec!DecodeField(buf, o)
             d == Codec!GroupCount(Len(h))
             l == Len(h)
  <2>1. o \in 1 .. L
    <3> HIDE DEF a, b, c, L
    <3> QED BY <1>1, <1>6
  <2>2. d \in 1 .. 10 /\ l \in Nat
    BY GroupsOf
  <2>3. h # <<>>
    <3> SUFFICES ASSUME h = <<>> PROVE FALSE
      OBVIOUS
    <3>1. c = 0
      OBVIOUS
    <3> HIDE DEF a, b, c, L
    <3> QED BY <1>1, <1>6, <3>1
  <2>4. c = 1 + d + l
    BY <2>3
  <2>5. \/ x = [found |-> FALSE]
        \/ x.found = TRUE /\ x.field.field = 7 /\ x.next = o + 1 + d + l
    <3>1. Matches(buf, o, Codec!EncodeField(Codec!Text(7, h)))
      BY <1>2, <2>3
    <3> HIDE DEF o, a, b
    <3>2. \/ x = [found |-> FALSE]
          \/ /\ x.found = TRUE /\ x.field.field = 7 /\ x.field.wire = 2
             /\ x.next = o + 1 + d + l
      BY <1>3, <2>1, <3>1, ReadText, ZenonT(90)
    <3> QED BY <3>2
  <2>6. x.found = FALSE \/ (x.found = TRUE /\ x.next \in o + 1 .. L + 1)
    <3> HIDE DEF o
    <3> QED BY <2>1, FieldProgress, Zenon
  <2>7. o + 1 + d + l >= L + 1
    <3> HIDE DEF a, b, c, L, d, l
    <3> QED BY <1>1, <2>2, <2>4
  <2> HIDE DEF x, a, b, c, L, d, l, o
  <2>8. CASE x.found = TRUE
    <3>1. x.field.field = 7 /\ x.next = o + 1 + d + l
      BY <2>5, <2>8
    <3>2. x.next = L + 1
      BY <1>1, <2>1, <2>6, <2>7, <2>8, <3>1
    <3> QED BY <2>8, <3>1, <3>2 DEF x, o
  <2>9. CASE x.found # TRUE
    <3>1. x = [found |-> FALSE]
      BY <2>5, <2>9, Zenon
    <3> QED BY <3>1 DEF x, o
  <2> QED BY <2>8, <2>9, Zenon
<1>7. CASE ~gotId
  <2>1. D = <<>>
    <3>1. 1 > Len(buf) \/ Codec!DecodeField(buf, 1) = [found |-> FALSE]
      BY <1>1, <1>4, <1>7
    <3> QED BY <1>0, <1>3, <3>1, FieldsEnd
  <2> HIDE DEF D, F, r
  <2> QED BY <1>0, <1>7, <2>1, NoFields DEF r, D
<1>8. CASE gotId
  <2> DEFINE x == Codec!DecodeField(buf, 1)
  <2>1. x.found = TRUE /\ x.next = 2 + a /\ x.field = Codec!Num(1, i) /\ 2 + a \in 1 .. L + 1 /\ 1 \in 1 .. L
    <3>1. x = [found |-> TRUE, next |-> 1 + 1 + a, field |-> Codec!Num(1, i)] /\ 1 + 1 + a = 2 + a
      BY <1>1, <1>4, <1>8
    <3> HIDE DEF x
    <3> QED BY <1>1, <1>8, <3>1
  <2>2. D = <<Codec!Num(1, i)>> \o F[2 + a]
    <3>1. F[1] = <<x.field>> \o F[x.next]
      BY <2>1, FieldsGoOn, Zenon
    <3> HIDE DEF x, F
    <3> QED BY <1>0, <2>1, <3>1
  <2>3. CASE ~gotMult
    <3>1. F[2 + a] = <<>>
      <4>1. 2 + a > Len(buf) \/ Codec!DecodeField(buf, 2 + a) = [found |-> FALSE]
        BY <1>1, <1>5, <1>8, <2>3
      <4> QED BY <2>1, <4>1, FieldsEnd
    <3>2. D = <<Codec!Num(1, i)>>
      <4> HIDE DEF F, D
      <4> QED BY <2>2, <3>1, Shapes
    <3> HIDE DEF D, F, r
    <3>3. Codec!Get(D, 1, 0) = <<i>> /\ Codec!Get(D, 6, 0) = <<>>
      BY <3>2, OneField
    <3>4. <<i>> # <<>>
      OBVIOUS
    <3> QED BY <1>0, <1>8, <2>3, <3>3, <3>4, Zenon DEF r, D
  <2>4. CASE gotMult
    <3> DEFINE y == Codec!DecodeField(buf, 2 + a)
               z == Codec!DecodeField(buf, 3 + a + b)
               o == 3 + a + b
    <3>1. y.found = TRUE /\ y.next = o /\ y.field = Codec!Num(6, m) /\ o \in 1 .. L + 1 /\ 2 + a \in 1 .. L
      <4>1. y = [found |-> TRUE, next |-> 2 + a + 1 + b, field |-> Codec!Num(6, m)] /\ 2 + a + 1 + b = o
        BY <1>1, <1>5, <2>4, SMTT(60)
      <4> HIDE DEF y
      <4>2. o \in 1 .. L + 1 /\ 2 + a \in 1 .. L
        <5> HIDE DEF a, b, c, L
        <5> QED BY <1>1, <2>4
      <4> QED BY <4>1, <4>2
    <3>2. F[2 + a] = <<Codec!Num(6, m)>> \o F[o]
      <4>1. F[2 + a] = <<y.field>> \o F[y.next]
        BY <3>1, FieldsGoOn, Zenon
      <4> HIDE DEF y, F
      <4> QED BY <3>1, <4>1
    <3>3. F[o] = <<>> \/ \E q : F[o] = <<q>> /\ q.field = 7
      <4>1. CASE o > L \/ z = [found |-> FALSE]
        BY <3>1, <4>1, FieldsEnd
      <4>2. CASE o <= L /\ z.found = TRUE /\ z.field.field = 7 /\ z.next = L + 1
        <5>1. o \in 1 .. L /\ L + 1 \in 1 .. L + 1 /\ L + 1 > L
          BY <1>1, <3>1, <4>2
        <5>2. F[o] = <<z.field>> \o F[L + 1]
          BY <4>2, <5>1, FieldsGoOn, Zenon
        <5>3. F[L + 1] = <<>>
          BY <5>1, FieldsEnd
        <5> HIDE DEF F, z, o, L
        <5>4. F[o] = <<z.field>>
          BY <5>2, <5>3, Shapes
        <5> QED BY <4>2, <5>4
      <4>3. CASE o <= L
        <5>1. z = [found |-> FALSE] \/ (z.found = TRUE /\ z.field.field = 7 /\ z.next = L + 1)
          BY <1>6, <4>3, Zenon
        <5> HIDE DEF F, z, o
        <5> QED BY <4>1, <4>2, <4>3, <5>1, Zenon
      <4>4. CASE o > L
        <5> HIDE DEF F, z, o
        <5> QED BY <4>1, <4>4
      <4> HIDE DEF F, z, a, b, L
      <4>5. o <= L \/ o > L
        BY <1>1
      <4> HIDE DEF o
      <4> QED BY <4>3, <4>4, <4>5, Zenon
    <3>4. \E fs : /\ D = fs /\ Len(fs) \in 2 .. 3 /\ fs[1] = Codec!Num(1, i) /\ fs[2] = Codec!Num(6, m)
                  /\ Len(fs) = 3 => fs[3].field = 7
      <4> HIDE DEF F, D, o
      <4>1. CASE F[o] = <<>>
        <5>1. D = <<Codec!Num(1, i), Codec!Num(6, m)>>
          BY <2>2, <3>2, <4>1, Shapes, ZenonT(60)
        <5> QED BY <5>1
      <4>2. CASE \E q : F[o] = <<q>> /\ q.field = 7
        <5>1. PICK q : F[o] = <<q>> /\ q.field = 7
          BY <4>2
        <5>2. F[2 + a] = <<Codec!Num(6, m), q>>
          BY <3>2, <5>1, Shapes, Zenon
        <5>3. D = <<Codec!Num(1, i), Codec!Num(6, m), q>>
          BY <2>2, <5>2, Shapes, ZenonT(60)
        <5> QED BY <5>1, <5>3
      <4> QED BY <3>3, <4>1, <4>2
    <3>5. Codec!Get(D, 1, 0) = <<i>> /\ Codec!Get(D, 6, 0) = <<m>>
      <4> HIDE DEF D
      <4>1. /\ Len(D) \in 2 .. 3 /\ D[1] = Codec!Num(1, i) /\ D[2] = Codec!Num(6, m)
            /\ Len(D) = 3 => D[3].field = 7
        BY <3>4, Zenon
      <4> QED BY <4>1, MoreFields
    <3>6. <<i>> # <<>>
      OBVIOUS
    <3> HIDE DEF D, F, r
    <3> QED BY <1>0, <1>8, <2>4, <3>5, <3>6, Zenon DEF r, D
  <2> QED BY <2>3, <2>4
<1> QED BY <1>7, <1>8

\* The start of a progress payload.
LEMMA ProgressField ==
    ASSUME NEW m, Fits(m), NEW buf \in Seq(0 .. 255), Matches(buf, 1, Codec!EncodeProgressPayload(m))
    PROVE  Codec!DecodeProgressElapsed(buf) =
           IF 1 + Codec!GroupCount(m) <= Len(buf) /\ Codec!GroupCount(m) <= Groups THEN <<m>> ELSE <<>>
<1> DEFINE a == Codec!GroupCount(m)
           L == Len(buf)
           u == Codec!WriteVarint(8)
           w == Codec!WriteVarint(m)
           fast == Codec!ReadVarint(buf, 2)
<1>0. 1 \in 1 .. 15 /\ 8 \in 0 .. 127 /\ 1 * 8 = 8 /\ 2 \in Nat \ {0} /\ 1 \in Nat \ {0} /\ 1 + 1 = 2
  OBVIOUS
<1>1. Matches(buf, 1, Codec!EncodeField(Codec!Num(1, m))) /\ Codec!EncodeField(Codec!Num(1, m)) = u \o w
  BY <1>0, NumBytes, Zenon DEF Codec!EncodeProgressPayload
<1>2. /\ u \in Seq(0 .. 255) /\ Len(u) = 1 /\ w \in Seq(0 .. 255) /\ a \in 1 .. 10 /\ Fits(8)
      /\ u[1] % 128 = Codec!Shifted(8, 128)[1 - 1] % 128 /\ u[1] < 128
  <2>1. Fits(8) /\ Codec!GroupCount(8) = 1
    BY <1>0, SmallVarint
  <2>2. u \in Seq(0 .. 255) /\ Len(u) = Codec!GroupCount(8)
        /\ \A k \in 1 .. Codec!GroupCount(8) : /\ u[k] % 128 = Codec!Shifted(8, 128)[k - 1] % 128
                                               /\ u[k] < 128 <=> k = Codec!GroupCount(8)
    BY <2>1, WrittenIs
  <2>3. w \in Seq(0 .. 255) /\ a \in 1 .. 10
    BY WrittenIs, GroupsOf
  <2>4. 1 \in 1 .. 1
    OBVIOUS
  <2> HIDE DEF u, w
  <2> QED BY <2>1, <2>2, <2>3, <2>4
<1>3. u[1] = 8
  <2>1. Codec!Shifted(8, 128)[0] = 8
    <3>1. 8 \in Nat /\ 128 \in Nat \ {0}
      OBVIOUS
    <3> QED BY <3>1, ShiftedIs
  <2>2. u[1] \in 0 .. 255
    <3>1. 1 \in 1 .. Len(u)
      BY <1>2
    <3> HIDE DEF u
    <3> QED BY <1>2, <3>1, ElementOfSeq, ZenonT(60)
  <2>3. u[1] % 128 = 8 % 128 /\ u[1] < 128
    <3>1. 1 - 1 = 0
      OBVIOUS
    <3> HIDE DEF u
    <3> QED BY <1>2, <2>1, <3>1
  <2>4. 8 % 128 = 8
    OBVIOUS
  <2> HIDE DEF u
  <2>5. u[1] % 128 = u[1]
    BY <2>2, <2>3, ByteSmall, Zenon
  <2> QED BY <2>3, <2>4, <2>5
<1> HIDE DEF u, w, a
<1>4. Matches(buf, 1, u) /\ Matches(buf, 2, w)
  <2>1. Matches(buf, 1, u \o w)
    BY <1>1, Zenon
  <2>2. Matches(buf, 1, u) /\ Matches(buf, 1 + Len(u), w)
    BY <1>0, <1>2, <2>1, MatchesSplit, Zenon
  <2> QED BY <1>0, <1>2, <2>2
<1>5. fast = IF 2 + a - 1 <= L /\ a <= Groups
             THEN [found |-> TRUE, next |-> 2 + a, value |-> m] ELSE [found |-> FALSE]
  BY <1>0, <1>4, ReadWritten DEF w, a
<1>6. 2 + a - 1 = 1 + a /\ L \in Nat
  BY <1>2
<1>7. CASE buf = <<>>
  <2>1. L = 0
    BY <1>7
  <2>2. ~ (1 + a <= L)
    BY <1>2, <2>1
  <2> QED BY <1>7, <2>2 DEF Codec!DecodeProgressElapsed, a
<1>8. CASE buf # <<>>
  <2>1. L >= 1
    BY <1>8
  <2>2. buf[1] = 8
    <3>1. 1 \in 1 .. Len(u) /\ 1 + 1 - 1 <= Len(buf) /\ 1 + 1 - 1 = 1
      BY <1>2, <2>1
    <3> QED BY <1>3, <1>4, <3>1 DEF Matches
  <2>3. CASE 1 + a <= L /\ a <= Groups
    <3>1. fast.found = TRUE /\ fast.value = m
      <4>1. fast = [found |-> TRUE, next |-> 2 + a, value |-> m]
        BY <1>5, <1>6, <2>3
      <4> HIDE DEF fast
      <4> QED BY <4>1
    <3>2. Codec!DecodeProgressElapsed(buf) = <<m>>
      BY <1>8, <2>2, <3>1 DEF Codec!DecodeProgressElapsed
    <3> QED BY <2>3, <3>2 DEF a
  <2>4. CASE ~ (1 + a <= L /\ a <= Groups)
    <3>1. ~ fast.found
      <4>1. fast = [found |-> FALSE]
        BY <1>5, <1>6, <2>4
      <4> HIDE DEF fast
      <4> QED BY <4>1
    <3>2. Codec!DecodeProgressElapsed(buf) = Codec!Get(Codec!DecodeProtobuf(buf), 1, 0)
      BY <1>8, <3>1 DEF Codec!DecodeProgressElapsed
    <3>3. 1 \in 1 .. Len(buf) /\ 1 \in 1 .. Len(buf) + 1
      BY <2>1
    <3>4. Codec!DecodeField(buf, 1) =
           IF 1 + a <= Len(buf) /\ a <= Groups
           THEN [found |-> TRUE, next |-> 1 + 1 + a, field |-> Codec!Num(1, m)] ELSE [found |-> FALSE]
      BY <1>0, <1>1, <3>3, ReadNum DEF a
    <3>5. Codec!DecodeField(buf, 1) = [found |-> FALSE]
      BY <2>4, <3>4
    <3>6. Codec!DecodeProtobuf(buf) = <<>>
      BY <3>3, <3>5, FieldsEnd DEF Codec!DecodeProtobuf
    <3>7. Codec!DecodeProgressElapsed(buf) = <<>>
      BY <3>2, <3>6, NoFields
    <3> QED BY <2>4, <3>7 DEF a
  <2> QED BY <2>3, <2>4
<1> QED BY <1>7, <1>8

-----------------------------------------------------------------------------
(***************************************************************************)
(* Packets.                                                                *)
(***************************************************************************)

Names == Codec!RoundNames \cup {"pg"}

\* The name of an event is one byte, mapped to its kind.
LEMMA NamesAre ==
    ASSUME NEW name \in Names
    PROVE  /\ Codec!EventNames[name] \in 1 .. 15
           /\ Codec!MapEventName(<<Codec!EventNames[name]>>) \in {"Progress", "Prepare", "Start", "End", "Heartbeat"}
           /\ Codec!MapEventName(<<Codec!EventNames[name]>>) = "Progress" <=> name = "pg"
<1> DEFINE N == Codec!EventNames
<1>1. /\ N["pg"] = 1 /\ N["pr"] = 2 /\ N["prepare"] = 3 /\ N["ready"] = 4 /\ N["bg"] = 5
      /\ N["begin"] = 6 /\ N["start"] = 7 /\ N["ed"] = 8 /\ N["st"] = 9 /\ N["end"] = 10
      /\ N["crash"] = 11 /\ N["bust"] = 12 /\ N["ping"] = 13 /\ N["pong"] = 14
  BY DEF Codec!EventNames
<1>2. \A a, b : <<a>> = <<b>> <=> a = b
  OBVIOUS
<1>3. \A e, A : Codec!Named(<<e>>, A) <=> \E w \in A : e = N[w]
  BY <1>2 DEF Codec!Named
<1> HIDE DEF N
<1>4. name \in {"pg", "ed", "st", "crash", "bg", "begin", "pr", "ready", "ping"}
  BY DEF Names, Codec!RoundNames
<1>5. N[name] \in 1 .. 15
  BY <1>1, <1>4
<1>6. /\ Codec!Named(<<N[name]>>, {"pg"}) <=> name = "pg"
      /\ Codec!Named(<<N[name]>>, {"pr", "prepare", "ready"}) <=> name \in {"pr", "ready"}
      /\ Codec!Named(<<N[name]>>, {"bg", "begin", "start"}) <=> name \in {"bg", "begin"}
      /\ Codec!Named(<<N[name]>>, {"ed", "st", "end", "crash", "bust"}) <=> name \in {"ed", "st", "crash"}
      /\ Codec!Named(<<N[name]>>, {"ping", "pong"}) <=> name = "ping"
  BY <1>1, <1>3, <1>4
<1>7. Codec!MapEventName(<<N[name]>>) =
        CASE name = "pg" -> "Progress" [] name \in {"pr", "ready"} -> "Prepare"
          [] name \in {"bg", "begin"} -> "Start" [] name \in {"ed", "st", "crash"} -> "End"
          [] name = "ping" -> "Heartbeat" [] OTHER -> "Unknown"
  BY <1>6 DEF Codec!MapEventName
<1> QED BY <1>4, <1>5, <1>7 DEF N

\* The bytes of two parts put together.
LEMMA Joined ==
    ASSUME NEW u \in Seq(0 .. 255), NEW v \in Seq(0 .. 255)
    PROVE  /\ u \o v \in Seq(0 .. 255) /\ Len(u \o v) = Len(u) + Len(v)
           /\ \A i \in 1 .. Len(u) : (u \o v)[i] = u[i]
           /\ \A i \in 1 .. Len(v) : (u \o v)[Len(u) + i] = v[i]
<1>1. /\ Len(u) \in Nat /\ Len(v) \in Nat /\ u \o v \in Seq(0 .. 255) /\ Len(u \o v) = Len(u) + Len(v)
      /\ \A i \in 1 .. Len(u) + Len(v) : (u \o v)[i] = IF i <= Len(u) THEN u[i] ELSE v[i - Len(u)]
  BY ConcatProperties, LenProperties
<1>2. ASSUME NEW i \in 1 .. Len(u) PROVE (u \o v)[i] = u[i]
  <2>1. i \in 1 .. Len(u) + Len(v) /\ i <= Len(u)
    BY <1>1
  <2> QED BY <1>1, <2>1
<1>3. ASSUME NEW i \in 1 .. Len(v) PROVE (u \o v)[Len(u) + i] = v[i]
  <2>1. Len(u) + i \in 1 .. Len(u) + Len(v) /\ ~ (Len(u) + i <= Len(u)) /\ (Len(u) + i) - Len(u) = i
    BY <1>1
  <2> QED BY <1>1, <2>1
<1> QED BY <1>1, <1>2, <1>3

\* The bytes of a part.
LEMMA Slice ==
    ASSUME NEW s \in Seq(0 .. 255), NEW a \in Nat \ {0}, NEW b \in Nat, a <= b + 1, b <= Len(s)
    PROVE  /\ SubSeq(s, a, b) \in Seq(0 .. 255) /\ Len(SubSeq(s, a, b)) = b - a + 1
           /\ \A i \in 1 .. b - a + 1 : SubSeq(s, a, b)[i] = s[a + i - 1]
<1>1. \A i \in a .. b : s[i] \in 0 .. 255
  <2> TAKE i \in a .. b
  <2>1. i \in 1 .. Len(s)
    OBVIOUS
  <2> QED BY <2>1, ElementOfSeq
<1>2. a \in Int /\ b \in Int
  OBVIOUS
<1>3. /\ SubSeq(s, a, b) \in Seq(0 .. 255) /\ Len(SubSeq(s, a, b)) = IF a <= b THEN b - a + 1 ELSE 0
      /\ \A i \in 1 .. b - a + 1 : SubSeq(s, a, b)[i] = s[a + i - 1]
  BY <1>1, <1>2, SubSeqProperties
<1>4. (IF a <= b THEN b - a + 1 ELSE 0) = b - a + 1
  OBVIOUS
<1> QED BY <1>3, <1>4

\* The bytes of an event packet: its header, then its payload.
LEMMA EventBytes ==
    ASSUME NEW name \in Names, NEW p \in Seq(0 .. 255)
    PROVE  LET q == Codec!EncodeEvent(name, p) IN
           /\ q \in Seq(0 .. 255) /\ Len(q) = 6 + Len(p)
           /\ q[1] = 4 /\ q[2] = 2 /\ q[3] = 1 /\ q[4] = 47 /\ q[5] = 1 /\ q[6] = Codec!EventNames[name]
           /\ \A i \in 1 .. Len(p) : q[6 + i] = p[i]
<1> DEFINE q == Codec!EncodeEvent(name, p)
           e == Codec!EventNames[name]
           u == <<4, 2, 1>>
           v == <<47>>
           w == <<1, e>>
<1>0. e \in 1 .. 15
  BY NamesAre, Zenon
<1>1. q = ((u \o v) \o w) \o p
  <2>1. Len(Codec!Nsp) = 1 /\ Codec!Nsp = v
    BY DEF Codec!Nsp
  <2> QED BY <2>1 DEF Codec!EncodeEvent
<1> HIDE DEF e, q
<1>2. /\ u \in Seq(0 .. 255) /\ v \in Seq(0 .. 255) /\ w \in Seq(0 .. 255)
      /\ Len(u) = 3 /\ Len(v) = 1 /\ Len(w) = 2 /\ Len(p) \in Nat
      /\ u[1] = 4 /\ u[2] = 2 /\ u[3] = 1 /\ v[1] = 47 /\ w[1] = 1 /\ w[2] = e
  BY <1>0
<1> HIDE DEF u, v, w
<1>3. /\ u \o v \in Seq(0 .. 255) /\ Len(u \o v) = 4
      /\ (u \o v)[1] = 4 /\ (u \o v)[2] = 2 /\ (u \o v)[3] = 1 /\ (u \o v)[4] = 47
  <2>1. 1 \in 1 .. 3 /\ 2 \in 1 .. 3 /\ 3 \in 1 .. 3 /\ 1 \in 1 .. 1 /\ 3 + 1 = 4
    OBVIOUS
  <2>2. /\ u \o v \in Seq(0 .. 255) /\ Len(u \o v) = 3 + 1
        /\ \A i \in 1 .. 3 : (u \o v)[i] = u[i]
        /\ \A i \in 1 .. 1 : (u \o v)[3 + i] = v[i]
    <3>1. /\ u \o v \in Seq(0 .. 255) /\ Len(u \o v) = Len(u) + Len(v)
          /\ \A i \in 1 .. Len(u) : (u \o v)[i] = u[i]
          /\ \A i \in 1 .. Len(v) : (u \o v)[Len(u) + i] = v[i]
      BY <1>2, Joined, ZenonT(90)
    <3> QED BY <1>2, <3>1
  <2> QED BY <1>2, <2>1, <2>2
<1> DEFINE x == (u \o v) \o w
<1>4. /\ x \in Seq(0 .. 255) /\ Len(x) = 6
      /\ x[1] = 4 /\ x[2] = 2 /\ x[3] = 1 /\ x[4] = 47 /\ x[5] = 1 /\ x[6] = e
  <2> DEFINE y == u \o v
  <2> HIDE DEF y
  <2>1. y \in Seq(0 .. 255) /\ Len(y) = 4 /\ y[1] = 4 /\ y[2] = 2 /\ y[3] = 1 /\ y[4] = 47 /\ x = y \o w
    BY <1>3 DEF y
  <2> HIDE DEF x
  <2>2. /\ x \in Seq(0 .. 255) /\ Len(x) = 4 + 2
        /\ \A i \in 1 .. 4 : x[i] = y[i]
        /\ \A i \in 1 .. 2 : x[4 + i] = w[i]
    <3>1. /\ y \o w \in Seq(0 .. 255) /\ Len(y \o w) = Len(y) + Len(w)
          /\ \A i \in 1 .. Len(y) : (y \o w)[i] = y[i]
          /\ \A i \in 1 .. Len(w) : (y \o w)[Len(y) + i] = w[i]
      BY <1>2, <2>1, Joined, ZenonT(60)
    <3> QED BY <1>2, <2>1, <3>1, Zenon
  <2>3. /\ 1 \in 1 .. 4 /\ 2 \in 1 .. 4 /\ 3 \in 1 .. 4 /\ 4 \in 1 .. 4
        /\ 1 \in 1 .. 2 /\ 2 \in 1 .. 2 /\ 4 + 1 = 5 /\ 4 + 2 = 6
    OBVIOUS
  <2> QED BY <1>2, <2>1, <2>2, <2>3, SMTT(60)
<1> HIDE DEF x
<1>5. /\ x \o p \in Seq(0 .. 255) /\ Len(x \o p) = 6 + Len(p)
      /\ \A i \in 1 .. 6 : (x \o p)[i] = x[i]
      /\ \A i \in 1 .. Len(p) : (x \o p)[6 + i] = p[i]
  <2>1. /\ x \o p \in Seq(0 .. 255) /\ Len(x \o p) = Len(x) + Len(p)
        /\ \A i \in 1 .. Len(x) : (x \o p)[i] = x[i]
        /\ \A i \in 1 .. Len(p) : (x \o p)[Len(x) + i] = p[i]
    BY <1>4, Joined, Zenon
  <2> QED BY <1>4, <2>1
<1>6. q = x \o p
  BY <1>1 DEF x
<1>7. 1 \in 1 .. 6 /\ 2 \in 1 .. 6 /\ 3 \in 1 .. 6 /\ 4 \in 1 .. 6 /\ 5 \in 1 .. 6 /\ 6 \in 1 .. 6
  OBVIOUS
<1>8. q[1] = 4 /\ q[2] = 2 /\ q[3] = 1 /\ q[4] = 47 /\ q[5] = 1 /\ q[6] = e
  BY <1>4, <1>5, <1>6, <1>7
<1> QED BY <1>5, <1>6, <1>8, Zenon DEF q, e

\* buf is a prefix of q, or all of it.
Prefix(buf, q) ==
    buf \in Seq(0 .. 255) /\ Len(buf) <= Len(q) /\ \A i \in 1 .. Len(buf) : buf[i] = q[i]

\* A packet with less than its header is no event.
LEMMA CutHeader ==
    ASSUME NEW name \in Names, NEW p \in Seq(0 .. 255), NEW buf, Prefix(buf, Codec!EncodeEvent(name, p)),
           Len(buf) < 6
    PROVE  Codec!DecodeBinary(buf).kind \in {"Error", "Connect"}
<1> DEFINE L == Len(buf)
           q == Codec!EncodeEvent(name, p)
<1>1. L \in Nat /\ L < 6 /\ buf \in Seq(0 .. 255) /\ \A i \in 1 .. L : buf[i] = q[i]
  BY DEF Prefix
<1>2. q[1] = 4 /\ q[2] = 2 /\ q[3] = 1 /\ q[4] = 47 /\ q[5] = 1
  BY EventBytes
<1> HIDE DEF q
<1>3. /\ L >= 1 => buf[1] = 4
      /\ L >= 2 => buf[2] = 2
      /\ L >= 3 => buf[3] = 1
      /\ L >= 5 => buf[5] = 1
  BY <1>1, <1>2
<1>4. CASE L = 0
  <2>1. buf = <<>>
    BY <1>1, <1>4
  <2> QED BY <2>1 DEF Codec!DecodeBinary, Codec!Error
<1>5. CASE L >= 1
  <2>1. buf # <<>> /\ buf[1] = 4
    BY <1>1, <1>3, <1>5
  <2>2. ~Codec!IsPing(buf) /\ ~Codec!IsPong(buf) /\ ~Codec!IsOpenFrame(buf) /\ ~Codec!IsClose(buf)
    BY <2>1 DEF Codec!IsPing, Codec!IsPong, Codec!IsOpenFrame, Codec!IsClose
  <2>3. Codec!ParsePacket(buf).kind \in {"Unknown", "Connect"}
    <3>1. CASE L = 1
      BY <3>1 DEF Codec!ParsePacket, Codec!Unknown
    <3>2. CASE L = 2
      BY <1>3, <3>2 DEF Codec!ParsePacket, Codec!Unknown
    <3>3. CASE L = 3
      BY <1>3, <3>3 DEF Codec!ParsePacket, Codec!Unknown
    <3>4. CASE L = 4
      BY <1>3, <3>4 DEF Codec!ParsePacket, Codec!Unknown
    <3>5. CASE L = 5
      BY <1>3, <3>5 DEF Codec!ParsePacket, Codec!Unknown
    <3> HIDE DEF L
    <3> QED BY <1>1, <1>5, <3>1, <3>2, <3>3, <3>4, <3>5
  <2> QED BY <2>1, <2>2, <2>3 DEF Codec!DecodeBinary, Codec!Error
<1> HIDE DEF L
<1> QED BY <1>1, <1>4, <1>5

\* A packet with all of its header is decoded from what there is of its payload.
LEMMA EventOf ==
    ASSUME NEW name \in Names, NEW p \in Seq(0 .. 255), NEW buf, Prefix(buf, Codec!EncodeEvent(name, p)),
           Len(buf) >= 6
    PROVE  \E k : /\ Codec!DecodeBinary(buf) = Codec!DecodeEventPacket(k)
                  /\ k.name = <<Codec!EventNames[name]>> /\ k.payload = SubSeq(buf, 7, Len(buf))
<1> DEFINE L == Len(buf)
           q == Codec!EncodeEvent(name, p)
           e == Codec!EventNames[name]
           k == Codec!ParsePacket(buf)
<1>1. L \in Nat /\ L >= 6 /\ buf \in Seq(0 .. 255) /\ \A i \in 1 .. L : buf[i] = q[i]
  BY DEF Prefix
<1>2. q[1] = 4 /\ q[2] = 2 /\ q[3] = 1 /\ q[4] = 47 /\ q[5] = 1 /\ q[6] = e
  BY EventBytes
<1> HIDE DEF q, e
<1>3. buf[1] = 4 /\ buf[2] = 2 /\ buf[3] = 1 /\ buf[4] = 47 /\ buf[5] = 1 /\ buf[6] = e
  <2> HIDE DEF L
  <2> QED BY <1>1, <1>2
<1>4. k = [kind |-> "Event", nsp |-> SubSeq(buf, 4, 4), name |-> SubSeq(buf, 6, 6), payload |-> SubSeq(buf, 7, L)]
  <2> DEFINE at == IF buf[2] >= 128 THEN 7 ELSE 3
             ev == at + 1 + buf[at]
             pay == ev + 1 + buf[ev]
  <2>1. at = 3 /\ ev = 5 /\ pay = 7
    <3>1. at = 3
      BY <1>3
    <3> HIDE DEF at
    <3>2. ev = 5
      BY <1>3, <3>1
    <3> HIDE DEF ev
    <3>3. pay = 7
      BY <1>3, <3>2
    <3> QED BY <3>1, <3>2, <3>3
  <2>2. k = IF L < 2 \/ buf[1] # 4 THEN Codec!Unknown
            ELSE IF at > L THEN Codec!Unknown
            ELSE IF ev - 1 > L THEN Codec!Unknown
            ELSE IF buf[2] % 16 = 0 \/ ev > L
                 THEN [Codec!Unknown EXCEPT !.kind = "Connect", !.nsp = SubSeq(buf, at + 1, ev - 1)]
            ELSE IF pay - 1 > L THEN [Codec!Unknown EXCEPT !.nsp = SubSeq(buf, at + 1, ev - 1)]
            ELSE [kind |-> "Event", nsp |-> SubSeq(buf, at + 1, ev - 1), name |-> SubSeq(buf, ev + 1, pay - 1),
                  payload |-> SubSeq(buf, pay, L)]
    BY DEF Codec!ParsePacket
  <2>3. at + 1 = 4 /\ ev - 1 = 4 /\ ev + 1 = 6 /\ pay - 1 = 6
    <3> HIDE DEF at, ev, pay
    <3> QED BY <2>1
  <2>4. ~ (L < 2) /\ ~ (3 > L) /\ ~ (4 > L) /\ ~ (5 > L) /\ ~ (6 > L) /\ 2 % 16 # 0
    <3> HIDE DEF L
    <3> QED BY <1>1
  <2> HIDE DEF at, ev, pay, k, L
  <2> QED BY <1>3, <2>1, <2>2, <2>3, <2>4
<1>5. SubSeq(buf, 6, 6) = <<e>>
  <2> DEFINE y == SubSeq(buf, 6, 6)
  <2>1. y \in Seq(0 .. 255) /\ Len(y) = 6 - 6 + 1 /\ \A i \in 1 .. 6 - 6 + 1 : y[i] = buf[6 + i - 1]
    <3>1. 6 \in Nat \ {0} /\ 6 \in Nat /\ 6 <= 6 + 1 /\ 6 <= Len(buf)
      BY <1>1
    <3> QED BY <1>1, <3>1, Slice, ZenonT(90)
  <2>2. 6 - 6 + 1 = 1 /\ 6 + 1 - 1 = 6 /\ 1 \in 1 .. 1
    OBVIOUS
  <2> HIDE DEF y
  <2>3. Len(y) = 1 /\ y[1] = e
    BY <1>3, <2>1, <2>2
  <2>4. y = <<e>>
    BY <2>1, <2>3
  <2> QED BY <2>4 DEF y
<1>6. k.kind = "Event" /\ k.name = <<e>> /\ k.payload = SubSeq(buf, 7, L)
  <2> HIDE DEF k, L
  <2> QED BY <1>4, <1>5, Zenon
<1>7. buf # <<>>
  BY <1>1
<1>8. ~Codec!IsPing(buf) /\ ~Codec!IsPong(buf) /\ ~Codec!IsOpenFrame(buf) /\ ~Codec!IsClose(buf)
  BY <1>3 DEF Codec!IsPing, Codec!IsPong, Codec!IsOpenFrame, Codec!IsClose
<1>9. Codec!DecodeBinary(buf) = Codec!DecodeEventPacket(k)
  <2>1. Codec!ParsePacket(buf).kind = "Event"
    BY <1>6
  <2> HIDE DEF k
  <2> QED BY <1>3, <1>7, <1>8, <2>1 DEF Codec!DecodeBinary, k
<1> HIDE DEF k
<1> QED BY <1>6, <1>9 DEF e

\* What there is of the payload.
LEMMA PayloadOf ==
    ASSUME NEW name \in Names, NEW p \in Seq(0 .. 255), NEW buf, Prefix(buf, Codec!EncodeEvent(name, p)),
           Len(buf) >= 6
    PROVE  LET y == SubSeq(buf, 7, Len(buf)) IN
           y \in Seq(0 .. 255) /\ Len(y) = Len(buf) - 6 /\ Len(y) <= Len(p) /\ Matches(y, 1, p)
<1> DEFINE L == Len(buf)
           q == Codec!EncodeEvent(name, p)
           y == SubSeq(buf, 7, L)
<1>1. L \in Nat /\ L >= 6 /\ buf \in Seq(0 .. 255) /\ L <= Len(q) /\ \A i \in 1 .. L : buf[i] = q[i]
  BY DEF Prefix
<1>2. Len(q) = 6 + Len(p) /\ Len(p) \in Nat /\ \A i \in 1 .. Len(p) : q[6 + i] = p[i]
  BY EventBytes
<1> HIDE DEF q
<1>3. y \in Seq(0 .. 255) /\ Len(y) = L - 6 /\ \A i \in 1 .. L - 6 : y[i] = buf[7 + i - 1]
  <2>1. 7 \in Nat \ {0} /\ 7 <= L + 1 /\ L <= Len(buf) /\ L - 7 + 1 = L - 6
    BY <1>1
  <2>2. y \in Seq(0 .. 255) /\ Len(y) = L - 7 + 1 /\ \A i \in 1 .. L - 7 + 1 : y[i] = buf[7 + i - 1]
    <3> HIDE DEF L
    <3> QED BY <1>1, <2>1, Slice, ZenonT(60)
  <2> QED BY <2>1, <2>2, Zenon
<1> HIDE DEF y, L
<1>4. ASSUME NEW i \in 1 .. Len(p), 1 + i - 1 <= Len(y) PROVE y[1 + i - 1] = p[i]
  <2>1. 1 + i - 1 = i /\ i \in 1 .. L - 6 /\ 7 + i - 1 = 6 + i /\ 6 + i \in 1 .. L
    BY <1>1, <1>2, <1>3, <1>4
  <2> QED BY <1>1, <1>2, <1>3, <2>1
<1>5. Len(y) <= Len(p)
  BY <1>1, <1>2, <1>3
<1> QED BY <1>3, <1>4, <1>5, Zenon DEF Matches, y, L

\* decodeEventPacket of a known event.
LEMMA PacketOf ==
    ASSUME NEW name \in Names, NEW k, k.name = <<Codec!EventNames[name]>>
    PROVE  LET kind == Codec!MapEventName(<<Codec!EventNames[name]>>)
               elapsed == Codec!DecodeProgressElapsed(k.payload)
               r == Codec!FieldsToPayload(Codec!DecodeProtobuf(k.payload))
           IN  Codec!DecodeEventPacket(k) =
               IF k.payload = <<>>
               THEN [kind |-> kind, valid |-> kind = "Heartbeat", id |-> <<>>, mult |-> <<>>, elapsed |-> <<>>]
               ELSE IF name = "pg"
               THEN [kind |-> kind, valid |-> elapsed # <<>>, id |-> <<>>, mult |-> <<>>, elapsed |-> elapsed]
               ELSE [kind |-> kind, valid |-> r.id # <<>>, id |-> r.id, mult |-> r.mult, elapsed |-> <<>>]
<1> DEFINE kind == Codec!MapEventName(<<Codec!EventNames[name]>>)
           elapsed == Codec!DecodeProgressElapsed(k.payload)
           r == Codec!FieldsToPayload(Codec!DecodeProtobuf(k.payload))
<1>1. /\ kind \in {"Progress", "Prepare", "Start", "End", "Heartbeat"}
      /\ kind = "Progress" <=> name = "pg"
  BY NamesAre
<1>2. Codec!MapEventName(k.name) = kind
  OBVIOUS
<1> HIDE DEF kind, elapsed, r
<1>3. Codec!DecodeEventPacket(k) =
        IF kind = "Unknown" THEN Codec!Error
        ELSE IF k.payload = <<>>
             THEN [kind |-> kind, valid |-> kind = "Heartbeat", id |-> <<>>, mult |-> <<>>, elapsed |-> <<>>]
        ELSE IF kind = "Progress"
             THEN [kind |-> kind, valid |-> elapsed # <<>>, id |-> <<>>, mult |-> <<>>, elapsed |-> elapsed]
        ELSE [kind |-> kind, valid |-> r.id # <<>>, id |-> r.id, mult |-> r.mult, elapsed |-> <<>>]
  BY <1>2 DEF Codec!DecodeEventPacket, elapsed, r
<1>6. kind # "Unknown"
  BY <1>1
<1>7. CASE k.payload = <<>>
  BY <1>3, <1>6, <1>7 DEF kind, elapsed, r
<1>8. CASE k.payload # <<>> /\ name = "pg"
  BY <1>1, <1>3, <1>6, <1>8 DEF kind, elapsed, r
<1>9. CASE k.payload # <<>> /\ name # "pg"
  BY <1>1, <1>3, <1>6, <1>9 DEF kind, elapsed, r
<1> QED BY <1>7, <1>8, <1>9

\* What the assumption says of a message.
LEMMA RoundFits ==
    ASSUME NEW m \in Codec!Rounds
    PROVE  /\ m.name \in Names \ {"pg"} /\ Fits(m.id) /\ Fits(m.mult)
           /\ m.hash \in Seq(0 .. 255) /\ Fits(Len(m.hash)) /\ m.hash \in Hashes
<1>1. m.name \in Codec!RoundNames /\ m.id \in CodecIds /\ m.mult \in CodecMults /\ m.hash \in Hashes
  BY DEF Codec!Rounds
<1>2. m.hash \in Seq(0 .. 255) /\ Len(m.hash) \in Nat
  BY <1>1, CodecAssumption
<1> QED BY <1>1, <1>2, CodecAssumption DEF Fits, Names, Codec!RoundNames

\* The numbers of a progress event are within the assumption.
LEMMA ProgressFits ==
    ASSUME NEW m \in Codec!Progresses PROVE m.name = "pg" /\ m.name \in Names /\ Fits(m.elapsed)
<1>1. m.name = "pg" /\ m.elapsed \in CodecElapsed
  BY DEF Codec!Progresses
<1> QED BY <1>1, CodecAssumption DEF Fits, Names

\* The start of a packet is no event or an event of the same kind with the
\* fields that were sent or none.
CutSound(got, sent) ==
    \/ got.kind \in {"Error", "Connect"}
    \/ /\ got.kind = sent.kind
       /\ got.id \in {<<>>, sent.id} /\ got.mult \in {<<>>, sent.mult}
       /\ got.elapsed \in {<<>>, sent.elapsed}

\* What is decoded of the packet of a round, or of the start of one.
LEMMA RoundDecoded ==
    ASSUME NEW m \in Codec!Rounds, NEW buf, Prefix(buf, Codec!Encoded(m))
    PROVE  /\ CutSound(Codec!DecodeBinary(buf), Codec!Expected(m))
           /\ buf = Codec!Encoded(m) =>
                (Codec!DecodeBinary(buf) = Codec!Expected(m)
                    <=> Codec!Readable(m.id) /\ Codec!Readable(m.mult))
<1> DEFINE name == m.name
           p == Codec!EncodeEndPayload(m.id, m.mult, m.hash)
           q == Codec!Encoded(m)
           a == Codec!GroupCount(m.id)
           b == Codec!GroupCount(m.mult)
           kind == Codec!MapEventName(<<Codec!EventNames[name]>>)
           L == Len(buf)
           got == Codec!DecodeBinary(buf)
           y == SubSeq(buf, 7, L)
           r == Codec!FieldsToPayload(Codec!DecodeProtobuf(y))
<1>1. /\ name \in Names /\ name # "pg" /\ Fits(m.id) /\ Fits(m.mult) /\ m.hash \in Seq(0 .. 255)
      /\ Fits(Len(m.hash))
  BY RoundFits
<1>2. q = Codec!EncodeEvent(name, p)
  BY <1>1 DEF Codec!Encoded
<1>3. /\ p \in Seq(0 .. 255) /\ a \in 1 .. 10 /\ b \in 1 .. 10 /\ Len(p) \in Nat
      /\ Len(p) >= 2 + a + b
  <2>1. p \in Seq(0 .. 255) /\ a \in 1 .. 10 /\ b \in 1 .. 10
    BY <1>1, RoundBytes, GroupsOf
  <2> DEFINE c == IF m.hash = <<>> THEN 0 ELSE 1 + Codec!GroupCount(Len(m.hash)) + Len(m.hash)
  <2>2. Len(p) = 2 + a + b + c
    BY <1>1, RoundBytes
  <2>3. c \in Nat
    <3>1. Codec!GroupCount(Len(m.hash)) \in 1 .. 10 /\ Len(m.hash) \in Nat
      BY <1>1, GroupsOf
    <3> QED BY <3>1
  <2> HIDE DEF a, b, c, p
  <2> QED BY <2>1, <2>2, <2>3
<1>4. Codec!Expected(m) = [kind |-> kind, valid |-> TRUE, id |-> <<m.id>>, mult |-> <<m.mult>>, elapsed |-> <<>>]
  BY <1>1 DEF Codec!Expected
<1>5. Len(q) = 6 + Len(p) /\ buf \in Seq(0 .. 255) /\ L \in Nat
  BY <1>1, <1>2, <1>3, EventBytes DEF Prefix
<1> HIDE DEF p, q, name
<1>6. CASE L < 6
  <2>1. got.kind \in {"Error", "Connect"}
    BY <1>1, <1>2, <1>3, <1>6, CutHeader DEF q
  <2>2. buf # q
    <3> HIDE DEF a, b
    <3> QED BY <1>3, <1>5, <1>6
  <2> QED BY <2>1, <2>2 DEF CutSound, q
<1>7. CASE L >= 6
  <2>1. Prefix(buf, Codec!EncodeEvent(name, p))
    BY <1>2 DEF q
  <2>2. PICK k : got = Codec!DecodeEventPacket(k) /\ k.name = <<Codec!EventNames[name]>> /\ k.payload = y
    BY <1>1, <1>3, <1>7, <2>1, EventOf, Zenon
  <2>3. y \in Seq(0 .. 255) /\ Len(y) = L - 6 /\ Len(y) <= Len(p) /\ Matches(y, 1, p)
    BY <1>1, <1>3, <1>7, <2>1, PayloadOf
  <2>4. got = IF y = <<>> THEN [kind |-> kind, valid |-> kind = "Heartbeat", id |-> <<>>, mult |-> <<>>, elapsed |-> <<>>]
              ELSE [kind |-> kind, valid |-> r.id # <<>>, id |-> r.id, mult |-> r.mult, elapsed |-> <<>>]
    <3> HIDE DEF y, got
    <3> QED BY <1>1, <2>2, PacketOf
  <2> DEFINE gotId == 1 + a <= Len(y) /\ a <= Groups
             gotMult == gotId /\ 2 + a + b <= Len(y) /\ b <= Groups
  <2>5. r.id = (IF gotId THEN <<m.id>> ELSE <<>>) /\ r.mult = (IF gotMult THEN <<m.mult>> ELSE <<>>)
    <3> HIDE DEF y
    <3> QED BY <1>1, <2>3, RoundFields, ZenonT(60) DEF p
  <2> HIDE DEF r, kind, got
  <2>6. CutSound(got, Codec!Expected(m))
    <3>1. r.id \in {<<>>, <<m.id>>} /\ r.mult \in {<<>>, <<m.mult>>}
      BY <2>5
    <3>2. CASE y = <<>>
      <4>1. got = [kind |-> kind, valid |-> kind = "Heartbeat", id |-> <<>>, mult |-> <<>>, elapsed |-> <<>>]
        BY <2>4, <3>2
      <4>2. got.kind = kind /\ got.id = <<>> /\ got.mult = <<>> /\ got.elapsed = <<>>
        BY <4>1
      <4> QED BY <1>4, <4>2 DEF CutSound
    <3>3. CASE y # <<>>
      <4>1. got = [kind |-> kind, valid |-> r.id # <<>>, id |-> r.id, mult |-> r.mult, elapsed |-> <<>>]
        BY <2>4, <3>3
      <4>2. got.kind = kind /\ got.id = r.id /\ got.mult = r.mult /\ got.elapsed = <<>>
        BY <4>1
      <4> QED BY <1>4, <3>1, <4>2 DEF CutSound
    <3> QED BY <3>2, <3>3
  <2>7. ASSUME buf = q PROVE got = Codec!Expected(m) <=> a <= Groups /\ b <= Groups
    <3>1. Len(y) = Len(p)
      <4> HIDE DEF y, a, b
      <4> QED BY <1>3, <1>5, <2>3, <2>7
    <3>2. y # <<>> /\ (gotId <=> a <= Groups) /\ (gotMult <=> a <= Groups /\ b <= Groups)
      <4>1. Len(y) > 0 /\ 1 + a <= Len(y) /\ 2 + a + b <= Len(y)
        <5> HIDE DEF y, a, b
        <5> QED BY <1>3, <3>1
      <4>2. y # <<>>
        <5> HIDE DEF y
        <5> QED BY <4>1
      <4> QED BY <4>1, <4>2
    <3>3. got = [kind |-> kind, valid |-> r.id # <<>>, id |-> r.id, mult |-> r.mult, elapsed |-> <<>>]
      BY <2>4, <3>2
    <3> HIDE DEF gotId, gotMult, y
    <3>4. CASE a <= Groups /\ b <= Groups
      <4>1. r.id = <<m.id>> /\ r.mult = <<m.mult>> /\ (r.id # <<>>) = TRUE
        BY <2>5, <3>2, <3>4
      <4> QED BY <1>4, <3>3, <3>4, <4>1, Zenon
    <3>5. CASE ~ (a <= Groups /\ b <= Groups)
      <4>1. r.mult = <<>>
        BY <2>5, <3>2, <3>5
      <4>2. got.mult = <<>> /\ Codec!Expected(m).mult = <<m.mult>>
        BY <1>4, <3>3, <4>1
      <4>3. <<m.mult>> # <<>>
        OBVIOUS
      <4> QED BY <3>5, <4>2, <4>3, Zenon
    <3> QED BY <3>4, <3>5
  <2>8. (Codec!Readable(m.id) <=> a <= Groups) /\ (Codec!Readable(m.mult) <=> b <= Groups)
    BY <1>1, ReadableIs
  <2> QED BY <2>6, <2>7, <2>8 DEF got, q
<1> HIDE DEF L
<1> QED BY <1>5, <1>6, <1>7

\* What is decoded of the packet of a progress event, or of the start of one.
LEMMA ProgressDecoded ==
    ASSUME NEW m \in Codec!Progresses, NEW buf, Prefix(buf, Codec!Encoded(m))
    PROVE  /\ CutSound(Codec!DecodeBinary(buf), Codec!Expected(m))
           /\ buf = Codec!Encoded(m) =>
                (Codec!DecodeBinary(buf) = Codec!Expected(m) <=> Codec!Readable(m.elapsed))
<1> DEFINE name == m.name
           p == Codec!EncodeProgressPayload(m.elapsed)
           q == Codec!Encoded(m)
           a == Codec!GroupCount(m.elapsed)
           kind == Codec!MapEventName(<<Codec!EventNames[name]>>)
           L == Len(buf)
           got == Codec!DecodeBinary(buf)
           y == SubSeq(buf, 7, L)
           t == Codec!DecodeProgressElapsed(y)
<1>1. name \in Names /\ name = "pg" /\ Fits(m.elapsed)
  BY ProgressFits
<1>2. q = Codec!EncodeEvent(name, p)
  BY <1>1 DEF Codec!Encoded
<1>3. p \in Seq(0 .. 255) /\ a \in 1 .. 10 /\ Len(p) \in Nat /\ Len(p) = 1 + a
  <2>1. 1 \in 1 .. 15
    OBVIOUS
  <2>2. p \in Seq(0 .. 255) /\ Len(p) = 1 + a
    BY <1>1, <2>1, NumBytes DEF Codec!EncodeProgressPayload
  <2> QED BY <1>1, <2>2, GroupsOf
<1>4. Codec!Expected(m) = [kind |-> kind, valid |-> TRUE, id |-> <<>>, mult |-> <<>>, elapsed |-> <<m.elapsed>>]
  BY <1>1 DEF Codec!Expected
<1>5. Len(q) = 6 + Len(p) /\ buf \in Seq(0 .. 255) /\ L \in Nat
  BY <1>1, <1>2, <1>3, EventBytes, SMTT(60) DEF Prefix
<1> HIDE DEF p, q, name
<1>6. CASE L < 6
  <2>1. got.kind \in {"Error", "Connect"}
    BY <1>1, <1>2, <1>3, <1>6, CutHeader DEF q
  <2>2. buf # q
    <3> HIDE DEF a
    <3> QED BY <1>3, <1>5, <1>6
  <2> QED BY <2>1, <2>2 DEF CutSound, q
<1>7. CASE L >= 6
  <2>1. Prefix(buf, Codec!EncodeEvent(name, p))
    BY <1>2 DEF q
  <2>2. PICK k : got = Codec!DecodeEventPacket(k) /\ k.name = <<Codec!EventNames[name]>> /\ k.payload = y
    BY <1>1, <1>3, <1>7, <2>1, EventOf, Zenon
  <2>3. y \in Seq(0 .. 255) /\ Len(y) = L - 6 /\ Len(y) <= Len(p) /\ Matches(y, 1, p)
    BY <1>1, <1>3, <1>7, <2>1, PayloadOf
  <2>4. got = IF y = <<>> THEN [kind |-> kind, valid |-> kind = "Heartbeat", id |-> <<>>, mult |-> <<>>, elapsed |-> <<>>]
              ELSE [kind |-> kind, valid |-> t # <<>>, id |-> <<>>, mult |-> <<>>, elapsed |-> t]
    <3> HIDE DEF y, got
    <3> QED BY <1>1, <2>2, PacketOf
  <2>5. t = IF 1 + a <= Len(y) /\ a <= Groups THEN <<m.elapsed>> ELSE <<>>
    <3> HIDE DEF y
    <3> QED BY <1>1, <2>3, ProgressField, Zenon DEF p
  <2> HIDE DEF t, kind, got
  <2>6. CutSound(got, Codec!Expected(m))
    <3>1. t \in {<<>>, <<m.elapsed>>}
      BY <2>5
    <3>2. CASE y = <<>>
      <4>1. got = [kind |-> kind, valid |-> kind = "Heartbeat", id |-> <<>>, mult |-> <<>>, elapsed |-> <<>>]
        BY <2>4, <3>2
      <4>2. got.kind = kind /\ got.id = <<>> /\ got.mult = <<>> /\ got.elapsed = <<>>
        BY <4>1
      <4> QED BY <1>4, <4>2 DEF CutSound
    <3>3. CASE y # <<>>
      <4>1. got = [kind |-> kind, valid |-> t # <<>>, id |-> <<>>, mult |-> <<>>, elapsed |-> t]
        BY <2>4, <3>3
      <4>2. got.kind = kind /\ got.id = <<>> /\ got.mult = <<>> /\ got.elapsed = t
        BY <4>1
      <4> QED BY <1>4, <3>1, <4>2 DEF CutSound
    <3> QED BY <3>2, <3>3
  <2>7. ASSUME buf = q PROVE got = Codec!Expected(m) <=> a <= Groups
    <3>1. Len(y) = Len(p)
      <4> HIDE DEF y, a
      <4> QED BY <1>3, <1>5, <2>3, <2>7
    <3>2. y # <<>> /\ 1 + a <= Len(y)
      <4>1. Len(y) > 0 /\ 1 + a <= Len(y)
        <5> HIDE DEF y, a
        <5> QED BY <1>3, <3>1
      <4> HIDE DEF y
      <4> QED BY <4>1
    <3>3. got = [kind |-> kind, valid |-> t # <<>>, id |-> <<>>, mult |-> <<>>, elapsed |-> t]
      BY <2>4, <3>2
    <3> HIDE DEF y, a
    <3>4. CASE a <= Groups
      <4>1. t = <<m.elapsed>> /\ (t # <<>>) = TRUE
        BY <2>5, <3>2, <3>4
      <4> QED BY <1>4, <3>3, <3>4, <4>1, Zenon
    <3>5. CASE ~ (a <= Groups)
      <4>1. t = <<>>
        BY <2>5, <3>5
      <4>2. got.elapsed = <<>> /\ Codec!Expected(m).elapsed = <<m.elapsed>>
        BY <1>4, <3>3, <4>1
      <4>3. <<m.elapsed>> # <<>>
        OBVIOUS
      <4> QED BY <3>5, <4>2, <4>3, Zenon
    <3> QED BY <3>4, <3>5
  <2>8. Codec!Readable(m.elapsed) <=> a <= Groups
    BY <1>1, ReadableIs
  <2> QED BY <2>6, <2>7, <2>8 DEF got, q
<1> HIDE DEF L
<1> QED BY <1>5, <1>6, <1>7

-----------------------------------------------------------------------------
(***************************************************************************)
(* WebSocket frames.                                                       *)
(***************************************************************************)

\* The digits of a number that was made of them.
LEMMA DigitsOfNumber ==
    ASSUME NEW d \in Seq(Nat), NEW r \in Nat \ {0}, \A i \in 1 .. Len(d) : d[i] \in 0 .. r - 1
    PROVE  /\ Codec!Number(d, r) \in Nat
           /\ \A i \in 1 .. Len(d) : Codec!Shifted(Codec!Number(d, r), r)[i - 1] % r = d[i]
<1> DEFINE L == Len(d)
           v == Codec!Values(d, r)
           x == Codec!Number(d, r)
           s == Codec!Shifted(x, r)
           T == {i \in Nat : i <= L => s[i] = v[i + 1]}
<1>0. L \in Nat
  OBVIOUS
<1>1. v \in [1 .. L + 1 -> Nat] /\ \A i \in 1 .. L : v[i] = d[i] + r * v[i + 1]
  <2>1. r \in Nat
    OBVIOUS
  <2> QED BY <2>1, ValuesAre, Zenon
<1>2. x = v[1] /\ x \in Nat
  <2>1. x = v[1]
    BY DEF Codec!Number
  <2> HIDE DEF v, x, L
  <2>2. 1 \in 1 .. L + 1
    BY <1>0
  <2> QED BY <1>1, <2>1, <2>2
<1>3. s[0] = x /\ \A i \in Nat : s[i] \in Nat /\ s[i + 1] = s[i] \div r
  <2> HIDE DEF x
  <2> QED BY <1>2, ShiftedIs, Zenon
<1>4. \A i \in 1 .. L : d[i] \in 0 .. r - 1
  OBVIOUS
<1> HIDE DEF L, v, x, s
<1>5. \A i \in 1 .. L : v[i] \div r = v[i + 1] /\ v[i] % r = d[i]
  <2> TAKE i \in 1 .. L
  <2>1. i + 1 \in 1 .. L + 1
    BY <1>0
  <2>2. v[i + 1] \in Int /\ d[i] \in 0 .. r - 1
    BY <1>1, <1>4, <2>1
  <2>3. (r * v[i + 1] + d[i]) \div r = v[i + 1] /\ (r * v[i + 1] + d[i]) % r = d[i]
    BY <2>2, DivUnique, Zenon
  <2>4. v[i] = r * v[i + 1] + d[i]
    <3> DEFINE t == r * v[i + 1]
    <3>1. t \in Int /\ d[i] \in Int /\ v[i] = d[i] + t
      BY <1>1, <2>2
    <3> HIDE DEF t
    <3>2. v[i] = t + d[i]
      BY <3>1
    <3> QED BY <3>2 DEF t
  <2> QED BY <2>3, <2>4
<1>6. 0 \in T
  BY <1>2, <1>3
<1>7. ASSUME NEW i \in Nat, i \in T PROVE i + 1 \in T
  <2> SUFFICES ASSUME i + 1 <= L PROVE s[i + 1] = v[(i + 1) + 1]
    OBVIOUS
  <2>1. i + 1 \in 1 .. L /\ i <= L
    BY <1>0
  <2>2. s[i] = v[i + 1]
    BY <1>7, <2>1
  <2>3. s[i + 1] = v[i + 1] \div r
    BY <1>3, <2>2
  <2> QED BY <1>5, <2>1, <2>3
<1>8. Nat \subseteq T
  <2> HIDE DEF T
  <2> QED BY <1>6, <1>7, SetInduction, Zenon
<1>9. ASSUME NEW i \in 1 .. L PROVE s[i - 1] % r = d[i]
  <2>1. i - 1 \in Nat /\ i - 1 <= L /\ (i - 1) + 1 = i
    BY <1>0
  <2>2. s[i - 1] = v[(i - 1) + 1]
    BY <1>8, <2>1
  <2> QED BY <1>5, <2>1, <2>2
<1> QED BY <1>2, <1>9 DEF x, s, L

\* Halves of numbers below the powers of two.
LEMMA Half ==
    ASSUME NEW x \in Nat
    PROVE  /\ x < 256 => x \div 2 < 128
           /\ x < 128 => x \div 2 < 64
           /\ x < 64 => x \div 2 < 32
           /\ x < 32 => x \div 2 < 16
           /\ x < 16 => x \div 2 < 8
           /\ x < 8 => x \div 2 < 4
           /\ x < 4 => x \div 2 < 2
           /\ x < 2 => x \div 2 < 1
  OBVIOUS

\* A byte has eight bits.
LEMMA EightBits == ASSUME NEW a \in 0 .. 255 PROVE Codec!Shifted(a, 2)[8] = 0
<1> DEFINE s == Codec!Shifted(a, 2)
<1>1. s[0] = a /\ \A i \in Nat : s[i] \in Nat /\ s[i + 1] = s[i] \div 2
  <2>1. a \in Nat /\ 2 \in Nat \ {0}
    OBVIOUS
  <2> QED BY <2>1, ShiftedIs
<1> HIDE DEF s
<1>2. \A i \in 0 .. 8 : s[i] \in Nat
  BY <1>1
<1>3. /\ s[0 + 1] = s[0] \div 2 /\ s[1 + 1] = s[1] \div 2 /\ s[2 + 1] = s[2] \div 2 /\ s[3 + 1] = s[3] \div 2
      /\ s[4 + 1] = s[4] \div 2 /\ s[5 + 1] = s[5] \div 2 /\ s[6 + 1] = s[6] \div 2 /\ s[7 + 1] = s[7] \div 2
  <2>1. 0 \in Nat /\ 1 \in Nat /\ 2 \in Nat /\ 3 \in Nat /\ 4 \in Nat /\ 5 \in Nat /\ 6 \in Nat /\ 7 \in Nat
    OBVIOUS
  <2> QED BY <1>1, <2>1
<1>4. /\ s[1] = s[0] \div 2 /\ s[2] = s[1] \div 2 /\ s[3] = s[2] \div 2 /\ s[4] = s[3] \div 2
      /\ s[5] = s[4] \div 2 /\ s[6] = s[5] \div 2 /\ s[7] = s[6] \div 2 /\ s[8] = s[7] \div 2
  <2>1. /\ 0 + 1 = 1 /\ 1 + 1 = 2 /\ 2 + 1 = 3 /\ 3 + 1 = 4
        /\ 4 + 1 = 5 /\ 5 + 1 = 6 /\ 6 + 1 = 7 /\ 7 + 1 = 8
    OBVIOUS
  <2> QED BY <1>3, <2>1, Zenon
<1>5. s[1] < 128
  <2>1. s[0] \in Nat /\ s[0] < 256
    BY <1>1, <1>2
  <2>2. s[0] \div 2 < 128
    BY <2>1, Half, ZenonT(60)
  <2> QED BY <1>4, <2>2, Zenon
<1>6. s[2] < 64
  <2>1. s[1] \in Nat /\ s[1] < 128
    BY <1>1, <1>2, <1>5
  <2>2. s[1] \div 2 < 64
    BY <2>1, Half, ZenonT(60)
  <2> QED BY <1>4, <2>2, Zenon
<1>7. s[3] < 32
  <2>1. s[2] \in Nat /\ s[2] < 64
    BY <1>1, <1>2, <1>6
  <2>2. s[2] \div 2 < 32
    BY <2>1, Half, ZenonT(60)
  <2> QED BY <1>4, <2>2, Zenon
<1>8. s[4] < 16
  <2>1. s[3] \in Nat /\ s[3] < 32
    BY <1>1, <1>2, <1>7
  <2>2. s[3] \div 2 < 16
    BY <2>1, Half, ZenonT(60)
  <2> QED BY <1>4, <2>2, Zenon
<1>9. s[5] < 8
  <2>1. s[4] \in Nat /\ s[4] < 16
    BY <1>1, <1>2, <1>8
  <2>2. s[4] \div 2 < 8
    BY <2>1, Half, ZenonT(60)
  <2> QED BY <1>4, <2>2, Zenon
<1>10. s[6] < 4
  <2>1. s[5] \in Nat /\ s[5] < 8
    BY <1>1, <1>2, <1>9
  <2>2. s[5] \div 2 < 4
    BY <2>1, Half, ZenonT(60)
  <2> QED BY <1>4, <2>2, Zenon
<1>11. s[7] < 2
  <2>1. s[6] \in Nat /\ s[6] < 4
    BY <1>1, <1>2, <1>10
  <2>2. s[6] \div 2 < 2
    BY <2>1, Half, ZenonT(60)
  <2> QED BY <1>4, <2>2, Zenon
<1>12. s[8] < 1
  <2>1. s[7] \in Nat /\ s[7] < 2
    BY <1>1, <1>2, <1>11
  <2>2. s[7] \div 2 < 1
    BY <2>1, Half, ZenonT(60)
  <2> QED BY <1>4, <2>2, Zenon
<1>13. s[8] = 0
  BY <1>2, <1>12
<1> QED BY <1>13 DEF s

\* A bit is 0 or 1.
LEMMA BitIs == ASSUME NEW a \in Nat, NEW i \in Nat \ {0} PROVE Codec!Bit(a, i) \in 0 .. 1
<1>1. 2 \in Nat \ {0} /\ i - 1 \in Nat
  OBVIOUS
<1>2. Codec!Shifted(a, 2)[i - 1] \in Nat
  BY <1>1, ShiftedIs
<1>3. Codec!Shifted(a, 2)[i - 1] % 2 \in 0 .. 2 - 1
  BY <1>1, <1>2, DivNat, Zenon
<1> QED BY <1>3 DEF Codec!Bit

\* Adding a bit twice modulo 2 changes nothing.
LEMMA AddBits ==
    ASSUME NEW a \in 0 .. 1, NEW b \in 0 .. 1
    PROVE  (a + b) % 2 \in 0 .. 1 /\ (((a + b) % 2) + b) % 2 = a
<1>1. (a = 0 \/ a = 1) /\ (b = 0 \/ b = 1)
  OBVIOUS
<1>2. 0 % 2 = 0 /\ 1 % 2 = 1 /\ 2 % 2 = 0
  OBVIOUS
<1> QED BY <1>1, <1>2

\* Masking twice with the same byte.
LEMMA XorTwice ==
    ASSUME NEW a \in 0 .. 255, NEW b \in 0 .. 255
    PROVE  Codec!Xor(a, b) \in Nat /\ Codec!Xor(Codec!Xor(a, b), b) = a
<1> DEFINE d == [i \in 1 .. 8 |-> (Codec!Bit(a, i) + Codec!Bit(b, i)) % 2]
           x == Codec!Xor(a, b)
           e == [i \in 1 .. 8 |-> (Codec!Bit(x, i) + Codec!Bit(b, i)) % 2]
<1>0. a \in Nat /\ b \in Nat /\ 2 \in Nat \ {0} /\ 8 \in Nat /\ 0 .. 2 - 1 = 0 .. 1 /\ \A i \in 1 .. 8 : i \in Nat \ {0}
  OBVIOUS
<1>1. \A i \in 1 .. 8 : d[i] \in 0 .. 1 /\ (d[i] + Codec!Bit(b, i)) % 2 = Codec!Bit(a, i)
  <2> TAKE i \in 1 .. 8
  <2>1. Codec!Bit(a, i) \in 0 .. 1 /\ Codec!Bit(b, i) \in 0 .. 1
    BY <1>0, BitIs
  <2> QED BY <2>1, AddBits
<1>2. d \in Seq(Nat) /\ Len(d) = 8
  <2>1. d \in [1 .. 8 -> Nat]
    <3>1. \A i \in 1 .. 8 : d[i] \in Nat
      BY <1>1
    <3>2. d = [i \in 1 .. 8 |-> d[i]]
      OBVIOUS
    <3> HIDE DEF d
    <3> QED BY <3>1, <3>2
  <2> HIDE DEF d
  <2> QED BY <1>0, <2>1, FunSeq, ZenonT(90)
<1>3. x = Codec!Number(d, 2)
  BY DEF Codec!Xor
<1>4. x \in Nat /\ \A i \in 1 .. 8 : Codec!Shifted(x, 2)[i - 1] % 2 = d[i]
  <2> HIDE DEF d, x
  <2>1. \A i \in 1 .. Len(d) : d[i] \in 0 .. 2 - 1
    BY <1>0, <1>1, <1>2, Zenon
  <2>2. Codec!Number(d, 2) \in Nat
        /\ \A i \in 1 .. Len(d) : Codec!Shifted(Codec!Number(d, 2), 2)[i - 1] % 2 = d[i]
    BY <1>0, <1>2, <2>1, DigitsOfNumber, Zenon
  <2> QED BY <1>2, <1>3, <2>2
<1> HIDE DEF d, x
<1>5. \A i \in 1 .. 8 : e[i] = Codec!Shifted(a, 2)[i - 1] % 2 /\ e[i] \in Nat
  <2> TAKE i \in 1 .. 8
  <2>1. Codec!Bit(x, i) = d[i]
    BY <1>4 DEF Codec!Bit
  <2>2. e[i] = Codec!Bit(a, i)
    BY <1>1, <2>1
  <2>3. Codec!Bit(a, i) \in 0 .. 1
    BY <1>0, BitIs
  <2> QED BY <2>2, <2>3 DEF Codec!Bit
<1>6. e \in Seq(Nat) /\ Len(e) = 8
  <2>1. e = [i \in 1 .. 8 |-> e[i]]
    OBVIOUS
  <2> HIDE DEF e
  <2>2. e \in [1 .. 8 -> Nat]
    BY <1>5, <2>1
  <2> QED BY <1>0, <2>2, FunSeq, ZenonT(90)
<1>7. Codec!Number(e, 2) = a
  <2> HIDE DEF e
  <2>1. Codec!Shifted(a, 2)[Len(e)] = 0 /\ \A i \in 1 .. Len(e) : e[i] = Codec!Shifted(a, 2)[i - 1] % 2
    BY <1>5, <1>6, EightBits, Zenon
  <2> QED BY <1>0, <1>6, <2>1, NumberOfDigits, Zenon
<1>8. Codec!Xor(x, b) = Codec!Number(e, 2)
  BY DEF Codec!Xor
<1> QED BY <1>4, <1>7, <1>8 DEF x

\* The masking key is four bytes.
LEMMA MaskBytes == Codec!Mask \in Seq(0 .. 255) /\ Len(Codec!Mask) = 4 /\ \A i \in 1 .. 4 : Codec!Mask[i] \in 0 .. 255
  BY DEF Codec!Mask

\* Unmasking gives the payload back.
LEMMA MaskedTwice ==
    ASSUME NEW p \in Seq(0 .. 255)
    PROVE  /\ Codec!Masked(p, Codec!Mask) \in Seq(Nat) /\ Len(Codec!Masked(p, Codec!Mask)) = Len(p)
           /\ \A w : Len(w) = Len(p) /\ (\A i \in 1 .. Len(p) : w[i] = Codec!Masked(p, Codec!Mask)[i])
                => Codec!Masked(w, Codec!Mask) = p
<1> DEFINE L == Len(p)
           key(i) == Codec!Mask[((i - 1) % 4) + 1]
           u == Codec!Masked(p, Codec!Mask)
<1>0. L \in Nat /\ \A i \in 1 .. L : p[i] \in 0 .. 255
  BY ElementOfSeq
<1>1. \A i \in 1 .. L : key(i) \in 0 .. 255
  <2> TAKE i \in 1 .. L
  <2>1. (i - 1) % 4 \in 0 .. 3
    BY <1>0
  <2>2. ((i - 1) % 4) + 1 \in 1 .. 4
    BY <2>1
  <2> QED BY <2>2, MaskBytes, Zenon
<1>2. u = [i \in 1 .. L |-> Codec!Xor(p[i], key(i))]
  BY DEF Codec!Masked
<1> HIDE DEF key, u
<1>3. \A i \in 1 .. L : u[i] = Codec!Xor(p[i], key(i)) /\ u[i] \in Nat /\ Codec!Xor(u[i], key(i)) = p[i]
  <2> TAKE i \in 1 .. L
  <2>1. u[i] = Codec!Xor(p[i], key(i))
    BY <1>2
  <2>2. p[i] \in 0 .. 255 /\ key(i) \in 0 .. 255
    BY <1>0, <1>1
  <2>3. Codec!Xor(p[i], key(i)) \in Nat /\ Codec!Xor(Codec!Xor(p[i], key(i)), key(i)) = p[i]
    BY <2>2, XorTwice, Zenon
  <2> QED BY <2>1, <2>3
<1>4. u \in Seq(Nat) /\ Len(u) = L
  <2>1. u \in [1 .. L -> Nat]
    BY <1>2, <1>3
  <2> QED BY <1>0, <2>1, FunSeq, Zenon
<1>5. ASSUME NEW w, Len(w) = L, \A i \in 1 .. L : w[i] = u[i] PROVE Codec!Masked(w, Codec!Mask) = p
  <2>1. Codec!Masked(w, Codec!Mask) = [i \in 1 .. L |-> Codec!Xor(w[i], key(i))]
    BY <1>5 DEF Codec!Masked, key
  <2>2. \A i \in 1 .. L : Codec!Xor(w[i], key(i)) = p[i]
    BY <1>3, <1>5
  <2>3. p = [i \in 1 .. L |-> p[i]]
    OBVIOUS
  <2> HIDE DEF L
  <2> QED BY <2>1, <2>2, <2>3
<1> QED BY <1>4, <1>5 DEF u

\* Two sequences of numbers put together.
LEMMA JoinedNat ==
    ASSUME NEW u \in Seq(Nat), NEW v \in Seq(Nat)
    PROVE  /\ u \o v \in Seq(Nat) /\ Len(u \o v) = Len(u) + Len(v)
           /\ \A i \in 1 .. Len(u) : (u \o v)[i] = u[i]
           /\ \A i \in 1 .. Len(v) : (u \o v)[Len(u) + i] = v[i]
<1>1. /\ Len(u) \in Nat /\ Len(v) \in Nat /\ u \o v \in Seq(Nat) /\ Len(u \o v) = Len(u) + Len(v)
      /\ \A i \in 1 .. Len(u) + Len(v) : (u \o v)[i] = IF i <= Len(u) THEN u[i] ELSE v[i - Len(u)]
  BY ConcatProperties, LenProperties
<1>2. ASSUME NEW i \in 1 .. Len(u) PROVE (u \o v)[i] = u[i]
  <2>1. i \in 1 .. Len(u) + Len(v) /\ i <= Len(u)
    BY <1>1
  <2> QED BY <1>1, <2>1
<1>3. ASSUME NEW i \in 1 .. Len(v) PROVE (u \o v)[Len(u) + i] = v[i]
  <2>1. Len(u) + i \in 1 .. Len(u) + Len(v) /\ ~ (Len(u) + i <= Len(u)) /\ (Len(u) + i) - Len(u) = i
    BY <1>1
  <2> QED BY <1>1, <2>1
<1> QED BY <1>1, <1>2, <1>3

\* A part of a sequence of numbers.
LEMMA SliceNat ==
    ASSUME NEW s \in Seq(Nat), NEW a \in Nat \ {0}, NEW b \in Nat, a <= b + 1, b <= Len(s)
    PROVE  /\ SubSeq(s, a, b) \in Seq(Nat) /\ Len(SubSeq(s, a, b)) = b - a + 1
           /\ \A i \in 1 .. b - a + 1 : SubSeq(s, a, b)[i] = s[a + i - 1]
<1>1. \A i \in a .. b : s[i] \in Nat
  <2> TAKE i \in a .. b
  <2>1. i \in 1 .. Len(s)
    OBVIOUS
  <2> QED BY <2>1, ElementOfSeq
<1>2. a \in Int /\ b \in Int
  OBVIOUS
<1>3. /\ SubSeq(s, a, b) \in Seq(Nat) /\ Len(SubSeq(s, a, b)) = IF a <= b THEN b - a + 1 ELSE 0
      /\ \A i \in 1 .. b - a + 1 : SubSeq(s, a, b)[i] = s[a + i - 1]
  BY <1>1, <1>2, SubSeqProperties
<1>4. (IF a <= b THEN b - a + 1 ELSE 0) = b - a + 1
  OBVIOUS
<1> QED BY <1>3, <1>4

\* Bytes are numbers.
LEMMA BytesNat == ASSUME NEW s \in Seq(0 .. 255) PROVE s \in Seq(Nat)
<1>1. 0 .. 255 \subseteq Nat
  OBVIOUS
<1> QED BY <1>1, SeqMonotonic, Zenon

\* A length below the square of the radix has two digits.
LEMMA TwoDigits ==
    ASSUME NEW l \in Nat, NEW r \in Nat \ {0}, l < r * r PROVE Codec!Shifted(l, r)[2] = 0
<1> DEFINE s == Codec!Shifted(l, r)
           k == l \div r
<1>1. s[0] = l /\ s[1] = s[0] \div r /\ s[2] = s[1] \div r
  <2>1. 0 \in Nat /\ 1 \in Nat /\ 0 + 1 = 1 /\ 1 + 1 = 2
    OBVIOUS
  <2>2. s[0] = l /\ s[0 + 1] = s[0] \div r /\ s[1 + 1] = s[1] \div r
    BY <2>1, ShiftedIs
  <2> QED BY <2>1, <2>2
<1>2. k \in Nat /\ l % r \in 0 .. r - 1 /\ l = r * k + (l % r)
  BY DivNat, Zenon
<1> DEFINE m == l % r
<1>3. k < r
  <2> HIDE DEF k, m
  <2> SUFFICES ASSUME k >= r PROVE FALSE
    BY <1>2
  <2>1. r * k >= r * r
    BY <1>2
  <2> DEFINE x == r * k
             z == r * r
  <2>2. x >= z /\ l = x + m /\ m \in Nat /\ x \in Nat /\ z \in Nat /\ l < z
    BY <1>2, <2>1 DEF m
  <2> HIDE DEF x, z
  <2> QED BY <2>2
<1> HIDE DEF k
<1>4. k \in 0 .. r - 1 /\ r * 0 + k = k
  BY <1>2, <1>3
<1>5. (r * 0 + k) \div r = 0
  BY <1>4, DivUnique
<1>6. s[2] = 0
  BY <1>1, <1>4, <1>5 DEF k
<1> QED BY <1>6 DEF s

\* The digits of a length, the highest first.
LEMMA DigitBytes ==
    ASSUME NEW l \in Nat, NEW k \in Nat
    PROVE  /\ Codec!Digits(l, k) \in Seq(Nat) /\ Len(Codec!Digits(l, k)) = k
           /\ \A i \in 1 .. k : Codec!Digits(l, k)[i] = Codec!Shifted(l, LenRadix)[k - i] % LenRadix
<1> DEFINE d == Codec!Digits(l, k)
<1>1. d = [i \in 1 .. k |-> Codec!Shifted(l, LenRadix)[k - i] % LenRadix]
  BY DEF Codec!Digits
<1>2. \A i \in 1 .. k : Codec!Shifted(l, LenRadix)[k - i] % LenRadix \in Nat
  <2> TAKE i \in 1 .. k
  <2>1. k - i \in Nat /\ LenRadix \in Nat \ {0}
    BY CodecAssumption
  <2>2. Codec!Shifted(l, LenRadix)[k - i] \in Nat
    BY <2>1, ShiftedIs
  <2>3. Codec!Shifted(l, LenRadix)[k - i] % LenRadix \in 0 .. LenRadix - 1
    BY <2>1, <2>2, DivNat, Zenon
  <2> QED BY <2>1, <2>3
<1> HIDE DEF d
<1>3. d \in [1 .. k -> Nat]
  BY <1>1, <1>2
<1>4. d \in Seq(Nat) /\ Len(d) = k
  BY <1>3, FunSeq
<1> QED BY <1>1, <1>4 DEF d

\* The length field of a frame.
LengthField(l, flag) ==
    IF l < ShortLen THEN <<l + flag>>
    ELSE IF l < LenRadix * LenRadix THEN <<ShortLen + flag>> \o Codec!Digits(l, 2)
    ELSE <<ShortLen + 1 + flag>> \o Codec!Digits(l, 8)

\* What the first byte of a length field says of the others.
WideOf(short) == IF short = ShortLen THEN 2 ELSE IF short = ShortLen + 1 THEN 8 ELSE 0

\* The length field says how wide it is and holds the length.
LEMMA LengthOf ==
    ASSUME NEW l \in Nat, Codec!Shifted(l, LenRadix)[8] = 0, NEW flag \in {0, 128}
    PROVE  \E short \in 0 .. 127 :
             LET h == LengthField(l, flag)
                 wide == WideOf(short)
             IN  /\ h \in Seq(Nat) /\ Len(h) = 1 + wide /\ h[1] = short + flag
                 /\ wide = 0 => short = l
                 /\ wide # 0 => Codec!Shifted(l, LenRadix)[wide] = 0
                 /\ \A i \in 1 .. wide : h[1 + i] = Codec!Shifted(l, LenRadix)[wide - i] % LenRadix
<1> DEFINE h == LengthField(l, flag)
<1>0. ShortLen \in 1 .. 126 /\ LenRadix \in Nat \ {0} /\ 2 \in Nat /\ 8 \in Nat
  BY CodecAssumption
<1>1. CASE l < ShortLen
  <2>1. h = <<l + flag>> /\ l \in 0 .. 127 /\ WideOf(l) = 0 /\ l + flag \in Nat
    BY <1>0, <1>1 DEF LengthField, WideOf
  <2>2. h \in Seq(Nat) /\ Len(h) = 1 + 0 /\ h[1] = l + flag
    <3> HIDE DEF h
    <3> QED BY <2>1
  <2> HIDE DEF h
  <2>3. /\ h \in Seq(Nat) /\ Len(h) = 1 + WideOf(l) /\ h[1] = l + flag
        /\ WideOf(l) = 0 => l = l
        /\ WideOf(l) # 0 => Codec!Shifted(l, LenRadix)[WideOf(l)] = 0
        /\ \A i \in 1 .. WideOf(l) : h[1 + i] = Codec!Shifted(l, LenRadix)[WideOf(l) - i] % LenRadix
    BY <2>1, <2>2
  <2> QED BY <2>1, <2>3, Zenon DEF h
<1>2. ASSUME NEW short \in 0 .. 127, NEW wide \in Nat,
             h = <<short + flag>> \o Codec!Digits(l, wide), Codec!Shifted(l, LenRadix)[wide] = 0
      PROVE  /\ h \in Seq(Nat) /\ Len(h) = 1 + wide /\ h[1] = short + flag
             /\ \A i \in 1 .. wide : h[1 + i] = Codec!Shifted(l, LenRadix)[wide - i] % LenRadix
  <2> DEFINE u == <<short + flag>>
             d == Codec!Digits(l, wide)
  <2>1. u \in Seq(Nat) /\ Len(u) = 1 /\ u[1] = short + flag
    OBVIOUS
  <2>3. /\ d \in Seq(Nat) /\ Len(d) = wide
        /\ \A i \in 1 .. wide : d[i] = Codec!Shifted(l, LenRadix)[wide - i] % LenRadix
    BY <1>2, DigitBytes
  <2>4. h = u \o d
    BY <1>2
  <2> HIDE DEF u, d, h
  <2>5. /\ h \in Seq(Nat) /\ Len(h) = Len(u) + Len(d)
        /\ \A i \in 1 .. Len(u) : h[i] = u[i]
        /\ \A i \in 1 .. Len(d) : h[Len(u) + i] = d[i]
    <3>1. /\ u \o d \in Seq(Nat) /\ Len(u \o d) = Len(u) + Len(d)
          /\ \A i \in 1 .. Len(u) : (u \o d)[i] = u[i]
          /\ \A i \in 1 .. Len(d) : (u \o d)[Len(u) + i] = d[i]
      BY <2>1, <2>3, JoinedNat, ZenonT(90)
    <3> QED BY <2>4, <3>1
  <2>6. 1 \in 1 .. 1
    OBVIOUS
  <2> QED BY <2>1, <2>3, <2>5, <2>6, ZenonT(90)
<1>3. CASE ~ (l < ShortLen) /\ l < LenRadix * LenRadix
  <2>1. ShortLen \in 0 .. 127 /\ WideOf(ShortLen) = 2 /\ h = <<ShortLen + flag>> \o Codec!Digits(l, 2)
    BY <1>0, <1>3 DEF LengthField, WideOf
  <2>2. Codec!Shifted(l, LenRadix)[2] = 0
    BY <1>0, <1>3, TwoDigits
  <2>3. /\ h \in Seq(Nat) /\ Len(h) = 1 + 2 /\ h[1] = ShortLen + flag
        /\ \A i \in 1 .. 2 : h[1 + i] = Codec!Shifted(l, LenRadix)[2 - i] % LenRadix
    <3> HIDE DEF h
    <3> QED BY <1>0, <1>2, <2>1, <2>2, ZenonT(90)
  <2> HIDE DEF h
  <2>4. LET short == ShortLen IN
        /\ h \in Seq(Nat) /\ Len(h) = 1 + WideOf(short) /\ h[1] = short + flag
        /\ WideOf(short) = 0 => short = l
        /\ WideOf(short) # 0 => Codec!Shifted(l, LenRadix)[WideOf(short)] = 0
        /\ \A i \in 1 .. WideOf(short) : h[1 + i] = Codec!Shifted(l, LenRadix)[WideOf(short) - i] % LenRadix
    BY <2>1, <2>2, <2>3
  <2> QED BY <2>1, <2>4, Zenon DEF h
<1>4. CASE ~ (l < ShortLen) /\ ~ (l < LenRadix * LenRadix)
  <2>1. /\ ShortLen + 1 \in 0 .. 127 /\ WideOf(ShortLen + 1) = 8
        /\ h = <<ShortLen + 1 + flag>> \o Codec!Digits(l, 8)
    BY <1>0, <1>4 DEF LengthField, WideOf
  <2>2. /\ h \in Seq(Nat) /\ Len(h) = 1 + 8 /\ h[1] = ShortLen + 1 + flag
        /\ \A i \in 1 .. 8 : h[1 + i] = Codec!Shifted(l, LenRadix)[8 - i] % LenRadix
    <3> HIDE DEF h
    <3> QED BY <1>0, <1>2, <2>1, ZenonT(90)
  <2> HIDE DEF h
  <2> DEFINE short == ShortLen + 1
  <2>3. /\ h \in Seq(Nat) /\ Len(h) = 1 + WideOf(short) /\ h[1] = short + flag
        /\ WideOf(short) = 0 => short = l
        /\ WideOf(short) # 0 => Codec!Shifted(l, LenRadix)[WideOf(short)] = 0
        /\ \A i \in 1 .. WideOf(short) : h[1 + i] = Codec!Shifted(l, LenRadix)[WideOf(short) - i] % LenRadix
    <3>1. 8 # 0 /\ Codec!Shifted(l, LenRadix)[8] = 0 /\ WideOf(short) = 8
      BY <2>1
    <3> HIDE DEF WideOf
    <3> QED BY <2>2, <3>1, SMTT(60)
  <2> QED BY <2>1, <2>3, Zenon DEF h
<1> QED BY <1>1, <1>3, <1>4

\* What follows the length field.
BodyOf(p, masked) == IF masked THEN Codec!Mask \o Codec!Masked(p, Codec!Mask) ELSE p

\* The parts of the body of a frame.
LEMMA BodyBytes ==
    ASSUME NEW p \in Seq(0 .. 255), NEW masked \in BOOLEAN
    PROVE  LET b == BodyOf(p, masked) IN
           /\ b \in Seq(Nat) /\ Len(b) = (IF masked THEN 4 ELSE 0) + Len(p)
           /\ masked => /\ \A i \in 1 .. 4 : b[i] = Codec!Mask[i]
                        /\ \A i \in 1 .. Len(p) : b[4 + i] = Codec!Masked(p, Codec!Mask)[i]
           /\ ~masked => b = p
<1>1. CASE masked
  <2> DEFINE u == Codec!Mask
             v == Codec!Masked(p, Codec!Mask)
  <2>1. u \in Seq(Nat) /\ Len(u) = 4 /\ v \in Seq(Nat) /\ Len(v) = Len(p)
    BY MaskBytes, BytesNat, MaskedTwice
  <2> HIDE DEF u, v
  <2>2. /\ u \o v \in Seq(Nat) /\ Len(u \o v) = Len(u) + Len(v)
        /\ \A i \in 1 .. Len(u) : (u \o v)[i] = u[i]
        /\ \A i \in 1 .. Len(v) : (u \o v)[Len(u) + i] = v[i]
    BY <2>1, JoinedNat, Zenon
  <2>3. BodyOf(p, masked) = u \o v
    BY <1>1 DEF BodyOf, u, v
  <2> QED BY <1>1, <2>1, <2>2, <2>3, Zenon DEF u, v
<1>2. CASE ~masked
  <2>1. BodyOf(p, masked) = p /\ p \in Seq(Nat) /\ Len(p) \in Nat
    BY <1>2, BytesNat DEF BodyOf
  <2>2. Len(p) = 0 + Len(p)
    BY <2>1
  <2> QED BY <1>2, <2>1, <2>2
<1> QED BY <1>1, <1>2

FlagOf(masked) == IF masked THEN 128 ELSE 0

\* The parts of a frame.
LEMMA FrameBytes ==
    ASSUME NEW p \in Seq(0 .. 255), NEW masked \in BOOLEAN, NEW h \in Seq(Nat),
           h = LengthField(Len(p), FlagOf(masked))
    PROVE  LET f == Codec!EncodeFrame(p, masked)
               b == BodyOf(p, masked)
           IN  /\ f \in Seq(Nat) /\ Len(f) = 1 + Len(h) + Len(b)
               /\ \A i \in 1 .. Len(h) : f[1 + i] = h[i]
               /\ \A i \in 1 .. Len(b) : f[1 + Len(h) + i] = b[i]
<1> DEFINE f == Codec!EncodeFrame(p, masked)
           b == BodyOf(p, masked)
           o == <<130>>
           t == o \o h
<1>1. f = (o \o h) \o b
  BY DEF Codec!EncodeFrame, LengthField, BodyOf, FlagOf
<1>2. o \in Seq(Nat) /\ Len(o) = 1 /\ b \in Seq(Nat) /\ Len(b) \in Nat /\ Len(h) \in Nat
  <2>1. b \in Seq(Nat)
    BY BodyBytes
  <2>2. o \in Seq(Nat) /\ Len(o) = 1
    OBVIOUS
  <2> HIDE DEF b, o
  <2> QED BY <2>1, <2>2
<1> HIDE DEF f, b, o
<1>3. /\ t \in Seq(Nat) /\ Len(t) = Len(o) + Len(h)
      /\ \A i \in 1 .. Len(o) : t[i] = o[i]
      /\ \A i \in 1 .. Len(h) : t[Len(o) + i] = h[i]
  BY <1>2, JoinedNat, Zenon
<1>4. f = t \o b
  BY <1>1
<1> HIDE DEF t
<1>5. /\ t \o b \in Seq(Nat) /\ Len(t \o b) = Len(t) + Len(b)
      /\ \A i \in 1 .. Len(t) : (t \o b)[i] = t[i]
      /\ \A i \in 1 .. Len(b) : (t \o b)[Len(t) + i] = b[i]
  BY <1>2, <1>3, JoinedNat, Zenon
<1>6. Len(t) = 1 + Len(h)
  BY <1>2, <1>3
<1>7. ASSUME NEW i \in 1 .. Len(h) PROVE f[1 + i] = h[i]
  <2>1. 1 + i \in 1 .. Len(t)
    BY <1>2, <1>6
  <2>2. f[1 + i] = t[1 + i]
    BY <1>4, <1>5, <2>1
  <2>3. t[1 + i] = h[i]
    BY <1>2, <1>3
  <2> QED BY <2>2, <2>3
<1>8. \A i \in 1 .. Len(b) : f[1 + Len(h) + i] = b[i]
  BY <1>4, <1>5, <1>6, Zenon
<1>9. f \in Seq(Nat) /\ Len(f) = 1 + Len(h) + Len(b)
  BY <1>4, <1>5, <1>6
<1> QED BY <1>7, <1>8, <1>9 DEF f, b

\* The mask flag and the length in one byte do not disturb each other.
LEMMA FlagAndShort ==
    ASSUME NEW short \in 0 .. 127, NEW masked \in BOOLEAN
    PROVE  /\ (short + FlagOf(masked)) % 128 = short
           /\ short + FlagOf(masked) >= 128 <=> masked
<1>1. short % 128 = short /\ (short + 128) % 128 = short
  OBVIOUS
<1>2. CASE masked
  BY <1>1, <1>2 DEF FlagOf
<1>3. CASE ~masked
  <2>1. short + 0 = short
    OBVIOUS
  <2> QED BY <1>1, <1>3, <2>1 DEF FlagOf
<1> QED BY <1>2, <1>3

\* A frame is unwrapped to its payload, and a part of one is not.
LEMMA FrameDecoded ==
    ASSUME NEW p \in Seq(0 .. 255), NEW masked \in BOOLEAN, Codec!Shifted(Len(p), LenRadix)[8] = 0,
           NEW buf \in Seq(Nat), Len(buf) <= Len(Codec!EncodeFrame(p, masked)),
           \A i \in 1 .. Len(buf) : buf[i] = Codec!EncodeFrame(p, masked)[i]
    PROVE  /\ Len(buf) < Len(Codec!EncodeFrame(p, masked)) => Codec!DecodeFrame(buf) = [found |-> FALSE]
           /\ Len(buf) = Len(Codec!EncodeFrame(p, masked))
                => Codec!DecodeFrame(buf) = [found |-> TRUE, payload |-> p]
<1> DEFINE f == Codec!EncodeFrame(p, masked)
           l == Len(p)
           L == Len(buf)
           h == LengthField(l, FlagOf(masked))
           b == BodyOf(p, masked)
           R == LenRadix
           keyLen == IF masked THEN 4 ELSE 0
<1>0. l \in Nat /\ L \in Nat /\ FlagOf(masked) \in {0, 128} /\ R \in Nat \ {0} /\ keyLen \in Nat
  BY CodecAssumption DEF FlagOf
<1>1. PICK short \in 0 .. 127 :
        /\ h \in Seq(Nat) /\ Len(h) = 1 + WideOf(short) /\ h[1] = short + FlagOf(masked)
        /\ WideOf(short) = 0 => short = l
        /\ WideOf(short) # 0 => Codec!Shifted(l, R)[WideOf(short)] = 0
        /\ \A i \in 1 .. WideOf(short) : h[1 + i] = Codec!Shifted(l, R)[WideOf(short) - i] % R
  <2> DEFINE flag == FlagOf(masked)
  <2>1. l \in Nat /\ Codec!Shifted(l, LenRadix)[8] = 0 /\ flag \in {0, 128}
    BY <1>0
  <2> HIDE DEF l, flag
  <2>2. \E short \in 0 .. 127 :
             LET g == LengthField(l, flag)
                 wide == WideOf(short)
             IN  /\ g \in Seq(Nat) /\ Len(g) = 1 + wide /\ g[1] = short + flag
                 /\ wide = 0 => short = l
                 /\ wide # 0 => Codec!Shifted(l, LenRadix)[wide] = 0
                 /\ \A i \in 1 .. wide : g[1 + i] = Codec!Shifted(l, LenRadix)[wide - i] % LenRadix
    BY <2>1, LengthOf, ZenonT(90)
  <2> QED BY <2>2, Zenon DEF flag
<1> DEFINE wide == WideOf(short)
<1>2. wide \in {0, 2, 8} /\ wide \in Nat
  BY DEF WideOf
<1>3. /\ b \in Seq(Nat) /\ Len(b) = keyLen + l
      /\ masked => /\ \A i \in 1 .. 4 : b[i] = Codec!Mask[i]
                   /\ \A i \in 1 .. l : b[4 + i] = Codec!Masked(p, Codec!Mask)[i]
      /\ ~masked => b = p
  BY BodyBytes
<1>4. /\ f \in Seq(Nat) /\ Len(f) = 1 + Len(h) + Len(b)
      /\ \A i \in 1 .. Len(h) : f[1 + i] = h[i]
      /\ \A i \in 1 .. Len(b) : f[1 + Len(h) + i] = b[i]
  <2>1. h = LengthField(Len(p), FlagOf(masked)) /\ h \in Seq(Nat)
    BY <1>1
  <2> HIDE DEF h
  <2> QED BY <2>1, FrameBytes, Zenon
<1>5. L <= Len(f) /\ \A i \in 1 .. L : buf[i] = f[i]
  OBVIOUS
<1> HIDE DEF f, l, L, h, b, wide, keyLen
<1>6. Len(f) = 2 + wide + keyLen + l /\ Len(h) = 1 + wide /\ Len(b) \in Nat
  BY <1>0, <1>1, <1>2, <1>3, <1>4, SMTT(60) DEF wide
<1>7. ASSUME L >= 2 PROVE buf[2] % 128 = short /\ (buf[2] >= 128 <=> masked)
  <2>1. 2 \in 1 .. L /\ 1 \in 1 .. Len(h) /\ 1 + 1 = 2
    BY <1>0, <1>2, <1>6, <1>7
  <2>2. buf[2] = short + FlagOf(masked)
    BY <1>1, <1>4, <1>5, <2>1
  <2>3. short \in 0 .. 127
    BY <1>1
  <2>4. /\ (short + FlagOf(masked)) % 128 = short
        /\ short + FlagOf(masked) >= 128 <=> masked
    BY <2>3, FlagAndShort, Zenon
  <2> QED BY <2>2, <2>4, Zenon
<1>8. ASSUME L >= 2 + wide, wide # 0 PROVE Codec!FromDigits(buf, wide) = l
  <2> DEFINE d == [i \in 1 .. wide |-> buf[3 + wide - i]]
  <2>1. \A i \in 1 .. wide : d[i] = Codec!Shifted(l, R)[i - 1] % R /\ d[i] \in Nat
    <3> TAKE i \in 1 .. wide
    <3> DEFINE j == wide + 1 - i
    <3>1. /\ j \in 1 .. wide /\ 3 + wide - i = 2 + j /\ 2 + j \in 1 .. L /\ 1 + j \in 1 .. Len(h)
          /\ 2 + j = 1 + (1 + j) /\ wide - j = i - 1
      BY <1>0, <1>2, <1>6, <1>8
    <3> HIDE DEF j
    <3>2. d[i] = buf[2 + j]
      BY <3>1
    <3> HIDE DEF d
    <3>3. buf[2 + j] = f[1 + (1 + j)]
      BY <1>5, <3>1, Zenon
    <3>4. f[1 + (1 + j)] = h[1 + j]
      BY <1>4, <3>1
    <3>5. h[1 + j] = Codec!Shifted(l, R)[wide - j] % R
      BY <1>1, <3>1, Zenon DEF wide
    <3>6. buf[2 + j] \in Nat
      BY <3>1, ElementOfSeq, Zenon DEF L
    <3> QED BY <3>1, <3>2, <3>3, <3>4, <3>5, <3>6, Zenon
  <2>2. d \in Seq(Nat) /\ Len(d) = wide
    <3>1. d = [i \in 1 .. wide |-> d[i]]
      OBVIOUS
    <3> HIDE DEF d
    <3>2. d \in [1 .. wide -> Nat]
      BY <2>1, <3>1
    <3> QED BY <1>2, <3>2, FunSeq
  <2>3. Codec!FromDigits(buf, wide) = Codec!Number(d, R)
    BY DEF Codec!FromDigits
  <2>4. Codec!Shifted(l, R)[wide] = 0
    BY <1>1, <1>8 DEF wide
  <2> HIDE DEF d
  <2>5. \A i \in 1 .. Len(d) : d[i] = Codec!Shifted(l, R)[i - 1] % R
    BY <2>1, <2>2
  <2>6. Codec!Shifted(l, R)[Len(d)] = 0
    BY <2>2, <2>4
  <2>7. Codec!Number(d, R) = l
    BY <1>0, <2>2, <2>5, <2>6, NumberOfDigits
  <2> QED BY <2>3, <2>7
<1> DEFINE sh == buf[2] % 128
           ms == buf[2] >= 128
           wd == IF sh = ShortLen THEN 2 ELSE IF sh = ShortLen + 1 THEN 8 ELSE 0
           ln == IF wd = 0 THEN sh ELSE Codec!FromDigits(buf, wd)
           of == 2 + wd + IF ms THEN 4 ELSE 0
           pl == SubSeq(buf, of + 1, of + ln)
           res == [found |-> TRUE, payload |-> IF ms THEN Codec!Masked(pl, SubSeq(buf, of - 3, of)) ELSE pl]
<1>9. Codec!DecodeFrame(buf) =
        IF L < 2 THEN [found |-> FALSE]
        ELSE IF L < 2 + wd THEN [found |-> FALSE]
        ELSE IF L < of + ln THEN [found |-> FALSE]
        ELSE res
  BY DEF Codec!DecodeFrame, Codec!None, L
<1> HIDE DEF sh, ms, res
<1>10. L >= 2 => wd = wide
  BY <1>7 DEF sh, wide, WideOf
<1> HIDE DEF wd
<1>11. L >= 2 + wide /\ L >= 2 => ln = l
  <2> HAVE L >= 2 + wide /\ L >= 2
  <2>1. sh = short
    BY <1>7 DEF sh
  <2>2. CASE wide = 0
    BY <1>1, <1>10, <2>1, <2>2 DEF wide
  <2>3. CASE wide # 0
    BY <1>8, <1>10, <2>3
  <2> QED BY <2>2, <2>3
<1> HIDE DEF ln
<1>12. L >= 2 => of = 2 + wide + keyLen
  BY <1>7, <1>10 DEF ms, keyLen
<1> HIDE DEF of
<1> DEFINE df == Codec!DecodeFrame(buf)
<1>13. ASSUME L < Len(f) PROVE df = [found |-> FALSE]
  <2>1. CASE L < 2
    BY <1>9, <2>1
  <2>2. CASE L >= 2 /\ L < 2 + wide
    BY <1>0, <1>9, <1>10, <2>2
  <2>3. CASE L >= 2 /\ L >= 2 + wide
    <3>1. L < of + ln
      BY <1>0, <1>2, <1>6, <1>11, <1>12, <1>13, <2>3
    <3>2. ~ (L < 2) /\ ~ (L < 2 + wd)
      BY <1>0, <1>2, <1>10, <2>3
    <3> HIDE DEF res
    <3> QED BY <1>9, <3>1, <3>2
  <2> QED BY <1>0, <1>2, <2>1, <2>2, <2>3
<1>14. ASSUME L = Len(f) PROVE df = [found |-> TRUE, payload |-> p]
  <2>1. L >= 2 /\ L >= 2 + wide
    BY <1>0, <1>2, <1>6, <1>14
  <2>2. /\ wd = wide /\ ln = l /\ of = 2 + wide + keyLen /\ of + ln = L /\ of \in Nat /\ of >= 2 + wide
    BY <1>0, <1>2, <1>6, <1>10, <1>11, <1>12, <1>14, <2>1
  <2>3. df = res
    <3>1. ~ (L < 2) /\ ~ (L < 2 + wd) /\ ~ (L < of + ln)
      BY <1>0, <1>2, <2>1, <2>2
    <3> QED BY <1>9, <3>1
  <2>4. Len(pl) = l /\ pl \in Seq(Nat) /\ \A i \in 1 .. l : pl[i] = buf[of + i]
    <3>1. of + 1 \in Nat \ {0} /\ of + ln \in Nat /\ of + 1 <= (of + ln) + 1 /\ of + ln <= Len(buf)
      BY <1>0, <2>2, SMTT(60) DEF L
    <3>2. /\ pl \in Seq(Nat) /\ Len(pl) = (of + ln) - (of + 1) + 1
          /\ \A i \in 1 .. (of + ln) - (of + 1) + 1 : pl[i] = buf[(of + 1) + i - 1]
      BY <3>1, SliceNat, Zenon
    <3>3. (of + ln) - (of + 1) + 1 = l
      BY <1>0, <2>2
    <3> HIDE DEF pl
    <3>4. \A i \in 1 .. l : pl[i] = buf[of + i]
      <4> TAKE i \in 1 .. l
      <4>1. (of + 1) + i - 1 = of + i
        BY <1>0, <2>2
      <4> QED BY <3>2, <3>3, <4>1
    <3> QED BY <3>2, <3>3, <3>4
  <2> HIDE DEF pl
  <2>5. \A i \in 1 .. Len(b) : buf[2 + wide + i] = b[i]
    <3> TAKE i \in 1 .. Len(b)
    <3>1. 2 + wide + i \in 1 .. L /\ 1 + Len(h) + i = 2 + wide + i
      BY <1>0, <1>2, <1>3, <1>6, <1>14
    <3> QED BY <1>4, <1>5, <3>1
  <2>6. CASE masked
    <3>1. ms /\ keyLen = 4 /\ Len(b) = 4 + l
      BY <1>3, <1>7, <2>1, <2>6 DEF ms, keyLen
    <3> DEFINE k == SubSeq(buf, of - 3, of)
    <3>2. k = Codec!Mask
      <4>1. of = 6 + wide /\ of - 3 = 3 + wide
        BY <1>2, <2>2, <3>1
      <4>2. of - 3 \in Nat \ {0} /\ of - 3 <= of + 1 /\ of <= Len(buf) /\ of - (of - 3) + 1 = 4
        BY <1>0, <1>2, <2>2, <4>1 DEF L
      <4>3. k \in Seq(Nat) /\ Len(k) = of - (of - 3) + 1 /\ \A i \in 1 .. of - (of - 3) + 1 : k[i] = buf[(of - 3) + i - 1]
        BY <2>2, <4>2, SliceNat, ZenonT(60)
      <4> HIDE DEF k
      <4>4. \A i \in 1 .. 4 : k[i] = Codec!Mask[i]
        <5> TAKE i \in 1 .. 4
        <5>1. (of - 3) + i - 1 = 2 + wide + i /\ i \in 1 .. Len(b)
          BY <1>0, <1>2, <3>1, <4>1
        <5>2. k[i] = buf[(of - 3) + i - 1]
          BY <4>2, <4>3, Zenon
        <5>3. buf[2 + wide + i] = b[i]
          BY <2>5, <5>1
        <5>4. b[i] = Codec!Mask[i]
          BY <1>3, <2>6, Zenon
        <5> QED BY <5>1, <5>2, <5>3, <5>4
      <4>5. Codec!Mask \in Seq(Nat) /\ Len(Codec!Mask) = 4 /\ Len(k) = 4
        BY <4>2, <4>3, MaskBytes, BytesNat
      <4> QED BY <4>3, <4>4, <4>5, SeqEqual, Zenon
    <3>3. \A i \in 1 .. l : pl[i] = Codec!Masked(p, Codec!Mask)[i]
      <4> TAKE i \in 1 .. l
      <4>1. of + i = 2 + wide + (4 + i) /\ 4 + i \in 1 .. Len(b)
        BY <1>0, <1>2, <2>2, <3>1
      <4>2. pl[i] = buf[of + i]
        BY <2>4
      <4>3. buf[2 + wide + (4 + i)] = b[4 + i]
        BY <2>5, <4>1
      <4>4. b[4 + i] = Codec!Masked(p, Codec!Mask)[i]
        BY <1>3, <2>6
      <4> QED BY <4>1, <4>2, <4>3, <4>4
    <3>4. Codec!Masked(pl, Codec!Mask) = p
      BY <2>4, <3>3, MaskedTwice DEF l
    <3> QED BY <2>3, <3>1, <3>2, <3>4, Zenon DEF res
  <2>7. CASE ~masked
    <3>1. ~ms /\ keyLen = 0 /\ b = p /\ Len(b) = l
      BY <1>0, <1>3, <1>7, <2>1, <2>7 DEF ms, keyLen
    <3>2. \A i \in 1 .. l : pl[i] = p[i]
      <4> TAKE i \in 1 .. l
      <4>1. of + i = 2 + wide + i /\ i \in 1 .. Len(b)
        BY <1>0, <1>2, <2>2, <3>1
      <4> QED BY <2>4, <2>5, <3>1, <4>1
    <3>3. pl = p
      <4>1. p \in Seq(Nat) /\ Len(p) = l
        BY BytesNat DEF l
      <4> QED BY <2>4, <3>2, <4>1, SeqEqual
    <3> QED BY <2>3, <3>1, <3>3 DEF res
  <2> QED BY <2>6, <2>7
<1> QED BY <1>13, <1>14 DEF L, f

\* The parsers agree about any frame.
LEMMA Agreement ==
    ASSUME NEW buf \in Seq(Nat)
    PROVE  /\ Codec!ClassifyFrame(buf) \in {"Malformed", "Truncated", "Unknown", "Empty"}
                => ~Codec!DecodeBinary(buf).valid /\ Codec!Feed(buf) \in {"Unknown", "Empty", "Error"}
           /\ Codec!DecodeBinary(buf).valid => Codec!Feed(buf) \in {"Event", "Connect", "Ping"}
<1> DEFINE pk == Codec!ParsePacket(buf)
<1>1. /\ Codec!Error.valid = FALSE /\ Codec!Unknown.kind = "Unknown"
  BY DEF Codec!Error, Codec!Unknown
<1>2. CASE buf = <<>>
  <2>1. Codec!DecodeBinary(buf) = Codec!Error /\ Codec!Feed(buf) = "Empty"
    BY <1>2 DEF Codec!DecodeBinary, Codec!Feed
  <2> QED BY <1>1, <2>1
<1>3. CASE buf # <<>> /\ Codec!IsPing(buf)
  <2>1. Codec!ClassifyFrame(buf) = "EnginePing" /\ Codec!Feed(buf) = "Ping"
    BY <1>3 DEF Codec!ClassifyFrame, Codec!Feed
  <2> QED BY <2>1
<1>4. CASE /\ buf # <<>> /\ ~Codec!IsPing(buf)
           /\ Codec!IsPong(buf) \/ Codec!IsOpenFrame(buf) \/ Codec!IsClose(buf)
  <2>1. Codec!ClassifyFrame(buf) \in {"EnginePong", "EngineOpen", "EngineClose"}
    BY <1>4 DEF Codec!ClassifyFrame
  <2>2. Codec!DecodeBinary(buf) = Codec!Error
    BY <1>4 DEF Codec!DecodeBinary
  <2> QED BY <1>1, <2>1, <2>2
<1>5. CASE /\ buf # <<>> /\ ~Codec!IsPing(buf)
           /\ ~ (Codec!IsPong(buf) \/ Codec!IsOpenFrame(buf) \/ Codec!IsClose(buf))
           /\ buf[1] # 4
  <2>1. Codec!DecodeBinary(buf) = Codec!Error
    BY <1>5 DEF Codec!DecodeBinary
  <2>2. CASE Codec!IsMessage(buf)
    <3>1. Codec!ClassifyFrame(buf) = "EngineMessageText"
      BY <1>5, <2>2 DEF Codec!ClassifyFrame
    <3> QED BY <1>1, <2>1, <3>1
  <2>3. CASE ~Codec!IsMessage(buf)
    <3>1. Codec!Feed(buf) = "Error"
      BY <1>5, <2>3 DEF Codec!Feed
    <3> QED BY <1>1, <2>1, <3>1
  <2> QED BY <2>2, <2>3
<1>6. CASE /\ buf # <<>> /\ ~Codec!IsPing(buf)
           /\ ~ (Codec!IsPong(buf) \/ Codec!IsOpenFrame(buf) \/ Codec!IsClose(buf))
           /\ buf[1] = 4
  <2>1. ~Codec!IsMessage(buf)
    BY <1>6 DEF Codec!IsMessage
  <2>2. Codec!Feed(buf) = pk.kind
    BY <1>6, <2>1 DEF Codec!Feed
  <2>3. /\ pk.kind = "Event" => Codec!Feed(buf) = "Event"
        /\ pk.kind = "Connect" => Codec!Feed(buf) = "Connect"
        /\ pk.kind \notin {"Event", "Connect"} => Codec!DecodeBinary(buf) = Codec!Error
    BY <1>6, <2>2 DEF Codec!DecodeBinary
  <2>4. Codec!ClassifyFrame(buf) \in {"Malformed", "Truncated", "Unknown", "Empty"} => pk = Codec!Unknown
    <3>1. CASE Len(buf) < 2
      BY <3>1 DEF Codec!ParsePacket
    <3>2. CASE ~ (Len(buf) < 2) /\ pk # Codec!Unknown
      BY <1>6, <2>1, <3>2 DEF Codec!ClassifyFrame
    <3> QED BY <3>1, <3>2
  <2> HIDE DEF pk
  <2> QED BY <1>1, <2>2, <2>3, <2>4
<1> QED BY <1>2, <1>3, <1>4, <1>5, <1>6

\* Bytes whose number, and that of any part of them, a frame's length field
\* holds.
Carried(q) == q \in Seq(0 .. 255) /\ \A l \in 0 .. Len(q) : Codec!Shifted(l, LenRadix)[8] = 0

\* What is sent is short enough for a frame.
LEMMA CarriedUpTo ==
    ASSUME NEW q \in Seq(0 .. 255), NEW h \in Hashes \cup {<<>>}, Len(q) <= Len(h) + 64
    PROVE  Carried(q)
<1>1. \A l \in 0 .. Len(h) + 64 : Codec!Shifted(l, LenRadix)[8] = 0
  BY CodecAssumption
<1>2. h \in Seq(0 .. 255)
  <2>1. Hashes \subseteq Seq(0 .. 255)
    BY CodecAssumption
  <2>2. <<>> \in Seq(0 .. 255)
    OBVIOUS
  <2> QED BY <2>1, <2>2, Zenon
<1>3. Len(q) \in Nat /\ Len(h) \in Nat
  BY <1>2
<1>4. \A l \in 0 .. Len(q) : l \in 0 .. Len(h) + 64
  BY <1>3
<1> QED BY <1>1, <1>4 DEF Carried

\* The packet of a round fits into a frame.
LEMMA RoundCarried ==
    ASSUME NEW m \in Codec!Rounds PROVE Carried(Codec!Encoded(m))
<1> DEFINE p == Codec!EncodeEndPayload(m.id, m.mult, m.hash)
           a == Codec!GroupCount(m.id)
           b == Codec!GroupCount(m.mult)
           d == Codec!GroupCount(Len(m.hash))
           h == m.hash
           q == Codec!Encoded(m)
<1>1. /\ m.name \in Names \ {"pg"} /\ Fits(m.id) /\ Fits(m.mult)
      /\ h \in Seq(0 .. 255) /\ Fits(Len(h)) /\ h \in Hashes
  BY RoundFits
<1>2. p \in Seq(0 .. 255) /\ Len(p) = 2 + a + b + (IF h = <<>> THEN 0 ELSE 1 + d + Len(h))
  BY <1>1, RoundBytes
<1>3. a \in 1 .. 10 /\ b \in 1 .. 10 /\ d \in 1 .. 10 /\ Len(h) \in Nat
  BY <1>1, GroupsOf
<1>4. q = Codec!EncodeEvent(m.name, p)
  BY <1>1 DEF Codec!Encoded
<1>5. q \in Seq(0 .. 255) /\ Len(q) = 6 + Len(p)
  BY <1>1, <1>2, <1>4, EventBytes, SMTT(60)
<1> HIDE DEF p, a, b, d, h, q
<1>6. Len(q) <= Len(h) + 64
  <2>1. CASE h = <<>>
    <3>1. Len(p) = 2 + a + b + 0
      BY <1>2, <2>1
    <3> QED BY <1>3, <1>5, <3>1
  <2>2. CASE h # <<>>
    <3>1. Len(p) = 2 + a + b + (1 + d + Len(h))
      BY <1>2, <2>2
    <3> QED BY <1>3, <1>5, <3>1
  <2> QED BY <2>1, <2>2
<1>7. Carried(q)
  BY <1>1, <1>5, <1>6, CarriedUpTo
<1> QED BY <1>7 DEF q

\* The packet of a progress event fits into a frame.
LEMMA ProgressCarried ==
    ASSUME NEW m \in Codec!Progresses PROVE Carried(Codec!Encoded(m))
<1> DEFINE p == Codec!EncodeProgressPayload(m.elapsed)
           a == Codec!GroupCount(m.elapsed)
           q == Codec!Encoded(m)
<1>1. m.name = "pg" /\ m.name \in Names /\ Fits(m.elapsed) /\ 1 \in 1 .. 15
  BY ProgressFits
<1>2. p \in Seq(0 .. 255) /\ Len(p) = 1 + a
  BY <1>1, NumBytes DEF Codec!EncodeProgressPayload
<1>3. a \in 1 .. 10
  BY <1>1, GroupsOf
<1>4. q = Codec!EncodeEvent(m.name, p)
  BY <1>1 DEF Codec!Encoded
<1>5. q \in Seq(0 .. 255) /\ Len(q) = 6 + Len(p)
  BY <1>1, <1>2, <1>4, EventBytes
<1> HIDE DEF p, a, q
<1>6. <<>> \in Hashes \cup {<<>>} /\ Len(<<>>) = 0
  OBVIOUS
<1>7. Len(q) <= Len(<<>>) + 64
  BY <1>2, <1>3, <1>5, <1>6
<1>8. Carried(q)
  BY <1>5, <1>6, <1>7, CarriedUpTo, Zenon
<1> QED BY <1>8 DEF q

\* A control packet fits into a frame.
LEMMA ControlCarried ==
    ASSUME NEW c \in Codec!Controls PROVE Carried(c)
<1>1. <<>> \in Hashes \cup {<<>>} /\ Len(<<>>) = 0
  OBVIOUS
<1>2. ASSUME NEW q \in Seq(0 .. 255), Len(q) <= 64 PROVE Carried(q)
  <2>1. Len(q) <= Len(<<>>) + 64
    BY <1>1, <1>2
  <2> QED BY <1>1, <2>1, CarriedUpTo
<1>3. /\ <<>> \in Seq(0 .. 255) /\ <<50>> \in Seq(0 .. 255) /\ <<51>> \in Seq(0 .. 255)
      /\ <<49>> \in Seq(0 .. 255) /\ <<48, 123>> \in Seq(0 .. 255) /\ <<52, 9>> \in Seq(0 .. 255)
      /\ Len(<<50>>) = 1 /\ Len(<<51>>) = 1 /\ Len(<<49>>) = 1 /\ Len(<<48, 123>>) = 2 /\ Len(<<52, 9>>) = 2
  OBVIOUS
<1>4. /\ <<47>> \in Seq(0 .. 255) /\ Len(<<47>>) = 1 /\ <<0>> \in Seq(0 .. 255) /\ Len(<<0>>) = 1
      /\ <<1>> \in Seq(0 .. 255) /\ Len(<<1>>) = 1 /\ <<7>> \in Seq(0 .. 255) /\ Len(<<7>>) = 1
      /\ <<4, 0, 1>> \in Seq(0 .. 255) /\ Len(<<4, 0, 1>>) = 3
  OBVIOUS
<1>5. <<4, 130, 0, 0, 0, 0, 1>> \in Seq(0 .. 255) /\ Len(<<4, 130, 0, 0, 0, 0, 1>>) = 7
  OBVIOUS
<1>6. Codec!EncodeConnect \in Seq(0 .. 255) /\ Len(Codec!EncodeConnect) = 5
  <2> DEFINE u == <<4, 0, 1>>
             v == <<47>>
             w == <<0>>
  <2>1. Codec!EncodeConnect = (u \o v) \o w
    BY <1>4 DEF Codec!EncodeConnect, Codec!Nsp
  <2>2. u \in Seq(0 .. 255) /\ v \in Seq(0 .. 255) /\ w \in Seq(0 .. 255) /\ Len(u) = 3 /\ Len(v) = 1 /\ Len(w) = 1
    BY <1>4
  <2> HIDE DEF u, v, w
  <2>3. u \o v \in Seq(0 .. 255) /\ Len(u \o v) = Len(u) + Len(v)
    BY <2>2, Joined, ZenonT(60)
  <2>4. (u \o v) \o w \in Seq(0 .. 255) /\ Len((u \o v) \o w) = Len(u \o v) + Len(w)
    BY <2>2, <2>3, Joined
  <2>5. Len((u \o v) \o w) = 5
    BY <2>2, <2>3, <2>4
  <2> QED BY <2>1, <2>4, <2>5
<1>7. Codec!EncodeJoin(<<7>>) \in Seq(0 .. 255) /\ Len(Codec!EncodeJoin(<<7>>)) = 10
  <2> DEFINE u == <<4, 130, 0, 0, 0, 0, 1>>
             v == <<47>>
             w == <<1>>
             z == <<7>>
  <2>1. Codec!EncodeJoin(<<7>>) = ((u \o v) \o w) \o z
    BY <1>4 DEF Codec!EncodeJoin, Codec!Nsp
  <2>2. /\ u \in Seq(0 .. 255) /\ v \in Seq(0 .. 255) /\ w \in Seq(0 .. 255) /\ z \in Seq(0 .. 255)
        /\ Len(u) = 7 /\ Len(v) = 1 /\ Len(w) = 1 /\ Len(z) = 1
    BY <1>4, <1>5
  <2> HIDE DEF u, v, w, z
  <2>3. u \o v \in Seq(0 .. 255) /\ Len(u \o v) = Len(u) + Len(v)
    BY <2>2, Joined, ZenonT(90)
  <2>4. (u \o v) \o w \in Seq(0 .. 255) /\ Len((u \o v) \o w) = Len(u \o v) + Len(w)
    BY <2>2, <2>3, Joined, ZenonT(90)
  <2>5. /\ ((u \o v) \o w) \o z \in Seq(0 .. 255)
        /\ Len(((u \o v) \o w) \o z) = Len((u \o v) \o w) + Len(z)
    BY <2>2, <2>4, Joined
  <2>6. Len(((u \o v) \o w) \o z) = 10
    BY <2>2, <2>3, <2>4, <2>5
  <2> QED BY <2>1, <2>5, <2>6, Zenon
<1>8. c \in Seq(0 .. 255) /\ Len(c) <= 64
  <2>1. c \in {<<>>, <<50>>, <<51>>, <<49>>, <<48, 123>>, <<52, 9>>, Codec!EncodeConnect, Codec!EncodeJoin(<<7>>)}
    BY DEF Codec!Controls
  <2>2. CASE c \in {<<>>, <<50>>, <<51>>, <<49>>, <<48, 123>>, <<52, 9>>}
    <3>1. 0 <= 64 /\ 1 <= 64 /\ 2 <= 64
      OBVIOUS
    <3> QED BY <1>1, <1>3, <2>2, <3>1, Zenon
  <2>3. CASE c = Codec!EncodeConnect
    <3>1. 5 <= 64
      OBVIOUS
    <3> QED BY <1>6, <2>3, <3>1, Zenon
  <2>4. CASE c = Codec!EncodeJoin(<<7>>)
    <3>1. 10 <= 64
      OBVIOUS
    <3> QED BY <1>7, <2>4, <3>1, Zenon
  <2> QED BY <2>1, <2>2, <2>3, <2>4, Zenon
<1> QED BY <1>2, <1>8

Messages == Codec!Rounds \cup Codec!Progresses \cup [name : {"control"}, bytes : Codec!Controls]
Packet(m) == IF m.name = "control" THEN m.bytes ELSE Codec!Encoded(m)

\* buf is the start of a frame, and not all of it.
Unfinished(buf, f) == buf \in Seq(Nat) /\ Len(buf) < Len(f) /\ \A i \in 1 .. Len(buf) : buf[i] = f[i]

(* On each level the wire holds the packet of the message, the start of it *)
(* once the packet was cut, or the start of its frame once that was.       *)
PacketInv ==
    stage \in {"packet", "received"} /\ cut # "frame" =>
        Prefix(bytes, Packet(message)) /\ (cut = "no" => bytes = Packet(message))
FrameInv ==
    stage = "frame" =>
        \E p \in Seq(0 .. 255), masked \in BOOLEAN :
            /\ Prefix(p, Packet(message)) /\ (cut # "packet" => p = Packet(message))
            /\ cut # "frame" => bytes = Codec!EncodeFrame(p, masked)
            /\ cut = "frame" => Unfinished(bytes, Codec!EncodeFrame(p, masked))
CodecInv ==
    /\ stage \in {"idle", "packet", "frame", "received"} /\ cut \in {"no", "packet", "frame"}
    /\ stage # "idle" => message \in Messages
    /\ stage = "idle" => cut = "no"
    /\ stage = "packet" => cut # "frame"
    /\ stage = "received" /\ cut = "frame" => bytes = <<>>
    /\ PacketInv /\ FrameInv

\* Every packet that is sent fits into a frame.
LEMMA PacketCarried == ASSUME NEW m \in Messages PROVE Carried(Packet(m))
<1>1. CASE m \in Codec!Rounds
  <2>1. m.name # "control"
    BY <1>1, RoundFits DEF Names, Codec!RoundNames
  <2> QED BY <1>1, <2>1, RoundCarried DEF Packet
<1>2. CASE m \in Codec!Progresses
  <2>1. m.name # "control"
    BY <1>2, ProgressFits
  <2> QED BY <1>2, <2>1, ProgressCarried DEF Packet
<1>3. CASE m \in [name : {"control"}, bytes : Codec!Controls]
  <2>1. m.name = "control" /\ m.bytes \in Codec!Controls
    BY <1>3
  <2> QED BY <2>1, ControlCarried DEF Packet
<1> QED BY <1>1, <1>2, <1>3 DEF Messages

\* Starts of a packet: all of it, and what a cut leaves of it.
LEMMA StartOf ==
    ASSUME NEW q \in Seq(0 .. 255)
    PROVE  /\ Prefix(q, q)
           /\ Carried(q) => \A p : Prefix(p, q) => Carried(p)
           /\ \A p, k : /\ k \in Nat /\ k < Len(q) /\ p = SubSeq(q, 1, k) => Prefix(p, q)
<1>1. Len(q) \in Nat
  OBVIOUS
<1>2. Prefix(q, q)
  BY <1>1 DEF Prefix
<1>3. ASSUME Carried(q), NEW p, Prefix(p, q) PROVE Carried(p)
  <2>1. p \in Seq(0 .. 255) /\ Len(p) <= Len(q)
    BY <1>3 DEF Prefix
  <2>2. Len(p) \in Nat
    BY <2>1
  <2>3. \A l \in 0 .. Len(p) : l \in 0 .. Len(q)
    BY <1>1, <2>1, <2>2
  <2> QED BY <1>3, <2>1, <2>3 DEF Carried
<1>4. ASSUME NEW k \in Nat, k < Len(q) PROVE Prefix(SubSeq(q, 1, k), q)
  <2> DEFINE p == SubSeq(q, 1, k)
  <2>1. 1 \in Nat \ {0} /\ 1 <= k + 1 /\ k <= Len(q) /\ k - 1 + 1 = k
    BY <1>1, <1>4
  <2>2. /\ p \in Seq(0 .. 255) /\ Len(p) = k - 1 + 1
        /\ \A i \in 1 .. k - 1 + 1 : p[i] = q[1 + i - 1]
    BY <1>4, <2>1, Slice, ZenonT(60)
  <2> HIDE DEF p
  <2>3. \A i \in 1 .. k : p[i] = q[i]
    <3> TAKE i \in 1 .. k
    <3>1. 1 + i - 1 = i
      OBVIOUS
    <3> QED BY <2>1, <2>2, <3>1
  <2>4. Prefix(p, q)
    BY <2>1, <2>2, <2>3 DEF Prefix
  <2> QED BY <2>4 DEF p
<1> QED BY <1>2, <1>3, <1>4, Zenon

\* A frame is a sequence of numbers, and a part of one a start of it.
LEMMA FrameOf ==
    ASSUME NEW p, Carried(p), NEW masked \in BOOLEAN
    PROVE  LET f == Codec!EncodeFrame(p, masked) IN
           /\ f \in Seq(Nat)
           /\ Codec!DecodeFrame(f) = [found |-> TRUE, payload |-> p]
           /\ \A buf : Unfinished(buf, f) => Codec!DecodeFrame(buf) = [found |-> FALSE]
<1> DEFINE f == Codec!EncodeFrame(p, masked)
           h == LengthField(Len(p), FlagOf(masked))
<1>1. p \in Seq(0 .. 255) /\ Len(p) \in Nat /\ Codec!Shifted(Len(p), LenRadix)[8] = 0
  <2>1. p \in Seq(0 .. 255) /\ Len(p) \in Nat
    BY DEF Carried
  <2>2. Len(p) \in 0 .. Len(p)
    BY <2>1
  <2> QED BY <2>1, <2>2 DEF Carried
<1>2. FlagOf(masked) \in {0, 128}
  BY DEF FlagOf
<1>3. h \in Seq(Nat)
  <2> DEFINE l == Len(p)
             flag == FlagOf(masked)
  <2>1. l \in Nat /\ Codec!Shifted(l, LenRadix)[8] = 0 /\ flag \in {0, 128}
    BY <1>1, <1>2
  <2> HIDE DEF l, flag
  <2>2. \E short \in 0 .. 127 :
             LET g == LengthField(l, flag)
                 wide == WideOf(short)
             IN  /\ g \in Seq(Nat) /\ Len(g) = 1 + wide /\ g[1] = short + flag
                 /\ wide = 0 => short = l
                 /\ wide # 0 => Codec!Shifted(l, LenRadix)[wide] = 0
                 /\ \A i \in 1 .. wide : g[1 + i] = Codec!Shifted(l, LenRadix)[wide - i] % LenRadix
    BY <2>1, LengthOf, ZenonT(90)
  <2> QED BY <2>2, Zenon DEF l, flag
<1>4. f \in Seq(Nat)
  <2>1. h = LengthField(Len(p), FlagOf(masked))
    OBVIOUS
  <2> HIDE DEF h
  <2> QED BY <1>1, <1>3, <2>1, FrameBytes
<1> HIDE DEF h
<1>5. Len(f) \in Nat /\ Len(f) <= Len(f)
  <2> HIDE DEF f
  <2> QED BY <1>4
<1>6. Codec!DecodeFrame(f) = [found |-> TRUE, payload |-> p]
  BY <1>1, <1>4, <1>5, FrameDecoded, Zenon
<1>7. ASSUME NEW buf, Unfinished(buf, f) PROVE Codec!DecodeFrame(buf) = [found |-> FALSE]
  <2>1. buf \in Seq(Nat) /\ Len(buf) < Len(f) /\ \A i \in 1 .. Len(buf) : buf[i] = f[i]
    BY <1>7 DEF Unfinished
  <2>2. Len(buf) <= Len(f)
    <3> HIDE DEF f
    <3>1. Len(buf) \in Nat
      BY <2>1
    <3> QED BY <1>5, <2>1, <3>1
  <2> QED BY <1>1, <2>1, <2>2, FrameDecoded, Zenon
<1> QED BY <1>4, <1>6, <1>7

\* What a cut leaves of a frame is unfinished.
LEMMA UnfinishedOf ==
    ASSUME NEW f \in Seq(Nat), NEW k \in Nat, k < Len(f) PROVE Unfinished(SubSeq(f, 1, k), f)
<1> DEFINE p == SubSeq(f, 1, k)
<1>0. Len(f) \in Nat
  OBVIOUS
<1>1. 1 \in Nat \ {0} /\ 1 <= k + 1 /\ k <= Len(f) /\ k - 1 + 1 = k
  BY <1>0
<1>2. /\ p \in Seq(Nat) /\ Len(p) = k - 1 + 1
      /\ \A i \in 1 .. k - 1 + 1 : p[i] = f[1 + i - 1]
  BY <1>1, SliceNat
<1> HIDE DEF p
<1>3. \A i \in 1 .. k : p[i] = f[i]
  <2> TAKE i \in 1 .. k
  <2>1. 1 + i - 1 = i
    OBVIOUS
  <2> QED BY <1>1, <1>2, <2>1
<1>4. Unfinished(p, f)
  BY <1>1, <1>2, <1>3 DEF Unfinished
<1> QED BY <1>4 DEF p

\* The codec starts in its invariant, with nothing on the wire.
LEMMA CodecStarts == Codec!Init => CodecInv
<1> SUFFICES ASSUME Codec!Init PROVE CodecInv
  OBVIOUS
<1>1. stage = "idle" /\ cut = "no"
  BY DEF Codec!Init
<1> QED BY <1>1 DEF CodecInv, PacketInv, FrameInv

\* A packet that is put on the wire.
LEMMA CodecSends ==
    ASSUME CodecInv, NEW m \in Messages, stage = "idle", stage' = "packet", message' = m, bytes' = Packet(m),
           UNCHANGED cut
    PROVE  CodecInv'
<1>1. cut' = "no" /\ stage' = "packet" /\ message' \in Messages /\ bytes' = Packet(message')
  BY DEF CodecInv
<1>2. Packet(m) \in Seq(0 .. 255)
  BY PacketCarried DEF Carried
<1>3. Prefix(Packet(m), Packet(m))
  BY <1>2, StartOf
<1>4. PacketInv'
  BY <1>1, <1>3 DEF PacketInv
<1>5. FrameInv'
  BY <1>1 DEF FrameInv
<1> QED BY <1>1, <1>4, <1>5 DEF CodecInv

\* Wrapping a packet, or what a cut left of it, keeps the invariant.
LEMMA CodecWraps ==
    ASSUME CodecInv, NEW masked \in BOOLEAN, Codec!Wrap(masked) PROVE CodecInv'
<1>1. /\ stage = "packet" /\ stage' = "frame" /\ bytes' = Codec!EncodeFrame(bytes, masked)
      /\ message' = message /\ cut' = cut
  BY DEF Codec!Wrap
<1>2. cut \in {"no", "packet"} /\ message \in Messages
  BY <1>1 DEF CodecInv
<1>3. Prefix(bytes, Packet(message)) /\ (cut = "no" => bytes = Packet(message))
  BY <1>1, <1>2 DEF CodecInv, PacketInv
<1>4. bytes \in Seq(0 .. 255)
  BY <1>3 DEF Prefix
<1>5. FrameInv'
  <2>1. /\ Prefix(bytes, Packet(message')) /\ (cut' # "packet" => bytes = Packet(message'))
        /\ cut' # "frame" => bytes' = Codec!EncodeFrame(bytes, masked)
        /\ cut' = "frame" => Unfinished(bytes', Codec!EncodeFrame(bytes, masked))
    BY <1>1, <1>2, <1>3
  <2> QED BY <1>4, <2>1, Zenon DEF FrameInv
<1>6. PacketInv'
  BY <1>1 DEF PacketInv
<1> QED BY <1>1, <1>2, <1>5, <1>6 DEF CodecInv

\* A cut of a packet or of a frame keeps the invariant.
LEMMA CodecCuts ==
    ASSUME CodecInv, NEW k \in 0 .. Len(bytes) - 1, Codec!Cut(k) PROVE CodecInv'
<1>1. /\ stage \in {"packet", "frame"} /\ cut = "no" /\ k < Len(bytes) /\ k \in Nat
      /\ bytes' = SubSeq(bytes, 1, k) /\ cut' = stage /\ stage' = stage /\ message' = message
  BY DEF Codec!Cut
<1>2. message \in Messages
  BY <1>1 DEF CodecInv
<1>3. Packet(message) \in Seq(0 .. 255) /\ Carried(Packet(message))
  BY <1>2, PacketCarried DEF Carried
<1>4. CASE stage = "packet"
  <2>1. bytes = Packet(message)
    BY <1>1, <1>4 DEF CodecInv, PacketInv
  <2>2. Prefix(bytes', Packet(message))
    BY <1>1, <1>3, <2>1, StartOf, Zenon
  <2>3. PacketInv' /\ FrameInv'
    BY <1>1, <1>4, <2>2 DEF PacketInv, FrameInv
  <2> QED BY <1>1, <1>2, <1>4, <2>3 DEF CodecInv
<1>5. CASE stage = "frame"
  <2>1. PICK masked \in BOOLEAN : bytes = Codec!EncodeFrame(Packet(message), masked)
    BY <1>1, <1>5 DEF CodecInv, FrameInv
  <2> DEFINE p == Packet(message)
             f == Codec!EncodeFrame(p, masked)
  <2>2. f \in Seq(Nat)
    BY <1>3, FrameOf
  <2>3. Unfinished(bytes', f)
    <3>1. bytes = f
      BY <2>1
    <3> HIDE DEF f
    <3> QED BY <1>1, <2>2, <3>1, UnfinishedOf
  <2>4. FrameInv'
    <3>1. Prefix(p, p)
      BY <1>3, StartOf
    <3>2. /\ Prefix(p, Packet(message')) /\ (cut' # "packet" => p = Packet(message'))
          /\ cut' # "frame" => bytes' = Codec!EncodeFrame(p, masked)
          /\ cut' = "frame" => Unfinished(bytes', Codec!EncodeFrame(p, masked))
      BY <1>1, <1>5, <2>3, <3>1
    <3> QED BY <1>3, <3>2, Zenon DEF FrameInv
  <2>5. PacketInv'
    BY <1>1, <1>5 DEF PacketInv
  <2> QED BY <1>1, <1>2, <1>5, <2>4, <2>5 DEF CodecInv
<1> QED BY <1>1, <1>4, <1>5

\* Unwrapping gives the packet back, or nothing of a frame that is unfinished.
LEMMA CodecReceives == ASSUME CodecInv, Codec!Receive PROVE CodecInv'
<1>1. /\ stage = "frame" /\ stage' = "received" /\ message' = message /\ cut' = cut
      /\ bytes' = IF Codec!DecodeFrame(bytes).found THEN Codec!DecodeFrame(bytes).payload ELSE <<>>
  BY DEF Codec!Receive
<1>2. message \in Messages /\ cut \in {"no", "packet", "frame"}
  BY <1>1 DEF CodecInv
<1>3. Packet(message) \in Seq(0 .. 255) /\ Carried(Packet(message))
  BY <1>2, PacketCarried DEF Carried
<1>4. PICK p \in Seq(0 .. 255), masked \in BOOLEAN :
            /\ Prefix(p, Packet(message)) /\ (cut # "packet" => p = Packet(message))
            /\ cut # "frame" => bytes = Codec!EncodeFrame(p, masked)
            /\ cut = "frame" => Unfinished(bytes, Codec!EncodeFrame(p, masked))
  BY <1>1 DEF CodecInv, FrameInv
<1>5. Carried(p)
  BY <1>3, <1>4, StartOf
<1>6. /\ Codec!DecodeFrame(Codec!EncodeFrame(p, masked)) = [found |-> TRUE, payload |-> p]
      /\ Unfinished(bytes, Codec!EncodeFrame(p, masked)) => Codec!DecodeFrame(bytes) = [found |-> FALSE]
  BY <1>5, FrameOf
<1>7. CASE cut # "frame"
  <2>1. Codec!DecodeFrame(bytes).found = TRUE /\ Codec!DecodeFrame(bytes).payload = p
    BY <1>4, <1>6, <1>7
  <2>2. bytes' = p
    BY <1>1, <2>1
  <2>3. PacketInv' /\ FrameInv'
    BY <1>1, <1>4, <1>7, <2>2 DEF PacketInv, FrameInv
  <2> QED BY <1>1, <1>2, <1>7, <2>3 DEF CodecInv
<1>8. CASE cut = "frame"
  <2>1. Codec!DecodeFrame(bytes).found = FALSE
    BY <1>4, <1>6, <1>8
  <2>2. bytes' = <<>>
    BY <1>1, <2>1
  <2>3. PacketInv' /\ FrameInv'
    BY <1>1, <1>8 DEF PacketInv, FrameInv
  <2> QED BY <1>1, <1>2, <1>8, <2>2, <2>3 DEF CodecInv
<1> QED BY <1>7, <1>8

\* Each step of the codec keeps the invariant.
LEMMA CodecStep == CodecInv /\ [Codec!Next]_Codec!vars => CodecInv'
<1> SUFFICES ASSUME CodecInv, [Codec!Next]_Codec!vars PROVE CodecInv'
  OBVIOUS
<1>1. ASSUME NEW m \in Codec!Rounds \cup Codec!Progresses, Codec!Send(m) PROVE CodecInv'
  <2>1. m.name # "control"
    BY RoundFits, ProgressFits DEF Names, Codec!RoundNames
  <2>2. m \in Messages /\ Packet(m) = Codec!Encoded(m)
    BY <2>1 DEF Messages, Packet
  <2> QED BY <1>1, <2>2, CodecSends DEF Codec!Send
<1>2. ASSUME NEW c \in Codec!Controls, Codec!SendControl(c) PROVE CodecInv'
  <2> DEFINE m == [name |-> "control", bytes |-> c]
  <2>1. m \in Messages /\ Packet(m) = c
    BY DEF Messages, Packet
  <2>2. stage = "idle" /\ stage' = "packet" /\ message' = m /\ bytes' = c /\ UNCHANGED cut
    BY <1>2 DEF Codec!SendControl
  <2> HIDE DEF m
  <2> QED BY <2>1, <2>2, CodecSends
<1>3. ASSUME NEW masked \in BOOLEAN, Codec!Wrap(masked) PROVE CodecInv'
  BY <1>3, CodecWraps
<1>4. ASSUME NEW k \in 0 .. Len(bytes) - 1, Codec!Cut(k) PROVE CodecInv'
  BY <1>4, CodecCuts
<1>5. CASE Codec!Receive
  BY <1>5, CodecReceives
<1>6. CASE Codec!Again
  <2>1. stage' = "idle" /\ cut' = "no"
    BY <1>6 DEF Codec!Again
  <2> QED BY <2>1 DEF CodecInv, PacketInv, FrameInv
<1>7. CASE UNCHANGED Codec!vars
  <2>1. stage' = stage /\ message' = message /\ bytes' = bytes /\ cut' = cut
    BY <1>7 DEF Codec!vars
  <2> QED BY <2>1 DEF CodecInv, PacketInv, FrameInv
<1> QED BY <1>1, <1>2, <1>3, <1>4, <1>5, <1>6, <1>7 DEF Codec!Next

\* What the wire holds in the end is understood.
LEMMA CodecImplies == CodecInv => Understood
<1> SUFFICES ASSUME CodecInv PROVE Understood
  OBVIOUS
<1>1. ASSUME stage = "received", cut # "frame", message.name # "control"
      PROVE  /\ CutSound(Codec!DecodeBinary(bytes), Codec!Expected(message))
             /\ cut = "no" => (Codec!DecodeBinary(bytes) = Codec!Expected(message)
                    <=> IF message.name = "pg" THEN Codec!Readable(message.elapsed)
                        ELSE Codec!Readable(message.id) /\ Codec!Readable(message.mult))
  <2>1. message \in Messages /\ Packet(message) = Codec!Encoded(message)
    BY <1>1 DEF CodecInv, Packet
  <2>2. Prefix(bytes, Codec!Encoded(message)) /\ (cut = "no" => bytes = Codec!Encoded(message))
    BY <1>1, <2>1 DEF CodecInv, PacketInv
  <2>3. message \in Codec!Rounds \/ message \in Codec!Progresses
    <3>1. message \notin [name : {"control"}, bytes : Codec!Controls]
      BY <1>1
    <3> QED BY <2>1, <3>1 DEF Messages
  <2>4. CASE message \in Codec!Rounds
    <3>1. message.name # "pg"
      BY <2>4, RoundFits
    <3>2. /\ CutSound(Codec!DecodeBinary(bytes), Codec!Expected(message))
          /\ bytes = Codec!Encoded(message) =>
                (Codec!DecodeBinary(bytes) = Codec!Expected(message)
                    <=> Codec!Readable(message.id) /\ Codec!Readable(message.mult))
      BY <2>2, <2>4, RoundDecoded
    <3> QED BY <2>2, <3>1, <3>2, Zenon
  <2>5. CASE message \in Codec!Progresses
    <3>1. message.name = "pg"
      BY <2>5, ProgressFits
    <3>2. /\ CutSound(Codec!DecodeBinary(bytes), Codec!Expected(message))
          /\ bytes = Codec!Encoded(message) =>
                (Codec!DecodeBinary(bytes) = Codec!Expected(message) <=> Codec!Readable(message.elapsed))
      BY <2>2, <2>5, ProgressDecoded
    <3> QED BY <2>2, <3>1, <3>2, Zenon
  <2> QED BY <2>3, <2>4, <2>5
<1>2. stage = "received" => bytes \in Seq(Nat)
  <2> SUFFICES ASSUME stage = "received" PROVE bytes \in Seq(Nat)
    OBVIOUS
  <2>1. CASE cut = "frame"
    BY <2>1 DEF CodecInv
  <2>2. CASE cut # "frame"
    <3>1. bytes \in Seq(0 .. 255)
      BY <2>2 DEF CodecInv, PacketInv, Prefix
    <3> QED BY <3>1, BytesNat
  <2> QED BY <2>1, <2>2
<1>3. Codec!WholeIsUnderstood
  BY <1>1 DEF Codec!WholeIsUnderstood, Codec!Arrived
<1>4. Codec!CutFrameWaits
  BY DEF Codec!CutFrameWaits, Codec!Arrived, CodecInv
<1>5. Codec!CutPacketKeepsFields
  BY <1>1 DEF Codec!CutPacketKeepsFields, Codec!Arrived, CutSound
<1>6. Codec!ParsersAgree
  BY <1>2, Agreement DEF Codec!ParsersAgree, Codec!Arrived
<1> QED BY <1>3, <1>4, <1>5, <1>6 DEF Understood, Codec!Understood

(* What arrives is understood as it was sent, or not at all, and by all    *)
(* parsers alike: a whole message of any number of at most Groups groups   *)
(* and any hash is decoded to itself, a frame that ended early waits, a    *)
(* packet that ended early carries no wrong number                         *)
(* (socketio_protocol.hpp:62-165, ws_frame.hpp:21-79).                     *)
THEOREM CodecUnderstood == Codec!Spec => []Understood
<1>1. Codec!Init => CodecInv
  BY CodecStarts
<1>2. CodecInv /\ [Codec!Next]_Codec!vars => CodecInv'
  BY CodecStep
<1>3. CodecInv => Understood
  BY CodecImplies
<1> QED BY <1>1, <1>2, <1>3, PTL DEF Codec!Spec
=============================================================================
