--------------------- MODULE PredictionLifecycleProofs ----------------------
(***************************************************************************)
(* Proofs about PredictionLifecycle, for any set of predictions, any       *)
(* number of poll threads and any capacities.                              *)
(***************************************************************************)
EXTENDS PredictionLifecycle, TLAPS, FiniteSetTheorems

LEMMA RangeAppend ==
    ASSUME NEW S, NEW s \in Seq(S), NEW x \in S
    PROVE  Range(Append(s, x)) = Range(s) \cup {x}
  <1>1. ASSUME NEW y \in Range(Append(s, x)) PROVE y \in Range(s) \cup {x}
    <2>1. PICK i \in 1..(Len(s) + 1) : y = Append(s, x)[i]
      BY <1>1 DEF Range
    <2>2. CASE i = Len(s) + 1
      BY <2>1, <2>2
    <2>3. CASE i \in 1..Len(s)
      BY <2>1, <2>3 DEF Range
    <2> QED BY <2>2, <2>3
  <1>2. ASSUME NEW y \in Range(s) PROVE y \in Range(Append(s, x))
    <2>1. PICK i \in 1..Len(s) : y = s[i]
      BY <1>2 DEF Range
    <2>2. Append(s, x)[i] = y /\ i \in DOMAIN Append(s, x)
      BY <2>1
    <2> QED BY <2>2 DEF Range
  <1>3. x \in Range(Append(s, x))
    <2>1. Append(s, x)[Len(s) + 1] = x /\ Len(s) + 1 \in DOMAIN Append(s, x)
      OBVIOUS
    <2> QED BY <2>1 DEF Range
  <1> QED BY <1>1, <1>2, <1>3

LEMMA RangeTail ==
    ASSUME NEW S, NEW s \in Seq(S), s # <<>>
    PROVE  Range(Tail(s)) \subseteq Range(s)
  <1> SUFFICES ASSUME NEW y \in Range(Tail(s)) PROVE y \in Range(s)
    OBVIOUS
  <1>1. PICK i \in DOMAIN Tail(s) : y = Tail(s)[i]
    BY DEF Range
  <1>2. y = s[i + 1] /\ i + 1 \in DOMAIN s
    BY <1>1
  <1> QED BY <1>2 DEF Range

LEMMA SettledIsRound ==
    ASSUME resolved \in Seq(Rounds), NEW r, AlreadySettled(r)
    PROVE  r \in Rounds /\ r # 0
  <1>1. PICK i \in DOMAIN resolved : r = resolved[i]
    BY DEF AlreadySettled, Range
  <1>2. r \in Rounds
    BY <1>1
  <1> QED BY <1>2 DEF Rounds

\* What onGameEnd remembers after the End of a round it did not know.
LEMMA ResolvedGrows ==
    ASSUME NEW S, NEW old \in Seq(S), NEW r \in S,
           Len(old) <= ResolvedCap,
           NEW new,
           new = IF Len(old) < ResolvedCap THEN Append(old, r) ELSE Append(Tail(old), r)
    PROVE  /\ new \in Seq(S)
           /\ Len(new) <= ResolvedCap
           /\ r \in Range(new)
           /\ Range(new) \subseteq Range(old) \cup {r}
           /\ Len(old) < ResolvedCap => Range(old) \subseteq Range(new)
  <1>0. Len(old) \in Nat /\ ResolvedCap \in Nat /\ ResolvedCap > 0
    BY BoundAssumption
  <1>1. CASE Len(old) < ResolvedCap
    <2>1. new = Append(old, r) /\ new \in Seq(S) /\ Len(new) = Len(old) + 1
      BY <1>1
    <2>2. Range(new) = Range(old) \cup {r}
      BY <2>1, RangeAppend
    <2> QED BY <1>0, <1>1, <2>1, <2>2
  <1>2. CASE ~(Len(old) < ResolvedCap)
    <2>1. old # <<>> /\ Tail(old) \in Seq(S) /\ Len(Tail(old)) = Len(old) - 1
      BY <1>0, <1>2
    <2>2. Range(Tail(old)) \subseteq Range(old)
      BY <2>1, RangeTail
    <2>3. new = Append(Tail(old), r) /\ new \in Seq(S) /\ Len(new) = Len(old)
      BY <1>0, <1>2, <2>1
    <2>4. Range(new) = Range(Tail(old)) \cup {r}
      <3> DEFINE rest == Tail(old)
      <3>1. rest \in Seq(S) /\ new = Append(rest, r)
        BY <2>1, <2>3
      <3> HIDE DEF rest
      <3>2. Range(Append(rest, r)) = Range(rest) \cup {r}
        BY <3>1, RangeAppend
      <3> QED BY <3>1, <3>2 DEF rest
    <2> QED BY <1>2, <2>2, <2>3, <2>4
  <1> QED BY <1>1, <1>2

-----------------------------------------------------------------------------

LEMMA InitIInv == Init => IInv
  <1> SUFFICES ASSUME Init PROVE IInv
    OBVIOUS
  <1> USE DEF Init
  <1>1. RouterTypeOK
    BY BoundAssumption DEF RouterTypeOK
  <1>1a. SettlingTypeOK
    <2>1. evicted \in BOOLEAN /\ forgot \in BOOLEAN
      BY Zenon
    <2> QED BY <2>1, BoundAssumption DEF SettlingTypeOK
  <1>2. PredictionTypeOK /\ ThreadTypeOK /\ SignalTypeOK
    BY BoundAssumption DEF PredictionTypeOK, ThreadTypeOK, SignalTypeOK, Steps, Responses
  <1>3. ResponsesMade
    BY ResponseAssumption DEF ResponsesMade
  <1>4. TakenIsSettled /\ NoneLeftBehind
    BY DEF TakenIsSettled, Taking, NoneLeftBehind, Threads
  <1>5. MatchedIsSettled /\ AppliedIsMatched /\ AppliedIsRemembered
    BY DEF MatchedIsSettled, AppliedIsMatched, AppliedIsRemembered
  <1> QED BY <1>1, <1>1a, <1>2, <1>3, <1>4, <1>5 DEF IInv, TypeOK

\* The correlation id of a thread inside onRoundEnd.
LEMMA CorrelationType ==
    ASSUME TypeOK, NEW t \in Threads, pc[t] \notin {"boot", "idle"}
    PROVE  /\ at[t] + 1 \in Targets
           /\ \A s \in Stamps : <<at[t] + 1, s>> \in Targets \X Stamps
  <1>1. at[t] \in Rounds
    BY DEF TypeOK, ThreadTypeOK
  <1>2. at[t] + 1 \in Targets
    BY <1>1, BoundAssumption DEF Rounds, Targets
  <1> QED BY <1>2

\* Registering a prediction adds nothing else.
LEMMA EnterAdds ==
    ASSUME NEW p, Enter(p)
    PROVE  /\ registry' \subseteq registry \cup {p}
           /\ late' \subseteq late \cup {p}
  BY DEF Enter

\* A thread past the decision to enter works on a prediction that was made.
LEMMA WorkedOnIsMade ==
    ASSUME TypeOK, ResponsesMade, NEW t \in Threads,
           pc[t] \in {"register", "persist", "publish", "again", "handoff"}
    PROVE  resp[t] \in Predictions /\ target[resp[t]] # 0
  BY DEF TypeOK, ThreadTypeOK, ResponsesMade, Responses

\* The response a thread fetches is a response, and was made.
LEMMA FetchedIsMade ==
    ASSUME TypeOK, ResponsesMade, NEW t \in Threads, pc[t] = "fetch",
           NEW id, id = <<at[t] + 1, stamp[t]>>,
           NEW answer, answer = IF pending[id] = Absent THEN last ELSE pending[id]
    PROVE  /\ id \in Targets \X Stamps
           /\ answer \in Responses
           /\ answer # Skip => target[answer] # 0
  <1>1. stamp[t] \in Stamps
    BY DEF TypeOK, ThreadTypeOK, ResponsesMade
  <1>2. id \in Targets \X Stamps
    BY <1>1, CorrelationType
  <1>3. pending[id] \in Responses \cup {Absent} /\ last \in Responses
    BY <1>2 DEF TypeOK, PredictionTypeOK
  <1>4. answer \in Responses
    BY <1>3
  <1>5. ASSUME answer # Skip PROVE target[answer] # 0
    BY <1>2, <1>3, <1>5 DEF ResponsesMade, Responses
  <1> QED BY <1>2, <1>4, <1>5

LEMMA RouterTypeStep == TypeOK /\ [Next]_vars => RouterTypeOK'
  <1> SUFFICES ASSUME TypeOK, [Next]_vars PROVE RouterTypeOK'
    OBVIOUS
  <1> USE BoundAssumption
      DEF TypeOK, RouterTypeOK, router, client, thread, settling, database, outbox
  <1>1. CASE InstallHandlers
    BY <1>1 DEF InstallHandlers
  <1>2. CASE EndRound
    BY <1>2 DEF EndRound
  <1>3. ASSUME NEW r \in Rounds, SocketEnd(r) PROVE RouterTypeOK'
    BY <1>3 DEF SocketEnd, Route
  <1>4. ASSUME NEW r \in Rounds, EvictKey(r) PROVE RouterTypeOK'
    BY <1>4 DEF EvictKey
  <1>5. CASE PopValidation
    BY <1>5 DEF PopValidation, RememberRound
  <1>6. CASE MatchRound
    BY <1>6 DEF MatchRound, Taken, Outstanding
  <1>7. ASSUME NEW p \in Predictions, SettleOutcome(p) PROVE RouterTypeOK'
    BY <1>7 DEF SettleOutcome, ApplyFeedback, Accept, Refuse
  <1>8. ASSUME NEW t \in Threads, NEW s \in Stamps, Submit(t, s) PROVE RouterTypeOK'
    BY <1>8 DEF Submit
  <1>9. ASSUME NEW t \in Threads, Register(t) PROVE RouterTypeOK'
    BY <1>9 DEF Register, Enter
  <1>10. ASSUME NEW t \in Threads, PersistPrediction(t) PROVE RouterTypeOK'
    BY <1>10 DEF PersistPrediction
  <1>11. ASSUME NEW t \in Threads, PersistFails(t) PROVE RouterTypeOK'
    BY <1>11 DEF PersistFails
  <1>12. ASSUME NEW t \in Threads, Publish(t) PROVE RouterTypeOK'
    BY <1>12 DEF Publish, Accept, Refuse
  <1>13. ASSUME NEW t \in Threads, FetchResponse(t) PROVE RouterTypeOK'
    BY <1>13 DEF FetchResponse, Return
  <1>14. ASSUME NEW t \in Threads, RegisterAgain(t) PROVE RouterTypeOK'
    BY <1>14 DEF RegisterAgain, Enter, Return
  <1>15. ASSUME NEW t \in Threads, Handoff(t) PROVE RouterTypeOK'
    BY <1>15 DEF Handoff, Accept, Refuse, Return
  <1>16. ASSUME NEW t \in Threads, PollRoute(t) PROVE RouterTypeOK'
    BY <1>16, at[t] # 0 DEF PollRoute, Route, ThreadTypeOK
  <1>17. ASSUME NEW t \in Threads, NEW r \in Rounds, PollRound(t, r) PROVE RouterTypeOK'
    BY <1>17 DEF PollRound
  <1>18. ASSUME NEW p \in Predictions, ExpirePrediction(p) PROVE RouterTypeOK'
    BY <1>18 DEF ExpirePrediction
  <1>19. CASE UNCHANGED vars
    BY <1>19 DEF vars
  <1> QED
    BY <1>1, <1>2, <1>3, <1>4, <1>5, <1>6, <1>7, <1>8, <1>9, <1>10, <1>11, <1>12, <1>13,
       <1>14, <1>15, <1>16, <1>17, <1>18, <1>19
    DEF Next, OnGameEnd, OnRoundEnd

LEMMA SignalTypeStep == TypeOK /\ ResponsesMade /\ [Next]_vars => SignalTypeOK'
  <1> SUFFICES ASSUME TypeOK /\ ResponsesMade, [Next]_vars PROVE SignalTypeOK'
    OBVIOUS
  <1> USE BoundAssumption
      DEF TypeOK, SignalTypeOK, router, client, thread, settling, database, outbox
  <1>1. CASE InstallHandlers
    BY <1>1 DEF InstallHandlers
  <1>2. CASE EndRound
    BY <1>2 DEF EndRound
  <1>3. ASSUME NEW r \in Rounds, SocketEnd(r) PROVE SignalTypeOK'
    BY <1>3 DEF SocketEnd, Route
  <1>4. ASSUME NEW r \in Rounds, EvictKey(r) PROVE SignalTypeOK'
    BY <1>4 DEF EvictKey
  <1>5. CASE PopValidation
    BY <1>5 DEF PopValidation, RememberRound
  <1>6. CASE MatchRound
    BY <1>6 DEF MatchRound, Taken, Outstanding
  <1>7. ASSUME NEW p \in Predictions, SettleOutcome(p) PROVE SignalTypeOK'
    <2>1. <<p, "outcome">> \in Signals
      BY DEF Signals
    <2> QED BY <1>7, <2>1 DEF SettleOutcome, Accept, Refuse
  <1>8. ASSUME NEW t \in Threads, NEW s \in Stamps, Submit(t, s) PROVE SignalTypeOK'
    BY <1>8 DEF Submit
  <1>9. ASSUME NEW t \in Threads, Register(t) PROVE SignalTypeOK'
    BY <1>9 DEF Register, Enter
  <1>10. ASSUME NEW t \in Threads, PersistPrediction(t) PROVE SignalTypeOK'
    <2>1. <<resp[t], "prediction">> \in Signals
      BY <1>10 DEF PersistPrediction, Signals, ResponsesMade, ThreadTypeOK, Responses
    <2> QED BY <1>10, <2>1 DEF PersistPrediction
  <1>11. ASSUME NEW t \in Threads, PersistFails(t) PROVE SignalTypeOK'
    BY <1>11 DEF PersistFails
  <1>12. ASSUME NEW t \in Threads, Publish(t) PROVE SignalTypeOK'
    <2>1. <<resp[t], "prediction">> \in Signals
      BY <1>12 DEF Publish, Signals, ResponsesMade, ThreadTypeOK, Responses
    <2> QED BY <1>12, <2>1 DEF Publish, Accept, Refuse
  <1>13. ASSUME NEW t \in Threads, FetchResponse(t) PROVE SignalTypeOK'
    BY <1>13 DEF FetchResponse, Return
  <1>14. ASSUME NEW t \in Threads, RegisterAgain(t) PROVE SignalTypeOK'
    BY <1>14 DEF RegisterAgain, Enter, Return
  <1>15. ASSUME NEW t \in Threads, Handoff(t) PROVE SignalTypeOK'
    <2>1. <<resp[t], "prediction">> \in Signals
      BY <1>15 DEF Handoff, Signals, ResponsesMade, ThreadTypeOK, Responses
    <2> QED BY <1>15, <2>1 DEF Handoff, Accept, Refuse
  <1>16. ASSUME NEW t \in Threads, PollRoute(t) PROVE SignalTypeOK'
    BY <1>16 DEF PollRoute, Route
  <1>17. ASSUME NEW t \in Threads, NEW r \in Rounds, PollRound(t, r) PROVE SignalTypeOK'
    BY <1>17 DEF PollRound
  <1>18. ASSUME NEW p \in Predictions, ExpirePrediction(p) PROVE SignalTypeOK'
    BY <1>18 DEF ExpirePrediction
  <1>19. CASE UNCHANGED vars
    BY <1>19 DEF vars
  <1> QED
    BY <1>1, <1>2, <1>3, <1>4, <1>5, <1>6, <1>7, <1>8, <1>9, <1>10, <1>11, <1>12, <1>13,
       <1>14, <1>15, <1>16, <1>17, <1>18, <1>19
    DEF Next, OnGameEnd, OnRoundEnd

LEMMA SettlingTypeStep == TypeOK /\ [Next]_vars => SettlingTypeOK'
  <1> SUFFICES ASSUME TypeOK, [Next]_vars PROVE SettlingTypeOK'
    OBVIOUS
  <1> USE BoundAssumption
      DEF TypeOK, SettlingTypeOK, router, client, thread, settling, database, outbox
  <1>1. CASE InstallHandlers
    BY <1>1 DEF InstallHandlers
  <1>2. CASE EndRound
    BY <1>2 DEF EndRound
  <1>3. ASSUME NEW r \in Rounds, SocketEnd(r) PROVE SettlingTypeOK'
    BY <1>3 DEF SocketEnd, Route
  <1>4. ASSUME NEW r \in Rounds, EvictKey(r) PROVE SettlingTypeOK'
    BY <1>4 DEF EvictKey
  <1>5. CASE PopValidation
    <2>1. Head(queue) \in Rounds
      BY <1>5 DEF PopValidation, RememberRound, RouterTypeOK
    <2>2. resolved' \in Seq(Rounds) /\ Len(resolved') <= ResolvedCap
      <3>1. CASE AlreadySettled(Head(queue))
        BY <1>5, <3>1 DEF PopValidation, RememberRound
      <3>2. CASE ~AlreadySettled(Head(queue))
        BY <1>5, <3>2, <2>1, ResolvedGrows DEF PopValidation, RememberRound
      <3> QED BY <3>1, <3>2
    <2>3. evicted' \in BOOLEAN
      BY <1>5, Zenon DEF PopValidation, RememberRound
    <2> QED BY <1>5, <2>2, <2>3 DEF PopValidation, RememberRound
  <1>6. CASE MatchRound
    <2>1. Taken(at[Main]) \subseteq Predictions
      BY DEF Taken, Outstanding, PredictionTypeOK
    <2>2. \A p \in Predictions : matched[p] + (IF p \in Taken(at[Main]) THEN 1 ELSE 0) \in Nat
      OBVIOUS
    <2>3. matched' \in [Predictions -> Nat]
      BY <1>6, <2>2 DEF MatchRound
    <2> QED BY <1>6, <2>1, <2>3 DEF MatchRound
  <1>7. ASSUME NEW p \in Predictions, SettleOutcome(p) PROVE SettlingTypeOK'
    <2>1. forgot' \in BOOLEAN
      BY <1>7, Zenon DEF SettleOutcome, ApplyFeedback
    <2>2. feedback' \subseteq Predictions /\ applied' \in [Predictions -> Nat]
      BY <1>7 DEF SettleOutcome, ApplyFeedback
    <2> QED BY <1>7, <2>1, <2>2 DEF SettleOutcome
  <1>8. ASSUME NEW t \in Threads, NEW s \in Stamps, Submit(t, s) PROVE SettlingTypeOK'
    BY <1>8 DEF Submit
  <1>9. ASSUME NEW t \in Threads, Register(t) PROVE SettlingTypeOK'
    BY <1>9 DEF Register, Enter
  <1>10. ASSUME NEW t \in Threads, PersistPrediction(t) PROVE SettlingTypeOK'
    BY <1>10 DEF PersistPrediction
  <1>11. ASSUME NEW t \in Threads, PersistFails(t) PROVE SettlingTypeOK'
    BY <1>11 DEF PersistFails
  <1>12. ASSUME NEW t \in Threads, Publish(t) PROVE SettlingTypeOK'
    BY <1>12 DEF Publish, Accept, Refuse
  <1>13. ASSUME NEW t \in Threads, FetchResponse(t) PROVE SettlingTypeOK'
    BY <1>13 DEF FetchResponse, Return
  <1>14. ASSUME NEW t \in Threads, RegisterAgain(t) PROVE SettlingTypeOK'
    BY <1>14 DEF RegisterAgain, Enter, Return
  <1>15. ASSUME NEW t \in Threads, Handoff(t) PROVE SettlingTypeOK'
    BY <1>15 DEF Handoff, Accept, Refuse, Return
  <1>16. ASSUME NEW t \in Threads, PollRoute(t) PROVE SettlingTypeOK'
    BY <1>16 DEF PollRoute, Route
  <1>17. ASSUME NEW t \in Threads, NEW r \in Rounds, PollRound(t, r) PROVE SettlingTypeOK'
    BY <1>17 DEF PollRound
  <1>18. ASSUME NEW p \in Predictions, ExpirePrediction(p) PROVE SettlingTypeOK'
    BY <1>18 DEF ExpirePrediction
  <1>19. CASE UNCHANGED vars
    BY <1>19 DEF vars
  <1> QED
    BY <1>1, <1>2, <1>3, <1>4, <1>5, <1>6, <1>7, <1>8, <1>9, <1>10, <1>11, <1>12, <1>13,
       <1>14, <1>15, <1>16, <1>17, <1>18, <1>19
    DEF Next, OnGameEnd, OnRoundEnd

LEMMA ThreadTypeStep == TypeOK /\ ResponsesMade /\ [Next]_vars => ThreadTypeOK'
  <1> SUFFICES ASSUME TypeOK /\ ResponsesMade, [Next]_vars PROVE ThreadTypeOK'
    OBVIOUS
  <1> USE ResponseAssumption
      DEF TypeOK, ThreadTypeOK, Steps, Goto, Threads, Responses, router, client, thread, settling, database, outbox
  <1>1. CASE InstallHandlers
    BY <1>1 DEF InstallHandlers
  <1>2. CASE EndRound
    BY <1>2 DEF EndRound
  <1>3. ASSUME NEW r \in Rounds, SocketEnd(r) PROVE ThreadTypeOK'
    BY <1>3 DEF SocketEnd, Route
  <1>4. ASSUME NEW r \in Rounds, EvictKey(r) PROVE ThreadTypeOK'
    BY <1>4 DEF EvictKey
  <1>5. CASE PopValidation
    <2>0. Head(queue) \in Rounds
      BY <1>5 DEF PopValidation, RememberRound, RouterTypeOK
    <2>1. Head(queue) \in Rounds /\ Head(queue) # 0
      BY <2>0 DEF Rounds
    <2> QED BY <1>5, <2>1 DEF PopValidation, RememberRound
  <1>6. CASE MatchRound
    BY <1>6 DEF MatchRound, Taken, Outstanding
  <1>7. ASSUME NEW p \in Predictions, SettleOutcome(p) PROVE ThreadTypeOK'
    BY <1>7 DEF SettleOutcome, ApplyFeedback, Accept, Refuse
  <1>8. ASSUME NEW t \in Threads, NEW s \in Stamps, Submit(t, s) PROVE ThreadTypeOK'
    BY <1>8 DEF Submit
  <1>9. ASSUME NEW t \in Threads, Register(t) PROVE ThreadTypeOK'
    BY <1>9 DEF Register, Enter
  <1>10. ASSUME NEW t \in Threads, PersistPrediction(t) PROVE ThreadTypeOK'
    BY <1>10 DEF PersistPrediction
  <1>11. ASSUME NEW t \in Threads, PersistFails(t) PROVE ThreadTypeOK'
    BY <1>11 DEF PersistFails
  <1>12. ASSUME NEW t \in Threads, Publish(t) PROVE ThreadTypeOK'
    BY <1>12 DEF Publish, Accept, Refuse
  <1>13. ASSUME NEW t \in Threads, FetchResponse(t) PROVE ThreadTypeOK'
    <2> DEFINE id == <<at[t] + 1, stamp[t]>>
    <2> DEFINE answer == IF pending[id] = Absent THEN last ELSE pending[id]
    <2>3. answer \in Responses
      BY <1>13, FetchedIsMade DEF FetchResponse
    <2> HIDE DEF answer
    <2>4. CASE answer = Skip
      BY <1>13, <2>4 DEF FetchResponse, Return, answer
    <2>5. CASE answer # Skip
      BY <1>13, <2>3, <2>5 DEF FetchResponse, answer
    <2> QED BY <2>4, <2>5
  <1>14. ASSUME NEW t \in Threads, RegisterAgain(t) PROVE ThreadTypeOK'
    BY <1>14 DEF RegisterAgain, Enter, Return
  <1>15. ASSUME NEW t \in Threads, Handoff(t) PROVE ThreadTypeOK'
    BY <1>15 DEF Handoff, Accept, Refuse, Return
  <1>16. ASSUME NEW t \in Threads, PollRoute(t) PROVE ThreadTypeOK'
    BY <1>16 DEF PollRoute, Route
  <1>17. ASSUME NEW t \in Threads, NEW r \in Rounds, PollRound(t, r) PROVE ThreadTypeOK'
    BY <1>17 DEF PollRound
  <1>18. ASSUME NEW p \in Predictions, ExpirePrediction(p) PROVE ThreadTypeOK'
    BY <1>18 DEF ExpirePrediction
  <1>19. CASE UNCHANGED vars
    BY <1>19 DEF vars
  <1> QED
    BY <1>1, <1>2, <1>3, <1>4, <1>5, <1>6, <1>7, <1>8, <1>9, <1>10, <1>11, <1>12, <1>13,
       <1>14, <1>15, <1>16, <1>17, <1>18, <1>19
    DEF Next, OnGameEnd, OnRoundEnd

LEMMA PredictionTypeStep == TypeOK /\ ResponsesMade /\ [Next]_vars => PredictionTypeOK'
  <1> SUFFICES ASSUME TypeOK /\ ResponsesMade, [Next]_vars PROVE PredictionTypeOK'
    OBVIOUS
  <1> USE ResponseAssumption
      DEF TypeOK, PredictionTypeOK, Responses, router, client, thread, settling, database, outbox
  <1>1. CASE InstallHandlers
    BY <1>1 DEF InstallHandlers
  <1>2. CASE EndRound
    BY <1>2 DEF EndRound
  <1>3. ASSUME NEW r \in Rounds, SocketEnd(r) PROVE PredictionTypeOK'
    BY <1>3 DEF SocketEnd, Route
  <1>4. ASSUME NEW r \in Rounds, EvictKey(r) PROVE PredictionTypeOK'
    BY <1>4 DEF EvictKey
  <1>5. CASE PopValidation
    BY <1>5 DEF PopValidation, RememberRound
  <1>6. CASE MatchRound
    BY <1>6 DEF MatchRound, Taken, Outstanding
  <1>7. ASSUME NEW p \in Predictions, SettleOutcome(p) PROVE PredictionTypeOK'
    BY <1>7 DEF SettleOutcome, ApplyFeedback, Accept, Refuse
  <1>8. ASSUME NEW t \in Threads, NEW s \in Stamps, Submit(t, s) PROVE PredictionTypeOK'
    <2>1. at[t] + 1 \in Targets
      BY <1>8, CorrelationType DEF Submit
    <2>2. PICK answer \in {Skip} \cup {p \in Predictions : target[p] = 0} :
            /\ last' = answer
            /\ pending' = [pending EXCEPT ![<<at[t] + 1, s>>] = answer]
            /\ target' = [p \in Predictions |-> IF p = answer THEN at[t] + 1 ELSE target[p]]
      BY <1>8 DEF Submit
    <2> QED BY <1>8, <2>1, <2>2 DEF Submit
  <1>9. ASSUME NEW t \in Threads, Register(t) PROVE PredictionTypeOK'
    BY <1>9, EnterAdds, WorkedOnIsMade DEF Register
  <1>10. ASSUME NEW t \in Threads, PersistPrediction(t) PROVE PredictionTypeOK'
    BY <1>10 DEF PersistPrediction
  <1>11. ASSUME NEW t \in Threads, PersistFails(t) PROVE PredictionTypeOK'
    BY <1>11 DEF PersistFails
  <1>12. ASSUME NEW t \in Threads, Publish(t) PROVE PredictionTypeOK'
    BY <1>12 DEF Publish, Accept, Refuse
  <1>13. ASSUME NEW t \in Threads, FetchResponse(t) PROVE PredictionTypeOK'
    BY <1>13 DEF FetchResponse, Return
  <1>14. ASSUME NEW t \in Threads, RegisterAgain(t) PROVE PredictionTypeOK'
    BY <1>14, EnterAdds, WorkedOnIsMade DEF RegisterAgain
  <1>15. ASSUME NEW t \in Threads, Handoff(t) PROVE PredictionTypeOK'
    BY <1>15 DEF Handoff, Accept, Refuse, Return
  <1>16. ASSUME NEW t \in Threads, PollRoute(t) PROVE PredictionTypeOK'
    BY <1>16 DEF PollRoute, Route
  <1>17. ASSUME NEW t \in Threads, NEW r \in Rounds, PollRound(t, r) PROVE PredictionTypeOK'
    BY <1>17 DEF PollRound
  <1>18. ASSUME NEW p \in Predictions, ExpirePrediction(p) PROVE PredictionTypeOK'
    BY <1>18 DEF ExpirePrediction
  <1>19. CASE UNCHANGED vars
    BY <1>19 DEF vars
  <1> QED
    BY <1>1, <1>2, <1>3, <1>4, <1>5, <1>6, <1>7, <1>8, <1>9, <1>10, <1>11, <1>12, <1>13,
       <1>14, <1>15, <1>16, <1>17, <1>18, <1>19
    DEF Next, OnGameEnd, OnRoundEnd

LEMMA ResponsesMadeStep == TypeOK /\ ResponsesMade /\ [Next]_vars => ResponsesMade'
  <1> SUFFICES ASSUME TypeOK /\ ResponsesMade, [Next]_vars PROVE ResponsesMade'
    OBVIOUS
  <1> USE ResponseAssumption
      DEF TypeOK, ResponsesMade, PredictionTypeOK, ThreadTypeOK, Responses, Goto, router, client, thread, settling, database, outbox
  <1>1. CASE InstallHandlers
    BY <1>1 DEF InstallHandlers
  <1>2. CASE EndRound
    BY <1>2 DEF EndRound
  <1>3. ASSUME NEW r \in Rounds, SocketEnd(r) PROVE ResponsesMade'
    BY <1>3 DEF SocketEnd, Route
  <1>4. ASSUME NEW r \in Rounds, EvictKey(r) PROVE ResponsesMade'
    BY <1>4 DEF EvictKey
  <1>5. CASE PopValidation
    BY <1>5 DEF PopValidation, RememberRound
  <1>6. CASE MatchRound
    BY <1>6 DEF MatchRound, Taken, Outstanding
  <1>7. ASSUME NEW p \in Predictions, SettleOutcome(p) PROVE ResponsesMade'
    BY <1>7 DEF SettleOutcome, ApplyFeedback, Accept, Refuse
  <1>8. ASSUME NEW t \in Threads, NEW s \in Stamps, Submit(t, s) PROVE ResponsesMade'
    <2>1. at[t] + 1 # 0
      BY <1>8, CorrelationType DEF Submit, Targets
    <2>2. PICK answer \in {Skip} \cup {p \in Predictions : target[p] = 0} :
            /\ resp' = [resp EXCEPT ![t] = answer]
            /\ last' = answer
            /\ stamp' = [stamp EXCEPT ![t] = s]
            /\ pending' = [pending EXCEPT ![<<at[t] + 1, s>>] = answer]
            /\ target' = [p \in Predictions |-> IF p = answer THEN at[t] + 1 ELSE target[p]]
            /\ Goto(t, IF answer # Skip /\ Installed THEN "register" ELSE "fetch")
      BY <1>8 DEF Submit
    <2>3. \A p \in Predictions : target[p] # 0 => target'[p] # 0
      BY <2>1, <2>2
    <2>4. answer # Skip => target'[answer] # 0
      BY <2>1, <2>2
    <2>5. \A u \in Threads :
            /\ resp'[u] # Skip => target'[resp'[u]] # 0
            /\ pc'[u] \in {"register", "persist", "publish", "again", "handoff"} => resp'[u] # Skip
            /\ pc'[u] \in {"register", "persist", "publish", "fetch"} => stamp'[u] # Absent
      BY <2>2, <2>3, <2>4
    <2>6. \A c \in Targets \X Stamps : pending'[c] \in Predictions => target'[pending'[c]] # 0
      BY <2>2, <2>3, <2>4
    <2> QED BY <1>8, <2>2, <2>3, <2>4, <2>5, <2>6 DEF Submit
  <1>9. ASSUME NEW t \in Threads, Register(t) PROVE ResponsesMade'
    <2>1. resp[t] \in Predictions /\ target[resp[t]] # 0
      BY <1>9, WorkedOnIsMade DEF Register
    <2>2. registry' \subseteq registry \cup {resp[t]}
      BY <1>9, EnterAdds DEF Register
    <2>3. UNCHANGED <<target, resp, stamp, last, pending>>
      BY <1>9 DEF Register
    <2>4. pc' = [pc EXCEPT ![t] = "fetch"] \/ pc' = [pc EXCEPT ![t] = "persist"]
      BY <1>9 DEF Register
    <2>5. stamp[t] # Absent
      BY <1>9 DEF Register
    <2> QED BY <2>1, <2>2, <2>3, <2>4, <2>5
  <1>10. ASSUME NEW t \in Threads, PersistPrediction(t) PROVE ResponsesMade'
    BY <1>10 DEF PersistPrediction
  <1>11. ASSUME NEW t \in Threads, PersistFails(t) PROVE ResponsesMade'
    BY <1>11 DEF PersistFails
  <1>12. ASSUME NEW t \in Threads, Publish(t) PROVE ResponsesMade'
    <2>1. UNCHANGED <<target, resp, stamp, last, pending, registry>>
      BY <1>12 DEF Publish
    <2>2. pc' = [pc EXCEPT ![t] = "fetch"] /\ stamp[t] # Absent
      BY <1>12 DEF Publish
    <2> QED BY <2>1, <2>2
  <1>13. ASSUME NEW t \in Threads, FetchResponse(t) PROVE ResponsesMade'
    <2> DEFINE id == <<at[t] + 1, stamp[t]>>
    <2> DEFINE answer == IF pending[id] = Absent THEN last ELSE pending[id]
    <2>3. id \in Targets \X Stamps /\ answer \in Responses /\ (answer # Skip => target[answer] # 0)
      BY <1>13, FetchedIsMade DEF FetchResponse
    <2>4. pending' = [pending EXCEPT ![id] = Absent] /\ stamp' = [stamp EXCEPT ![t] = Absent]
      BY <1>13 DEF FetchResponse
    <2>5. UNCHANGED <<registry, target, last>>
      BY <1>13 DEF FetchResponse
    <2>6. IF answer = Skip THEN Return(t)
          ELSE resp' = [resp EXCEPT ![t] = answer] /\ Goto(t, "again")
      BY <1>13 DEF FetchResponse
    <2> HIDE DEF id, answer
    <2>7. \A u \in Threads :
            /\ resp'[u] # Skip => target[resp'[u]] # 0
            /\ pc'[u] \in {"register", "persist", "publish", "again", "handoff"} => resp'[u] # Skip
            /\ pc'[u] \in {"register", "persist", "publish", "fetch"} => stamp'[u] # Absent
      BY <2>3, <2>4, <2>6 DEF Return
    <2>8. \A c \in Targets \X Stamps : pending'[c] \in Predictions => target[pending'[c]] # 0
      BY <2>3, <2>4
    <2> QED BY <2>5, <2>7, <2>8
  <1>14. ASSUME NEW t \in Threads, RegisterAgain(t) PROVE ResponsesMade'
    BY <1>14, EnterAdds, WorkedOnIsMade DEF RegisterAgain, Return
  <1>15. ASSUME NEW t \in Threads, Handoff(t) PROVE ResponsesMade'
    BY <1>15 DEF Handoff, Accept, Refuse, Return
  <1>16. ASSUME NEW t \in Threads, PollRoute(t) PROVE ResponsesMade'
    BY <1>16 DEF PollRoute, Route
  <1>17. ASSUME NEW t \in Threads, NEW r \in Rounds, PollRound(t, r) PROVE ResponsesMade'
    BY <1>17 DEF PollRound
  <1>18. ASSUME NEW p \in Predictions, ExpirePrediction(p) PROVE ResponsesMade'
    BY <1>18 DEF ExpirePrediction
  <1>19. CASE UNCHANGED vars
    BY <1>19 DEF vars
  <1> QED
    BY <1>1, <1>2, <1>3, <1>4, <1>5, <1>6, <1>7, <1>8, <1>9, <1>10, <1>11, <1>12, <1>13,
       <1>14, <1>15, <1>16, <1>17, <1>18, <1>19
    DEF Next, OnGameEnd, OnRoundEnd

-----------------------------------------------------------------------------

\* What every step outside onGameEnd leaves alone: what was settled, where the
\* main thread is inside onGameEnd, and the targets of predictions; what it
\* registers is late if its target is settled.
Quiet ==
    /\ UNCHANGED settling
    /\ pc'[Main] = "take" <=> pc[Main] = "take"
    /\ pc[Main] = "settle" => pc'[Main] = "settle"
    /\ pc[Main] = "take" => at'[Main] = at[Main]
    /\ \A p \in Predictions : target[p] # 0 => target'[p] = target[p]
    /\ late \subseteq late'
    /\ \A p \in registry' :
        p \in registry \/ (target[p] # 0 /\ (AlreadySettled(target[p]) => p \in late'))

LEMMA QuietStep == TypeOK /\ ResponsesMade /\ [Next]_vars => Quiet \/ OnGameEnd
  <1> SUFFICES ASSUME TypeOK, ResponsesMade, [Next]_vars, ~OnGameEnd PROVE Quiet
    OBVIOUS
  <1>0. pc \in [Threads -> Steps] /\ at \in [Threads -> {0} \cup Rounds] /\ Main \in Threads
    BY DEF TypeOK, ThreadTypeOK, Threads
  <1> USE <1>0 DEF Quiet, Goto, router, client, thread
  <1>1. CASE InstallHandlers
    BY <1>1 DEF InstallHandlers
  <1>2. CASE EndRound
    BY <1>2 DEF EndRound
  <1>3. ASSUME NEW r \in Rounds, SocketEnd(r) PROVE Quiet
    BY <1>3 DEF SocketEnd
  <1>4. ASSUME NEW r \in Rounds, EvictKey(r) PROVE Quiet
    BY <1>4 DEF EvictKey
  <1>5. ASSUME NEW t \in Threads, NEW s \in Stamps, Submit(t, s) PROVE Quiet
    <2>1. PICK answer \in {Skip} \cup {p \in Predictions : target[p] = 0} :
            /\ target' = [p \in Predictions |-> IF p = answer THEN at[t] + 1 ELSE target[p]]
            /\ Goto(t, IF answer # Skip /\ Installed THEN "register" ELSE "fetch")
      BY <1>5 DEF Submit
    <2>2. pc[t] = "submit" /\ UNCHANGED <<registry, at, settling, late>>
      BY <1>5 DEF Submit
    <2>3. pc'[Main] = "take" <=> pc[Main] = "take"
      BY <2>1, <2>2
    <2>4. pc[Main] = "settle" => pc'[Main] = "settle"
      BY <2>1, <2>2
    <2>5. \A p \in Predictions : target[p] # 0 => target'[p] = target[p]
      BY <2>1, ResponseAssumption
    <2> QED BY <2>2, <2>3, <2>4, <2>5
  <1>6. ASSUME NEW t \in Threads, Register(t) PROVE Quiet
    <2>1. resp[t] \in Predictions /\ target[resp[t]] # 0
      BY <1>6, WorkedOnIsMade DEF Register
    <2> QED BY <1>6, <2>1 DEF Register, Enter
  <1>7. ASSUME NEW t \in Threads, PersistPrediction(t) PROVE Quiet
    BY <1>7 DEF PersistPrediction
  <1>8. ASSUME NEW t \in Threads, PersistFails(t) PROVE Quiet
    BY <1>8 DEF PersistFails
  <1>9. ASSUME NEW t \in Threads, Publish(t) PROVE Quiet
    BY <1>9 DEF Publish
  <1>10. ASSUME NEW t \in Threads, FetchResponse(t) PROVE Quiet
    BY <1>10 DEF FetchResponse, Return
  <1>11. ASSUME NEW t \in Threads, RegisterAgain(t) PROVE Quiet
    <2>1. resp[t] \in Predictions /\ target[resp[t]] # 0
      BY <1>11, WorkedOnIsMade DEF RegisterAgain
    <2>2. UNCHANGED <<settling, target>>
      BY <1>11 DEF RegisterAgain
    <2>3. /\ pc[t] = "again" /\ pc'[t] \in {"idle", "route", "handoff"}
          /\ \A u \in Threads \ {t} : pc'[u] = pc[u] /\ at'[u] = at[u]
      BY <1>11 DEF RegisterAgain, Return
    <2>4. CASE UNCHANGED <<registry, late>>
      BY <2>2, <2>3, <2>4
    <2>5. CASE Enter(resp[t])
      BY <2>1, <2>2, <2>3, <2>5 DEF Enter
    <2> QED BY <1>11, <2>4, <2>5 DEF RegisterAgain
  <1>12. ASSUME NEW t \in Threads, Handoff(t) PROVE Quiet
    BY <1>12 DEF Handoff, Return
  <1>13. ASSUME NEW t \in Threads, PollRoute(t) PROVE Quiet
    BY <1>13 DEF PollRoute
  <1>14. ASSUME NEW t \in Threads, NEW r \in Rounds, PollRound(t, r) PROVE Quiet
    BY <1>14 DEF PollRound
  <1>15. ASSUME NEW p \in Predictions, ExpirePrediction(p) PROVE Quiet
    BY <1>15 DEF ExpirePrediction
  <1>16. CASE UNCHANGED vars
    BY <1>16 DEF vars
  <1> QED
    BY <1>1, <1>2, <1>3, <1>4, <1>5, <1>6, <1>7, <1>8, <1>9, <1>10, <1>11, <1>12, <1>13,
       <1>14, <1>15, <1>16
    DEF Next, OnRoundEnd

\* The facts about settled rounds survive a quiet step.
LEMMA QuietKeeps ==
    ASSUME IInv, Quiet, registry' \subseteq Predictions
    PROVE  /\ TakenIsSettled'
           /\ MatchedIsSettled'
           /\ AppliedIsMatched'
           /\ AppliedIsRemembered'
           /\ NoneLeftBehind'
  <1> USE DEF IInv, Quiet, settling, AlreadySettled, Taking
  <1>1. TakenIsSettled'
    BY DEF TakenIsSettled
  <1>2. MatchedIsSettled'
    <2> SUFFICES ASSUME ~evicted', NEW p \in Predictions
                 PROVE  /\ matched'[p] <= 1
                        /\ matched'[p] > 0 => AlreadySettled(target[p])' /\ ~Taking(target[p])'
      BY DEF MatchedIsSettled
    <2>1. CASE matched[p] > 0
      <3>1. target[p] # 0
        BY <2>1, SettledIsRound DEF MatchedIsSettled, TypeOK, SettlingTypeOK
      <3> QED BY <2>1, <3>1 DEF MatchedIsSettled
    <2>2. CASE ~(matched[p] > 0)
      BY <2>2 DEF MatchedIsSettled
    <2> QED BY <2>1, <2>2
  <1>3. AppliedIsMatched' /\ AppliedIsRemembered'
    BY DEF AppliedIsMatched, AppliedIsRemembered
  <1>4. NoneLeftBehind'
    BY DEF NoneLeftBehind, ResponsesMade
  <1> QED BY <1>1, <1>2, <1>3, <1>4

\* PopValidation settles a round that was not settled before.
LEMMA PopKeeps ==
    ASSUME IInv, PopValidation, TypeOK'
    PROVE  /\ TakenIsSettled'
           /\ MatchedIsSettled'
           /\ AppliedIsMatched'
           /\ AppliedIsRemembered'
           /\ NoneLeftBehind'
  <1> DEFINE r == Head(queue)
  <1>0. /\ pc[Main] = "idle" /\ pc'[Main] \in {"submit", "take"} /\ at'[Main] = r
        /\ UNCHANGED <<registry, target, feedback, outcomes, matched, applied, forgot, late>>
        /\ r \in Rounds
    BY DEF PopValidation, RememberRound, IInv, TypeOK, RouterTypeOK, ThreadTypeOK, Threads, Goto
  <1>1. CASE AlreadySettled(r)
    <2>1. pc'[Main] = "submit" /\ UNCHANGED <<resolved, evicted>>
      BY <1>1 DEF PopValidation, RememberRound, IInv, TypeOK, ThreadTypeOK, Threads, Goto
    <2> QED
      BY <1>0, <2>1
      DEF IInv, TakenIsSettled, MatchedIsSettled, AppliedIsMatched, AppliedIsRemembered,
          NoneLeftBehind, AlreadySettled, Taking
  <1>2. CASE ~AlreadySettled(r)
    <2>1. /\ pc'[Main] = "take"
          /\ resolved' = IF Len(resolved) < ResolvedCap THEN Append(resolved, r)
                         ELSE Append(Tail(resolved), r)
          /\ evicted' = (evicted \/ Len(resolved) >= ResolvedCap)
      BY <1>2 DEF PopValidation, RememberRound, IInv, TypeOK, ThreadTypeOK, Threads, Goto
    <2>2. resolved \in Seq(Rounds) /\ Len(resolved) <= ResolvedCap
      BY DEF IInv, TypeOK, SettlingTypeOK
    <2> HIDE DEF r
    <2>3. /\ r \in Range(resolved')
          /\ Range(resolved') \subseteq Range(resolved) \cup {r}
          /\ Len(resolved) < ResolvedCap => Range(resolved) \subseteq Range(resolved')
      <3>1. r \in Rounds
        BY <1>0
      <3>2. resolved' = IF Len(resolved) < ResolvedCap THEN Append(resolved, r)
                        ELSE Append(Tail(resolved), r)
        BY <2>1
      <3> QED BY ONLY <2>2, <3>1, <3>2, ResolvedGrows, ZenonT(60)
    <2>4. TakenIsSettled'
      BY <1>0, <2>3 DEF TakenIsSettled, Taking, AlreadySettled
    <2>5. MatchedIsSettled'
      <3> SUFFICES ASSUME ~evicted', NEW p \in Predictions
                   PROVE  /\ matched'[p] <= 1
                          /\ matched'[p] > 0 => AlreadySettled(target[p])' /\ ~Taking(target[p])'
        BY DEF MatchedIsSettled
      <3>1. ~evicted /\ ~(Len(resolved) >= ResolvedCap)
        BY <2>1
      <3>2. Len(resolved) < ResolvedCap
        BY <3>1, <2>2, BoundAssumption
      <3>3. matched[p] > 0 => AlreadySettled(target[p])
        BY <3>1 DEF IInv, MatchedIsSettled
      <3> QED BY <1>0, <1>2, <2>3, <3>1, <3>2, <3>3
              DEF IInv, MatchedIsSettled, AlreadySettled, Taking
    <2>6. AppliedIsMatched' /\ AppliedIsRemembered'
      BY <1>0 DEF IInv, AppliedIsMatched, AppliedIsRemembered
    <2>7. NoneLeftBehind'
      BY <1>0, <2>1, <2>3 DEF IInv, NoneLeftBehind, AlreadySettled
    <2> QED BY <2>4, <2>5, <2>6, <2>7
  <1> QED BY <1>1, <1>2

\* MatchRound takes every prediction of a round none of whose predictions was
\* matched before.
LEMMA MatchKeeps ==
    ASSUME IInv, MatchRound, TypeOK'
    PROVE  /\ TakenIsSettled'
           /\ MatchedIsSettled'
           /\ AppliedIsMatched'
           /\ AppliedIsRemembered'
           /\ NoneLeftBehind'
  <1> DEFINE taken == {p \in registry : target[p] = at[Main]}
  <1>0. /\ pc[Main] = "take"
        /\ pc'[Main] = IF taken = {} THEN "submit" ELSE "settle"
        /\ registry' = registry \ taken /\ outcomes' = taken
        /\ matched' = [p \in Predictions |-> matched[p] + IF p \in taken THEN 1 ELSE 0]
        /\ UNCHANGED <<target, resolved, feedback, applied, evicted, forgot, late>>
    BY DEF MatchRound, Taken, Outstanding, IInv, TypeOK, ThreadTypeOK, Threads, Goto
  <1>1. matched \in [Predictions -> Nat] /\ applied \in [Predictions -> Nat]
    BY DEF IInv, TypeOK, SettlingTypeOK
  <1>2. at[Main] \in Rounds /\ AlreadySettled(at[Main])
    BY <1>0 DEF IInv, TypeOK, ThreadTypeOK, Threads, TakenIsSettled, Taking
  <1> HIDE DEF taken
  <1>3. TakenIsSettled'
    BY <1>0 DEF TakenIsSettled, Taking
  <1>4. MatchedIsSettled'
    <2> SUFFICES ASSUME ~evicted', NEW p \in Predictions
                 PROVE  /\ matched'[p] <= 1
                        /\ matched'[p] > 0 => AlreadySettled(target[p])' /\ ~Taking(target[p])'
      BY DEF MatchedIsSettled
    <2>1. CASE p \in taken
      <3>1. target[p] = at[Main]
        BY <2>1 DEF taken
      <3>2. matched[p] = 0
        BY <1>0, <1>1, <3>1 DEF IInv, MatchedIsSettled, Taking
      <3>3. matched'[p] = 1
        BY <1>0, <2>1, <3>2
      <3> QED BY <1>0, <1>2, <3>1, <3>3 DEF AlreadySettled, Taking
    <2>2. CASE p \notin taken
      <3>1. matched'[p] = matched[p]
        BY <1>0, <1>1, <2>2
      <3> QED BY <1>0, <3>1 DEF IInv, MatchedIsSettled, AlreadySettled, Taking
    <2> QED BY <2>1, <2>2
  <1>5. AppliedIsMatched'
    <2>1. \A p \in Predictions : applied[p] <= matched[p]
      BY DEF IInv, AppliedIsMatched
    <2>2. \A p \in Predictions :
            /\ applied[p] <= matched'[p]
            /\ p \in taken => applied[p] < matched'[p]
      BY <1>0, <1>1, <2>1
    <2> QED BY <1>0, <2>2 DEF AppliedIsMatched
  <1>6. AppliedIsRemembered'
    BY <1>0 DEF IInv, AppliedIsRemembered
  <1>7. NoneLeftBehind'
    BY <1>0 DEF IInv, NoneLeftBehind, AlreadySettled, taken
  <1> QED BY <1>3, <1>4, <1>5, <1>6, <1>7

\* Settling an outcome applies the feedback of a prediction that was matched
\* once more often than its feedback was applied.
LEMMA SettleKeeps ==
    ASSUME IInv, NEW p \in Predictions, SettleOutcome(p), TypeOK'
    PROVE  /\ TakenIsSettled'
           /\ MatchedIsSettled'
           /\ AppliedIsMatched'
           /\ AppliedIsRemembered'
           /\ NoneLeftBehind'
  <1>0. /\ pc[Main] = "settle" /\ p \in outcomes /\ outcomes' = outcomes \ {p}
        /\ pc'[Main] = IF outcomes = {p} THEN "submit" ELSE "settle"
        /\ UNCHANGED <<registry, target, resolved, matched, evicted, late>>
        /\ ApplyFeedback(p)
    BY DEF SettleOutcome, IInv, TypeOK, ThreadTypeOK, Threads, Goto
  <1>1. matched \in [Predictions -> Nat] /\ applied \in [Predictions -> Nat]
    BY DEF IInv, TypeOK, SettlingTypeOK
  <1>2. TakenIsSettled' /\ NoneLeftBehind' /\ MatchedIsSettled'
    BY <1>0 DEF IInv, TakenIsSettled, NoneLeftBehind, MatchedIsSettled, AlreadySettled, Taking
  <1>3. AppliedIsMatched'
    <2>1. applied[p] < matched[p]
      BY <1>0 DEF IInv, AppliedIsMatched
    <2>2. applied' = [applied EXCEPT ![p] = @ + 1] \/ applied' = applied
      BY <1>0 DEF ApplyFeedback
    <2>3. \A q \in Predictions :
            /\ applied'[q] <= matched[q]
            /\ q \in outcomes \ {p} => applied'[q] < matched[q]
      BY <1>1, <2>1, <2>2 DEF IInv, AppliedIsMatched
    <2> QED BY <1>0, <2>3 DEF AppliedIsMatched
  <1>4. AppliedIsRemembered'
    <2>1. CASE NewFeedback(p)
      <3> SUFFICES ASSUME ~forgot'
                   PROVE  \A q \in Predictions :
                              applied'[q] <= 1 /\ (applied'[q] > 0 => q \in feedback')
        BY DEF AppliedIsRemembered
      <3>1. /\ ~forgot /\ feedback' = feedback \cup {p}
            /\ applied' = [applied EXCEPT ![p] = @ + 1]
        BY <1>0, <2>1 DEF ApplyFeedback
      <3>2. applied[p] = 0
        BY <1>1, <2>1, <3>1 DEF NewFeedback, IInv, AppliedIsRemembered
      <3> QED BY <1>1, <3>1, <3>2 DEF IInv, AppliedIsRemembered
    <2>2. CASE ~NewFeedback(p)
      BY <1>0, <2>2 DEF ApplyFeedback, IInv, AppliedIsRemembered
    <2> QED BY <2>1, <2>2
  <1> QED BY <1>2, <1>3, <1>4

-----------------------------------------------------------------------------

LEMMA TypeStep == TypeOK /\ ResponsesMade /\ [Next]_vars => TypeOK'
  BY RouterTypeStep, SignalTypeStep, SettlingTypeStep, ThreadTypeStep, PredictionTypeStep
  DEF TypeOK

LEMMA IInvStep == IInv /\ [Next]_vars => IInv'
  <1> SUFFICES ASSUME IInv, [Next]_vars PROVE IInv'
    OBVIOUS
  <1>1. TypeOK' /\ ResponsesMade'
    BY TypeStep, ResponsesMadeStep DEF IInv
  <1>2. registry' \subseteq Predictions
    BY <1>1 DEF TypeOK, PredictionTypeOK
  <1>3. CASE Quiet
    BY <1>1, <1>2, <1>3, QuietKeeps DEF IInv
  <1>4. CASE OnGameEnd
    BY <1>1, <1>4, PopKeeps, MatchKeeps, SettleKeeps DEF IInv, OnGameEnd
  <1> QED BY <1>3, <1>4, QuietStep DEF IInv

\* The inductive invariant holds in every reachable state of the router, the
\* validator and the coordinator (application.hpp:511-536).
THEOREM InductiveInvariant == Spec => []IInv
  BY InitIInv, IInvStep, PTL DEF Spec

\* Types: the queue and the validator's memory stay within their capacities
\* (event_router.hpp:73, live_validator.hpp:101-106).
THEOREM TypeCorrect == Spec => []TypeOK
  <1>1. IInv => TypeOK
    BY DEF IInv
  <1> QED BY <1>1, InductiveInvariant, PTL

\* However the main thread and any number of poll threads interleave inside
\* onRoundEnd, a prediction is matched at most once while the validator
\* remembers every settled round (live_validator.hpp:86-108).
THEOREM MatchedAtMostOnce == Spec => []MatchedOnce
  <1>1. IInv => MatchedOnce
    BY DEF IInv, MatchedIsSettled, MatchedOnce
  <1> QED BY <1>1, InductiveInvariant, PTL

\* The feedback of a prediction is applied at most once unless both memories,
\* the validator's and the feedback's, have been cut
\* (exactly_once_feedback.hpp:35-53).
THEOREM FeedbackAtMostOnce == Spec => []FeedbackOnce
  <1>1. IInv => FeedbackOnce
    <2> SUFFICES ASSUME IInv, ~evicted \/ ~forgot, NEW p \in Predictions PROVE applied[p] <= 1
      BY DEF FeedbackOnce
    <2>1. matched[p] \in Nat /\ applied[p] \in Nat /\ applied[p] <= matched[p]
      BY DEF IInv, TypeOK, SettlingTypeOK, AppliedIsMatched
    <2>2. CASE ~evicted
      BY <2>1, <2>2 DEF IInv, MatchedIsSettled
    <2>3. CASE ~forgot
      BY <2>3 DEF IInv, AppliedIsRemembered
    <2> QED BY <2>2, <2>3
  <1> QED BY <1>1, InductiveInvariant, PTL

\* onGameEnd leaves no prediction of a settled round outstanding that was
\* registered in time (prediction_registry.hpp:40-48).
THEOREM NothingLeftBehind == Spec => []NoneLeftBehind
  <1>1. IInv => NoneLeftBehind
    BY DEF IInv
  <1> QED BY <1>1, InductiveInvariant, PTL

-----------------------------------------------------------------------------
(* The main thread alone: SignalsSafe, by AloneInv.                       *)

\* What a step does to the signals that are out, or about to be, and not
\* stored: it adds one at most, and then counts a failure.
Accounted ==
    \/ faults' = faults /\ Unstored' \subseteq Unstored
    \/ faults' = faults + 1 /\ \E x : Unstored' \subseteq Unstored \cup {x}

\* What the proofs below need of a step of the main thread alone.
AloneKept == FetchesItsOwn' /\ SettledAreOut' /\ Accounted

\* Steps that leave alone what the main thread works on.
LEMMA AloneIdle ==
    ASSUME AloneInv, UNCHANGED <<registry, pending, pc, at, stamp, resp, outcomes,
                                 published, stored, faults, full>>
    PROVE  AloneKept
  BY DEF AloneKept, AloneInv, FetchesItsOwn, SettledAreOut, SignalIsOut, Accounted, Unstored

\* Steps on the way to onRoundEnd: no new signal, nothing new outstanding.
LEMMA AloneBefore ==
    ASSUME AloneInv,
           pc'[Main] \in {"boot", "idle", "take", "settle", "submit", "route"},
           pc[Main] \notin {"persist", "publish"},
           registry' \cup outcomes' \subseteq registry \cup outcomes,
           UNCHANGED <<published, stored, faults, full>>
    PROVE  AloneKept
  BY DEF AloneKept, AloneInv, FetchesItsOwn, SettledAreOut, SignalIsOut, Accounted, Unstored,
         Handling, Publishing

LEMMA AloneSettle ==
    ASSUME TypeOK, AloneInv, NEW p \in Predictions, SettleOutcome(p)
    PROVE  AloneKept
  <1> DEFINE signal == <<p, "outcome">>
  <1>0. /\ pc[Main] = "settle" /\ p \in outcomes /\ outcomes' = outcomes \ {p}
        /\ pc'[Main] \in {"submit", "settle"}
        /\ UNCHANGED <<registry, at, stamp, resp, pending>>
    BY DEF SettleOutcome, Goto, TypeOK, ThreadTypeOK, Threads, client
  <1>1. \/ stored' = stored \cup {signal} /\ faults' = faults
        \/ faults' = faults + 1 /\ stored' = stored
    BY DEF SettleOutcome
  <1>2. \/ published' = published \cup {signal} /\ full' = full
        \/ full' = full + 1 /\ published' = published
    BY DEF SettleOutcome, Accept, Refuse
  <1>3. full \in Nat
    BY DEF TypeOK, SignalTypeOK
  <1>4. \A q : SignalIsOut(q) => SignalIsOut(q)'
    BY <1>2, <1>3 DEF SignalIsOut
  <1>5. SignalIsOut(p)
    BY <1>0 DEF AloneInv, SettledAreOut
  <1>6. \A q \in Predictions : <<q, "outcome">> \in published' => SignalIsOut(q)'
    <2> SUFFICES ASSUME NEW q \in Predictions, <<q, "outcome">> \in published'
                 PROVE  SignalIsOut(q)'
      OBVIOUS
    <2>1. q = p \/ <<q, "outcome">> \in published
      BY <1>2
    <2> QED BY <2>1, <1>4, <1>5 DEF AloneInv, SettledAreOut
  <1>7. \A q \in registry' \cup outcomes' : SignalIsOut(q)'
    BY <1>0, <1>4 DEF AloneInv, SettledAreOut
  <1>8. SettledAreOut'
    BY <1>0, <1>6, <1>7 DEF SettledAreOut
  <1>9. FetchesItsOwn'
    BY <1>0 DEF FetchesItsOwn, Handling
  <1>10. Unstored' = published' \ stored' /\ Unstored = published \ stored
    BY <1>0 DEF Unstored, Publishing
  <1>11. CASE stored' = stored \cup {signal} /\ faults' = faults
    <2>1. Unstored' \subseteq Unstored
      BY <1>2, <1>10, <1>11
    <2> QED BY <2>1, <1>8, <1>9, <1>11 DEF AloneKept, Accounted
  <1>12. CASE faults' = faults + 1 /\ stored' = stored
    <2>1. Unstored' \subseteq Unstored \cup {signal}
      BY <1>2, <1>10, <1>12
    <2> QED BY <2>1, <1>8, <1>9, <1>12 DEF AloneKept, Accounted
  <1> QED BY <1>1, <1>11, <1>12

\* The response is filed under the id it is fetched by, and is not
\* registered, because it has just been made.
LEMMA AloneSubmit ==
    ASSUME IInv, AloneInv, NEW s \in Stamps, Submit(Main, s)
    PROVE  AloneKept
  <1>1. PICK answer \in {Skip} \cup {p \in Predictions : target[p] = 0} :
            /\ resp' = [resp EXCEPT ![Main] = answer]
            /\ stamp' = [stamp EXCEPT ![Main] = s]
            /\ pending' = [pending EXCEPT ![<<at[Main] + 1, s>>] = answer]
            /\ Goto(Main, IF answer # Skip /\ Installed THEN "register" ELSE "fetch")
    BY DEF Submit
  <1>2. /\ pc[Main] = "submit"
        /\ UNCHANGED <<registry, at, outcomes, published, stored, faults, full>>
    BY DEF Submit, settling, database, outbox
  <1>3. <<at[Main] + 1, s>> \in Targets \X Stamps
    BY <1>2, CorrelationType DEF IInv, Threads
  <1>4. /\ resp'[Main] = answer /\ stamp'[Main] = s
        /\ pending'[<<at'[Main] + 1, stamp'[Main]>>] = answer
        /\ pc'[Main] = IF answer # Skip THEN "register" ELSE "fetch"
    BY <1>1, <1>2, <1>3
    DEF Goto, Installed, IInv, TypeOK, ThreadTypeOK, PredictionTypeOK, Threads
  <1>5. answer # Skip => answer \notin registry
    BY DEF IInv, ResponsesMade
  <1>6. FetchesItsOwn'
    BY <1>2, <1>4, <1>5 DEF FetchesItsOwn
  <1>7. SettledAreOut'
    BY <1>2, <1>4 DEF AloneInv, SettledAreOut, SignalIsOut
  <1>8. Unstored' = published \ stored
    BY <1>2, <1>4 DEF Unstored, Publishing
  <1>9. Accounted
    BY <1>2, <1>8 DEF Accounted, Unstored
  <1> QED BY <1>6, <1>7, <1>9 DEF AloneKept

\* The prediction is new to the registry, so the handler goes on with it.
LEMMA AloneRegister ==
    ASSUME TypeOK, AloneInv, Register(Main)
    PROVE  AloneKept
  <1>1. pc[Main] = "register" /\ resp[Main] \notin registry
    BY DEF Register, AloneInv, FetchesItsOwn
  <1>2. /\ pc'[Main] = "persist" /\ Enter(resp[Main])
        /\ UNCHANGED <<pending, at, stamp, resp, outcomes, published, stored, faults, full>>
    BY <1>1 DEF Register, Goto, TypeOK, ThreadTypeOK, Threads, client, settling, database, outbox
  <1>3. registry' \subseteq registry \cup {resp[Main]}
    BY <1>2, EnterAdds
  <1>4. FetchesItsOwn'
    BY <1>1, <1>2 DEF AloneInv, FetchesItsOwn, Handling
  <1>5. SettledAreOut'
    BY <1>1, <1>2, <1>3 DEF AloneInv, SettledAreOut, SignalIsOut
  <1>6. Accounted
    BY <1>1, <1>2 DEF Accounted, Unstored, Publishing
  <1> QED BY <1>4, <1>5, <1>6 DEF AloneKept

\* A commit stores the signal; a failure is counted.
LEMMA AlonePersist ==
    ASSUME TypeOK, AloneInv, PersistPrediction(Main) \/ PersistFails(Main)
    PROVE  AloneKept
  <1> DEFINE signal == <<resp[Main], "prediction">>
  <1>1. /\ pc[Main] = "persist" /\ pc'[Main] = "publish"
        /\ UNCHANGED <<registry, pending, at, stamp, resp, outcomes, published, full>>
        /\ \/ stored' = stored \cup {signal} /\ faults' = faults
           \/ faults' = faults + 1 /\ stored' = stored
    BY DEF PersistPrediction, PersistFails, Goto, TypeOK, ThreadTypeOK, Threads, client,
           settling, outbox
  <1>2. FetchesItsOwn'
    BY <1>1 DEF AloneInv, FetchesItsOwn, Handling
  <1>3. SettledAreOut'
    BY <1>1 DEF AloneInv, SettledAreOut, SignalIsOut
  <1>4. Unstored = published \ stored /\ Unstored' \subseteq (published \cup {signal}) \ stored'
    BY <1>1 DEF Unstored, Publishing
  <1>5. CASE stored' = stored \cup {signal} /\ faults' = faults
    <2>1. Unstored' \subseteq Unstored
      BY <1>4, <1>5
    <2> QED BY <2>1, <1>2, <1>3, <1>5 DEF AloneKept, Accounted
  <1>6. CASE faults' = faults + 1 /\ stored' = stored
    <2>1. Unstored' \subseteq Unstored \cup {signal}
      BY <1>4, <1>6
    <2> QED BY <2>1, <1>2, <1>3, <1>6 DEF AloneKept, Accounted
  <1> QED BY <1>1, <1>5, <1>6

\* The signal goes out, or the outbox has refused one.
LEMMA AlonePublish ==
    ASSUME TypeOK, ResponsesMade, AloneInv, Publish(Main)
    PROVE  AloneKept
  <1> DEFINE signal == <<resp[Main], "prediction">>
  <1>1. /\ pc[Main] = "publish" /\ pc'[Main] = "fetch"
        /\ UNCHANGED <<registry, pending, at, stamp, resp, outcomes, stored, faults>>
        /\ \/ published' = published \cup {signal} /\ full' = full
           \/ full' = full + 1 /\ published' = published
    BY DEF Publish, Accept, Refuse, Goto, TypeOK, ThreadTypeOK, Threads, client, settling,
           database
  <1>2. full \in Nat
    BY DEF TypeOK, SignalTypeOK
  <1>3. FetchesItsOwn'
    BY <1>1 DEF AloneInv, FetchesItsOwn, Handling
  <1>4. \A q : SignalIsOut(q) => SignalIsOut(q)'
    BY <1>1, <1>2 DEF SignalIsOut
  <1>5. SignalIsOut(resp[Main])'
    BY <1>1, <1>2 DEF SignalIsOut
  <1>6. \A q \in Predictions : <<q, "outcome">> \in published' => <<q, "outcome">> \in published
    BY <1>1
  <1>7. SettledAreOut'
    BY <1>1, <1>4, <1>5, <1>6 DEF AloneInv, SettledAreOut, SignalIsOut
  <1>8. resp[Main] # Skip
    BY <1>1 DEF ResponsesMade, Threads
  <1>9. Unstored' \subseteq Unstored
    BY <1>1, <1>8 DEF Unstored, Publishing
  <1> QED BY <1>1, <1>3, <1>7, <1>9 DEF AloneKept, Accounted

\* The response fetched is the one that was handled.
LEMMA AloneFetch ==
    ASSUME TypeOK, AloneInv, FetchResponse(Main)
    PROVE  AloneKept
  <1> DEFINE id == <<at[Main] + 1, stamp[Main]>>
  <1>1. /\ pc[Main] = "fetch"
        /\ UNCHANGED <<registry, outcomes, published, stored, faults, full>>
    BY DEF FetchResponse, settling, database, outbox
  <1>2. resp[Main] \in Responses /\ resp[Main] # Absent
    BY ResponseAssumption DEF TypeOK, ThreadTypeOK, Threads, Responses
  <1>3. pending[id] = resp[Main]
    BY <1>1 DEF AloneInv, FetchesItsOwn, Handling
  <1>4. \/ pc'[Main] = "idle"
        \/ pc'[Main] = "again" /\ resp'[Main] = resp[Main]
    BY <1>2, <1>3 DEF FetchResponse, Return, Goto, TypeOK, ThreadTypeOK, Threads
  <1>5. FetchesItsOwn'
    BY <1>4 DEF FetchesItsOwn, Handling
  <1>6. SettledAreOut'
    BY <1>1, <1>4 DEF AloneInv, SettledAreOut, SignalIsOut
  <1>7. Accounted
    BY <1>1, <1>4 DEF Accounted, Unstored, Publishing
  <1> QED BY <1>5, <1>6, <1>7 DEF AloneKept

\* The second registration: the signal of the prediction is out already.
LEMMA AloneAgain ==
    ASSUME TypeOK, ResponsesMade, AloneInv, RegisterAgain(Main)
    PROVE  AloneKept
  <1>1. /\ pc[Main] = "again"
        /\ UNCHANGED <<outcomes, published, stored, faults, full>>
    BY DEF RegisterAgain, settling, database, outbox
  <1>2. \/ pc'[Main] = "idle" /\ registry' = registry
        \/ pc'[Main] = "handoff" /\ resp' = resp /\ Enter(resp[Main])
    BY DEF RegisterAgain, Return, Goto, TypeOK, ThreadTypeOK, Threads
  <1>3. registry' \subseteq registry \cup {resp[Main]}
    BY <1>2, EnterAdds
  <1>4. resp[Main] # Skip
    BY <1>1 DEF ResponsesMade, Threads
  <1>5. SignalIsOut(resp[Main])
    BY <1>1, <1>4 DEF AloneInv, SettledAreOut
  <1>6. FetchesItsOwn'
    BY <1>2 DEF FetchesItsOwn, Handling
  <1>7. SettledAreOut'
    BY <1>1, <1>2, <1>3, <1>5 DEF AloneInv, SettledAreOut, SignalIsOut
  <1>8. Accounted
    BY <1>1, <1>2 DEF Accounted, Unstored, Publishing
  <1> QED BY <1>6, <1>7, <1>8 DEF AloneKept

\* The signal is handed over once more.
LEMMA AloneHandoff ==
    ASSUME TypeOK, ResponsesMade, AloneInv, Handoff(Main)
    PROVE  AloneKept
  <1> DEFINE signal == <<resp[Main], "prediction">>
  <1>1. /\ pc[Main] = "handoff" /\ pc'[Main] = "idle"
        /\ UNCHANGED <<registry, outcomes, stored, faults>>
        /\ \/ published' = published \cup {signal} /\ full' = full
           \/ full' = full + 1 /\ published' = published
    BY DEF Handoff, Return, Accept, Refuse, Goto, TypeOK, ThreadTypeOK, Threads, settling,
           database
  <1>2. full \in Nat
    BY DEF TypeOK, SignalTypeOK
  <1>3. resp[Main] # Skip
    BY <1>1 DEF ResponsesMade, Threads
  <1>4. \A q : SignalIsOut(q) => SignalIsOut(q)'
    BY <1>1, <1>2 DEF SignalIsOut
  <1>5. \A q \in Predictions : <<q, "outcome">> \in published' => <<q, "outcome">> \in published
    BY <1>1
  <1>6. FetchesItsOwn'
    BY <1>1 DEF FetchesItsOwn, Handling
  <1>7. SettledAreOut'
    BY <1>1, <1>4, <1>5 DEF AloneInv, SettledAreOut, SignalIsOut
  <1>8. Accounted
    BY <1>1, <1>3 DEF Accounted, Unstored, Publishing
  <1> QED BY <1>6, <1>7, <1>8 DEF AloneKept

LEMMA AloneStep ==
    ASSUME Pollers = {}, IInv, AloneInv, [Next]_vars
    PROVE  AloneKept
  <1>0. Threads = {Main} /\ TypeOK /\ ResponsesMade /\ pc \in [Threads -> Steps]
    BY DEF Threads, IInv, TypeOK, ThreadTypeOK
  <1> USE DEF Goto, router, client, thread, settling, database, outbox
  <1>1. CASE InstallHandlers
    BY <1>0, <1>1, AloneBefore DEF InstallHandlers
  <1>2. CASE EndRound
    BY <1>2, AloneIdle DEF EndRound
  <1>3. ASSUME NEW r \in Rounds, SocketEnd(r) PROVE AloneKept
    BY <1>3, AloneIdle DEF SocketEnd
  <1>4. ASSUME NEW r \in Rounds, EvictKey(r) PROVE AloneKept
    BY <1>4, AloneIdle DEF EvictKey
  <1>5. CASE PopValidation
    BY <1>0, <1>5, AloneBefore DEF PopValidation
  <1>6. CASE MatchRound
    BY <1>0, <1>6, AloneBefore DEF MatchRound, Taken, Outstanding
  <1>7. ASSUME NEW p \in Predictions, SettleOutcome(p) PROVE AloneKept
    BY <1>0, <1>7, AloneSettle
  <1>8. ASSUME OnRoundEnd(Main) PROVE AloneKept
    BY <1>0, <1>8, AloneSubmit, AloneRegister, AlonePersist, AlonePublish, AloneFetch,
       AloneAgain, AloneHandoff
    DEF OnRoundEnd
  <1>9. ASSUME PollRoute(Main) PROVE AloneKept
    BY <1>0, <1>9, AloneBefore DEF PollRoute
  <1>10. ASSUME NEW p \in Predictions, ExpirePrediction(p) PROVE AloneKept
    BY <1>0, <1>10, AloneBefore DEF ExpirePrediction
  <1>11. CASE UNCHANGED vars
    BY <1>11, AloneIdle DEF vars
  <1>12. ASSUME NEW t \in Threads, NEW r \in Rounds, PollRound(t, r) PROVE FALSE
    BY <1>12 DEF PollRound
  <1> QED
    BY <1>0, <1>1, <1>2, <1>3, <1>4, <1>5, <1>6, <1>7, <1>8, <1>9, <1>10, <1>11, <1>12
    DEF Next, OnGameEnd

LEMMA AloneInvStep == Pollers = {} /\ IInv /\ AloneInv /\ [Next]_vars => AloneInv'
  <1> SUFFICES ASSUME Pollers = {}, IInv, AloneInv, [Next]_vars PROVE AloneInv'
    OBVIOUS
  <1>1. AloneKept
    BY AloneStep
  <1>2. IsFiniteSet(Unstored) /\ Cardinality(Unstored) <= faults /\ faults \in Nat
    BY DEF AloneInv, IInv, TypeOK, SignalTypeOK
  <1> DEFINE now == Unstored  next == Unstored'
  <1>3. IsFiniteSet(now) /\ Cardinality(now) \in Nat /\ Cardinality(now) <= faults
    BY <1>2, FS_CardinalityType
  <1> HIDE DEF now, next
  <1>4. IsFiniteSet(next) /\ Cardinality(next) <= faults'
    <2>1. CASE faults' = faults /\ next \subseteq now
      <3>1. IsFiniteSet(next) /\ Cardinality(next) \in Nat /\ Cardinality(next) <= Cardinality(now)
        BY <1>3, <2>1, FS_Subset, FS_CardinalityType
      <3> QED BY <1>2, <1>3, <2>1, <3>1
    <2>2. ASSUME faults' = faults + 1, NEW x, next \subseteq now \cup {x}
          PROVE  IsFiniteSet(next) /\ Cardinality(next) <= faults'
      <3>1. /\ IsFiniteSet(now \cup {x}) /\ Cardinality(now \cup {x}) \in Nat
            /\ Cardinality(now \cup {x}) <= Cardinality(now) + 1
        BY <1>3, FS_AddElement, FS_CardinalityType
      <3>2. /\ IsFiniteSet(next) /\ Cardinality(next) \in Nat
            /\ Cardinality(next) <= Cardinality(now \cup {x})
        BY <2>2, <3>1, FS_Subset, FS_CardinalityType
      <3> QED BY <1>2, <1>3, <2>2, <3>1, <3>2
    <2> QED BY <1>1, <2>1, <2>2 DEF AloneKept, Accounted, now, next
  <1> QED BY <1>1, <1>4 DEF AloneKept, AloneInv, next

LEMMA InitAloneInv == Init => AloneInv
  <1> SUFFICES ASSUME Init PROVE AloneInv
    OBVIOUS
  <1>1. pc[Main] = "boot" /\ registry = {} /\ outcomes = {} /\ published = {} /\ faults = 0
    BY DEF Init, Threads
  <1>2. Unstored = {}
    BY <1>1 DEF Unstored, Publishing
  <1>3. IsFiniteSet(Unstored) /\ Cardinality(Unstored) = 0
    BY <1>2, FS_EmptySet
  <1>4. FetchesItsOwn /\ SettledAreOut
    BY <1>1 DEF FetchesItsOwn, SettledAreOut, Handling
  <1> QED BY <1>1, <1>3, <1>4 DEF AloneInv

LEMMA AloneInvSafe == IInv /\ AloneInv => SignalsSafe
  <1> SUFFICES ASSUME IInv, AloneInv PROVE SignalsSafe
    OBVIOUS
  <1>1. OrderKept
    BY DEF OrderKept, PredictionBeforeOutcome, AloneInv, SettledAreOut, SignalIsOut
  <1> DEFINE out == published \ stored
             all == Unstored
  <1>2. out \subseteq all /\ IsFiniteSet(all) /\ Cardinality(all) <= faults /\ faults \in Nat
    BY DEF AloneInv, Unstored, IInv, TypeOK, SignalTypeOK
  <1> HIDE DEF out, all
  <1>3. /\ IsFiniteSet(out) /\ Cardinality(out) \in Nat /\ Cardinality(all) \in Nat
        /\ Cardinality(out) <= Cardinality(all)
    BY <1>2, FS_Subset, FS_CardinalityType
  <1>4. Cardinality(out) <= faults
    BY <1>2, <1>3
  <1>5. UnstoredAreFaults
    BY <1>4 DEF UnstoredAreFaults, out
  <1> QED BY <1>1, <1>5 DEF SignalsSafe

\* While only the main thread predicts, the signal of a prediction goes out
\* before that of its outcome unless the outbox has refused one, and a signal
\* that is out and not stored is due to a failure of its own
\* (application.hpp:287-345, 511-523).
THEOREM SignalsSafeAlone == Pollers = {} => (Spec => []SignalsSafe)
  <1> SUFFICES ASSUME Pollers = {} PROVE Spec => []SignalsSafe
    OBVIOUS
  <1>1. Init => IInv /\ AloneInv
    BY InitIInv, InitAloneInv
  <1>2. (IInv /\ AloneInv) /\ [Next]_vars => (IInv /\ AloneInv)'
    BY IInvStep, AloneInvStep
  <1> QED BY <1>1, <1>2, AloneInvSafe, PTL DEF Spec
=============================================================================
