------------------------------- MODULE MCEngine -------------------------------
(***************************************************************************)
(* The components of MCSocket and of EngineParts, each by itself.  A       *)
(* behaviour is about the component that subject names; the others stay in *)
(* their initial states, in which none of their fair actions is enabled.   *)
(***************************************************************************)
EXTENDS MCSocket, EngineParts

\* Values of the run.
SomeSamples == {-2, 0, 1, 7}
SomeHashes == {<<>>, <<1, 2>>}
SomePoints == {-100, 0, 199, 200, 500}

\* The parameters of the run are within the theorem EdgeFollowsOutcomes.
ASSUME CalibrationHolds == Calibrated

EngineInit ==
    /\ subject \in {"socket", "history", "gate", "online", "codec", "scenarios"}
    /\ SocketInit
    /\ GateInit /\ (subject # "gate" => mode = "Quality")
    /\ Online!Init /\ (subject # "online" => family = "window")
    /\ Codec!Init
    /\ Scen!ReplayInit

EngineNext ==
    \/ SocketNext /\ UNCHANGED engineVars
    \/ /\ subject = "gate" /\ GateNext
       /\ UNCHANGED <<subject, socketVars, onlineVars, codecVars, scenVars>>
    \/ /\ subject = "online" /\ Online!Next
       /\ UNCHANGED <<subject, socketVars, gateVars, codecVars, scenVars>>
    \/ /\ subject = "codec" /\ Codec!Next
       /\ UNCHANGED <<subject, socketVars, gateVars, onlineVars, scenVars>>
    \/ /\ subject = "scenarios" /\ Scen!ReplayStep
       /\ UNCHANGED <<subject, socketVars, gateVars, onlineVars, codecVars>>
    \* All of these may come to an end.
    \/ UNCHANGED <<subject, socketVars, engineVars>>

EngineSpec ==
    /\ EngineInit /\ [][EngineNext]_<<subject, socketVars, engineVars>>
    /\ SocketFairness

=============================================================================
