----------------------------- MODULE EngineParts -----------------------------
(***************************************************************************)
(* The entry gate, and beside it, each with variables of its own, the      *)
(* online statistics, the frame codec and the scenarios.                   *)
(***************************************************************************)
EXTENDS EntryGate, Sequences

CONSTANTS
    Samples, Points, WindowCap, Bins, StoreKeys, Scale, MaxAdds,
    Groups, ShortLen, LenRadix, CodecIds, CodecMults, CodecElapsed, Hashes,
    Batch, ScenDupCap, ScenRouterCap, ScenQueueCap, ScenFrames

ASSUME OnlineAssumption ==
    /\ Samples \subseteq Int /\ Points \subseteq Int
    /\ WindowCap \in Nat \ {0} /\ Bins \in Nat \ {0}
    /\ MaxAdds \in Nat /\ Scale \in Nat \ {0}
    /\ \A k \in 1 .. MaxAdds : Scale % k = 0

\* The filter remembers more frames than a scenario has progress frames.
ASSUME ScenAssumption ==
    /\ Batch \in Nat \ {0} /\ ScenRouterCap \in Nat \ {0} /\ ScenQueueCap \in Nat \ {0}
    /\ ScenDupCap \in Nat /\ ScenDupCap > 12

VARIABLES
    family, adds, data, store, counts, n, mean, m2, reader, cleared,
    stage, message, bytes, cut,
    scenMode, scenFrames, scenAdvised, scenDupes, scenRounds, scenCurrent,
    scenKeys, scenToValidation, scenToPrediction, scenDraining, scenValues,
    scenStreak, scenSettled, scenFirst, scenReopened, scenDupForgot,
    scenKeyForgot, scenLost, slot, steps

Online == INSTANCE OnlineWindows WITH Cap <- WindowCap, Keys <- StoreKeys
Codec == INSTANCE FrameCodec WITH Ids <- CodecIds, Mults <- CodecMults, Elapsed <- CodecElapsed
Scen == INSTANCE Scenarios WITH Ids <- 1 .. Batch, Mults <- {0}, Elapsed <- {0},
    DupCap <- ScenDupCap, RouterCap <- ScenRouterCap,
    QueueCap <- ScenQueueCap, MaxFrames <- ScenFrames,
    mode <- scenMode, frames <- scenFrames, advised <- scenAdvised,
    dupes <- scenDupes, rounds <- scenRounds, current <- scenCurrent,
    keys <- scenKeys, toValidation <- scenToValidation,
    toPrediction <- scenToPrediction, draining <- scenDraining,
    values <- scenValues, streak <- scenStreak, settled <- scenSettled,
    first <- scenFirst, reopened <- scenReopened, dupForgot <- scenDupForgot,
    keyForgot <- scenKeyForgot, lost <- scenLost

\* Numbers take 10 groups at most, and the length of a packet with a hash takes
\* at most 8 digits in a frame.
ASSUME CodecAssumption ==
    /\ Groups \in Nat \ {0} /\ ShortLen \in 1 .. 126 /\ LenRadix \in Nat \ {0}
    /\ CodecIds \cup CodecMults \cup CodecElapsed \subseteq Nat
    /\ \A m \in CodecIds \cup CodecMults \cup CodecElapsed : Codec!Shifted(m, 128)[10] = 0
    /\ Hashes \subseteq Seq(0 .. 255)
    /\ \A h \in Hashes \cup {<<>>} :
        /\ Codec!Shifted(Len(h), 128)[10] = 0
        /\ \A l \in 0 .. Len(h) + 64 : Codec!Shifted(l, LenRadix)[8] = 0

onlineVars == <<family, adds, data, store, counts, n, mean, m2, reader,
    cleared>>
codecVars == <<stage, message, bytes, cut>>
scenVars == <<scenMode, scenFrames, scenAdvised, scenDupes, scenRounds,
    scenCurrent, scenKeys, scenToValidation, scenToPrediction, scenDraining,
    scenValues, scenStreak, scenSettled, scenFirst, scenReopened,
    scenDupForgot, scenKeyForgot, scenLost, slot, steps>>
engineVars == <<gateVars, onlineVars, codecVars, scenVars>>

-----------------------------------------------------------------------------

(* Means, scans, reads, bins and running moments are those of the samples  *)
(* (the families of prediction/online).                                    *)
FamiliesSound == Online!FamiliesSound

(* A message that arrives whole is decoded to what was sent, one that was  *)
(* cut carries no wrong number, and the parsers agree.                     *)
Understood == Codec!Understood

(* A replayed scenario settles its round once (EventEngine).               *)
ReplayCountsOnce == Scen!ReplayCountsOnce

=============================================================================
