SPECIFICATION MCSpec
CONSTANTS
    Predictions = {p1, p2}
    Main = main
    Pollers = {poll}
    MaxRound = 2
    QueueCap = 1
    ResolvedCap = 1
    FeedbackCap = 1
    RegistryCap = 2
    Stamps = {s1, s2}
    MaxFaults = 0
    MaxFull = 0
    Skip = Skip
    Absent = Absent
    AlonePredictions = {p1, p2, p3}
    AloneRegistryCap = 1
    AloneStamps = {s}
    AloneFaults = 1
    AloneFull = 1
    Ids = {1, 2}
    Mults = {0, 150, 250}
    Elapsed = {5}
    DupCap = 2
    RouterCap = 1
    IntakeQueueCap = 1
    MaxFrames = 4
SYMMETRY Symmetry
INVARIANTS
    MatchedOnce
    FeedbackOnce
    NoneLeftBehind
    AloneSignalsSafe
    EndsSafe
    RecordsKept
