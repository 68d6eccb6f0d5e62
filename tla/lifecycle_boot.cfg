SPECIFICATION Spec
CONSTANTS
    Predictions = {p1}
    Main = main
    Pollers = {poll}
    MaxRound = 1
    QueueCap = 1
    ResolvedCap = 1
    FeedbackCap = 1
    RegistryCap = 2
    Stamps = {s1}
    MaxFaults = 0
    MaxFull = 0
    Skip = Skip
    Absent = Absent
INVARIANT PublishedIsStored
