SPECIFICATION MCSpec
CONSTANTS
    Values = {v1, v2, v3}
    Producers = {p1}
    Slots = 4
    NoValue = NoValue
    MpscValues = {v1, v2}
    MpscProducers = {p1, p2}
    Cells = 2
    MaxPos = 6
    Tasks = {1, 2, 3}
    Submitters = {s1, s2}
    N = 2
    TaskCap = 1
    Items = {i1, i2, i3}
    BatchSize = 2
    BatchCap = 2
    Nothing = Nothing
    Threads = {t1, t2, t3}
    Connections = 2
    MaxMade = 5
INVARIANTS
    RunOnceIfAccepted
    ItemsSafe
    PoolSound
PROPERTIES
    IsFifo
    MpscIsFifo
    QueuesGoOn
