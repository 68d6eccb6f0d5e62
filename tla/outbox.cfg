SPECIFICATION MCSpec
CONSTANTS
    Keys = {k1, k2, k3}
    Publishers = {p1, p2}
    Workers = {w1, w2}
    Capacity = 2
    MaxAttempts = 3
    DeliveredCap = 2
    NoKey = NoKey
    NoItem = NoItem
    LeasedKeys = {k1}
    LeasedWorkers = {w1, w2, w3}
    LeasedCapacity = 1
    LeasedAttempts = 3
    Savers = {s1, s2}
    Others = {o1}
    Files = 2
    MaxFaults = 2
    Targets = {1}
    Callers = {c1, c2}
    Engine = pe
    Stamps = {1, 2}
    Slots = 2
    MaxBegins = 2
    MaxAnswers = 2
INVARIANTS
    OneCopyPerKey
    DeliveredOnce
    LeasesSafe
    SavedIfUninterrupted
    MigrationsWhole
    AnswersSafe
PROPERTIES
    ReservationReleased
    AttemptEnds
