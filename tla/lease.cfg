SPECIFICATION MCSpec
CONSTANTS
    Workers = {w1, w2}
    LeaseTtl = 2
    RenewInterval = 1
    MaxFaults = 1
    NoWorker = NoWorker
    Events = {1, 2, 3, 4}
    Admitters = {"a", "b"}
    HoldCapacity = 2
    Components = {"a", "b", "c", "d"}
    Order <- SomeOrder
    MaxRuns = 3
INVARIANTS
    OwnerKnowsEpoch
    NoneForgotten
    OrderedAndWhole
PROPERTIES
    LeaseKept
    SplitHeals
