SPECIFICATION MCSpec
CONSTANTS
    g1 = g1
    Rows = {r1, r2}
    Rounds = {g1}
    Target <- OneTarget
    Loop = loop
    Drainers = {loop, main}
    BatchSize = 2
    MaxAttempts = 2
    ClaimStale = 1
    BaseRetry = 1
    MaxRetry = 2
    Deadline = 1
    MaxLead = 0
    AgeCap = 2
    MaxCrashes = 1
    MaxFaults = 1
    NoRow = NoRow
INVARIANTS
    TypeOK
    ExclusiveSend
PROPERTIES
    OneRowSettles
