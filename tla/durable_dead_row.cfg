SPECIFICATION Spec
CONSTANTS
    g1 = g1
    Rows = {r1}
    Rounds = {g1}
    Target <- OneTarget
    Loop = loop
    Drainers = {loop}
    BatchSize = 1
    MaxAttempts = 2
    ClaimStale = 1
    BaseRetry = 1
    MaxRetry = 2
    Deadline = 1
    MaxLead = 0
    AgeCap = 2
    MaxCrashes = 0
    MaxFaults = 0
    NoRow = NoRow
PROPERTY DeadStaysDead
