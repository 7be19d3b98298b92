SPECIFICATION Spec
CONSTANTS
    Requests = {r1, r2, r3, r4}
    Clients = {k1}
    Replicas = {h1}
    Clustered = {FALSE}
    Middlewares = {"RateLimitFailedLogins"}
    Actions = {"block"}
    None = None
    Burst = 2
    Period = 2
    BlockDuration = 1
    maxBackoffFactor = 32
    MaxDuration = 1000000
    maxBlockDuration = 1000
    visitorTTL = 1
    cleanupInterval = 1
    Faults = {}
    MaxNow = 3
SYMMETRY Symmetry
\* requests are answered and the clock ends
CHECK_DEADLOCK FALSE
INVARIANTS
    BudgetKept
