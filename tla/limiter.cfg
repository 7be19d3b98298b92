SPECIFICATION Spec
CONSTANTS
    Requests = {r1, r2, r3}
    Clients = {k1}
    Replicas = {h1, h2}
    Clustered = {TRUE, FALSE}
    Middlewares = {"RateLimit", "RateLimitFailedLogins"}
    Actions = {"block", "throttle", "none"}
    None = None
    Burst = 1
    Period = 1
    BlockDuration = 1
    maxBackoffFactor = 1
    MaxDuration = 1000000
    maxBlockDuration = 1000
    visitorTTL = 1
    cleanupInterval = 1
    Faults = {"redis"}
    MaxNow = 2
SYMMETRY Symmetry
\* requests are answered and the clock ends
CHECK_DEADLOCK FALSE
INVARIANTS
    TypeOK
    BlockKept
    BudgetKept
    OffensesExpire
PROPERTIES
    BlockNotShortened
