SPECIFICATION FairSpec
CONSTANTS
    Requests = {r1, r2}
    Ids = {i1, i2}
    Replicas = {h1}
    None = None
    MaxAge = 1
    MaxNow = 2
    Zones = {0}
    LocalStorage = FALSE
    FreshIds = TRUE
    Faults = {"storage", "database", "timeout", "lostReply", "crash"}
\* requests are served once each, so every behaviour ends
CHECK_DEADLOCK FALSE
PROPERTIES
    ExpiredFileRemoved
