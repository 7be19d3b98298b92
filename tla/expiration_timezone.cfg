SPECIFICATION Spec
CONSTANTS
    Requests = {r1}
    Ids = {i1}
    Replicas = {h1}
    None = None
    MaxAge = 1
    MaxNow = 2
    Zones <- West
    LocalStorage = TRUE
    FreshIds = TRUE
    Faults = {}
SYMMETRY Symmetry
\* requests are served once each, so every behaviour ends
CHECK_DEADLOCK FALSE
INVARIANTS
    AckedFileKept
