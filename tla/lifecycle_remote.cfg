SPECIFICATION Spec
CONSTANTS
    Requests = {r1, r2, r3}
    Ids = {i1}
    Replicas = {h1, h2}
    None = None
    MaxAge = 1
    MaxNow = 2
    Zones = {0, 1}
    LocalStorage = FALSE
    FreshIds = TRUE
    Faults = {"database", "timeout", "crash"}
SYMMETRY Symmetry
\* requests are served once each, so every behaviour ends
CHECK_DEADLOCK FALSE
INVARIANTS
    AckedFileKept
    DownloadIsUpload
    DeletedIsGone
    NoOrphans
