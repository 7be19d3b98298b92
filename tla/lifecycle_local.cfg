SPECIFICATION Spec
CONSTANTS
    Requests = {r1, r2, r3}
    Ids = {i1, i2}
    Replicas = {h1}
    None = None
    MaxAge = 1
    MaxNow = 1
    Zones = {0, 1}
    LocalStorage = TRUE
    FreshIds = TRUE
    Faults = {"storage", "database", "lostReply", "crash"}
SYMMETRY Symmetry
\* requests are served once each, so every behaviour ends
CHECK_DEADLOCK FALSE
INVARIANTS
    TypeOK
    AckedFileKept
    DownloadIsUpload
    DeletedIsGone
    IInv
PROPERTIES
    ImplementsShareService
