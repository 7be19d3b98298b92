SPECIFICATION Spec
CONSTANTS
    MaxInt64 = 63
    ChunkSize = 2
    TagLength = 16
    MaxCounter = 3
    Hour = 2
    Millisecond = 2
    HoursBelow = 10
    MaxSize = 3
    MinAge = 1
    MaxAge = 14
    defaultAdminPageSize = 1
    maxAdminPageSize = 2
    MaxFileSize = 5
    MaxLimit = 8
    MaxRows = 3
    MaxPages = 3
\* one step, from the initial state
CHECK_DEADLOCK FALSE
INVARIANTS
    RangesServed
    ContainersReadable
    DamagedContainersRefused
    AdmittedContainersFetched
    ExpirationsBounded
    LargerFilesExpireSooner
    PagesHideNothing
