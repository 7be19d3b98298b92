SPECIFICATION Spec
CONSTANTS
    Replicas = {r1, r2}
    Host = r1
    Versions = {v1, v2}
    Current = v1
    Files = {f1}
    defaultConfig <- Defaults
    DefaultFile <- Defaults
    EnvFile <- Comments
    StartLimitBurst = 2
    Deployments = {"systemd", "cluster"}
    Settings <- Choices
    SessionTTL = 1
    NoFile = NoFile
    Malformed = Malformed
    Partial = Partial
    None = None
    MaxNow = 1
    MaxSessions = 1
    MaxChanges = 2
    MaxCrashes = 1
\* replicas that are not wanted stay down
CHECK_DEADLOCK FALSE
INVARIANTS
    TypeOK
    SessionsShared
    EncryptedFilesServed
    ClosedLast
    InstallTakesEffect
    PurgeLeavesNothing
    ServiceStartable
PROPERTIES
    KeptUntilPurge
    ShutdownEnds
    ServiceReturns
