SPECIFICATION FairSpec
CONSTANTS
    Replicas = {h1, h2, h3}
    Sessions = {s1, s2, s3}
    None = None
    Faults = {"error", "sessionLoss", "crash"}
INVARIANTS
    TypeOK
    PoolHoldsNoLock
    CyclesSerialized
    LockInv
PROPERTIES
    ImplementsCycleLocker
    LockComesFree
    CyclesGoOn
