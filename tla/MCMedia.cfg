SPECIFICATION FairSpec
CONSTANTS
    b1 = b1
    b2 = b2
    None = None
    Videos = {v1, v2}
    Ready = {}
    Concurrency = 1
    QueueCap = 1
    ActiveBucket = b2
    Buckets = {b1, b2}
    BackendOf <- MCBackendOf
    InitialBucket = b1
    Jobs = {j1, j2}
    AskedScopes = {{"uploads", "media"}, {"media"}}
    MaxFaults = 1
    MaxEvents = 4
INVARIANTS
    TypeOK
    CompletedMeansCopied
    MigrationsAreRun
PROPERTIES
    UploadsFinish
CHECK_DEADLOCK FALSE
