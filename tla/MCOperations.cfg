SPECIFICATION MCSpec
CONSTANTS
    Hosts = {1, 2}
    Me = 1
    Bundles = {1, 2}
    SchemaOf <- MCSchemaOf
    ReadsFrom <- MCReadsFrom
    MaxJobs = 2
    MaxHitches = 2
    MaxTroubles = 2
    Slots = {1, 2}
    Targets = {1}
    Origins <- MCOrigins
    MaxOps = 2
    NHosts = {1, 2}
    Partitions = {{2}}
    Reopen = 0
    Throttle = 1
    KeepDone = 0
    HeldRetry = 1
    MaxRetry = 1
    MaxEntries = 1
    MaxEvents = 2
    MHosts = {1, 2}
    Origin = 1
    Linked = {2}
    Catching = {1, 2}
    Failing = {1}
    MaxRounds = 1
    MaxStreams = 2
    MaxSeq = 2
    MaxRecords = 2
    Page = 1
    Channel = 1
    Wire = 1
    Keep = 0
    MaxNow = 1
    MaxMeshTroubles = 1
CHECK_DEADLOCK FALSE
INVARIANTS CopiesComplete ResentForAReason 
PROPERTIES NextAfterHealthy RollbackIsHonest OldIsKept  NoMessageVanishes StoredOnce
