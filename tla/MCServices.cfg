SPECIFICATION ServicesSpec
CONSTANTS
    p1 = p1  p2 = p2  p3 = p3  None = None
    Procs <- MCProcs
    DropAge = 3
    HoldTime = 2
    MaxWrites = 2
    MaxFaults = 1
    Hosts = {1, 2}
    MaxRuns = 3
    MaxPush = 4
    MaxErrors = 1
    Tabs = {1}
    IsEvent <- MCIsEvent
    SizeOf <- MCSizeOf
    ReplayMessages = 3
    ReplayBytes = 4
    TabQueue = 2
    Wire = 2
    MaxPublish = 5
    MaxCuts = 2
    MaxWatches = 2
    SchedHosts = {1, 2}
    Ahead <- MCAhead
    Period = 3
    Grace = 1
    KeepFor = 2
    MaxClock = 5
    MaxSlips = 2
CHECK_DEADLOCK FALSE
INVARIANTS ServicesInv MutualExclusion NoLostUpdate
PROPERTIES LeftBehindClears  HubStreams EverySlotIsTried
