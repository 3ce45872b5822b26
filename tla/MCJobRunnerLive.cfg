SPECIFICATION FairSpec
CONSTANTS
    j1 = j1
    JobIds <- MCOneJob
    Hosts <- MCHosts
    Launches <- OneLaunch
    KeyOf <- OneKey
    LocksOf <- OneLock
    Checkpoint = {}
    TargetOf <- OneTarget
    MinRole <- OneRole
    Quorums <- MCQuorums
    Skew <- FastSecond
    Reports = {}
    Callers = {3}
    LeaseTtl = 1
    ClaimTimeout = 1
    LockTimeout = 0
    KeepFinished = 1
    MaxTime = 1
    MaxClaims = 1
    ScriptEnds = {"completed", "failed", "cancelled"}
    MaxFaults = 2
CHECK_DEADLOCK FALSE
PROPERTIES NoJobStaysBehind ForcedCancelArrives
