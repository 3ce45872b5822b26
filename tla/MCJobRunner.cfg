SPECIFICATION RunnerSpec
CONSTANTS
    j1 = j1
    JobIds <- MCOneJob
    Hosts <- MCHosts
    Launches <- OneLaunch
    KeyOf <- OneKey
    LocksOf <- OneLock
    Checkpoint <- OneLaunch
    TargetOf <- OneTarget
    MinRole <- OneRole
    Quorums <- MCQuorums
    Skew <- NoSkew
    Reports <- MCReports
    Callers = {2}
    LeaseTtl = 1
    ClaimTimeout = 1
    LockTimeout = 0
    KeepFinished = 1
    MaxTime = 1
    MaxClaims = 2
    ScriptEnds = {"completed"}
    MaxFaults = 2
CHECK_DEADLOCK FALSE
INVARIANTS RunnerInv SingleScript ReportedIsTrue
