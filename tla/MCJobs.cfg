SPECIFICATION Spec
CONSTANTS
    j1 = j1  j2 = j2
    JobIds <- MCJobIds
    Hosts <- MCHosts
    Launches <- MCLaunches
    KeyOf <- MCKeyOf
    LocksOf <- MCLocksOf
    Checkpoint <- MCCheckpoint
    TargetOf <- MCTargetOf
    MinRole <- MCMinRole
    Quorums <- MCQuorums
    Skew <- MCSkew
    Reports <- MCReports
    Callers = {3}
    LeaseTtl = 1
    ClaimTimeout = 1
    LockTimeout = 1
    KeepFinished = 1
    MaxTime = 1
    MaxClaims = 2
SYMMETRY JobIdSymmetry
CHECK_DEADLOCK FALSE
INVARIANTS TypeOK LockExclusion UniqueKeys NoBlindRerun LeaseFence
PROPERTIES TerminalIsFinal PruneOldest
