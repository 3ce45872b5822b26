CONSTANTS
    Hosts = {1, 2}
    Appliances = {1}
    Delinquent = {}
    Freeze = "wanted"
    MaxPits = 3
    LastMove = 2
    MaxTroubles = 1
SPECIFICATION CaptureSpec
CHECK_DEADLOCK FALSE
INVARIANTS  HeadStaysABase WalkReachesAncestors
