CONSTANTS
    Hosts = {1, 2}
    Appliances = {1}
    Delinquent = {}
    Freeze = "wanted"
    MaxPits = 1
    LastMove = 1
    MaxTroubles = 1
SPECIFICATION CaptureSpec
INVARIANTS ThawIsSure
CHECK_DEADLOCK FALSE
