SPECIFICATION Spec
CONSTANTS
    MaxRequests = 2
    MaxEmits = 3
    FlushEvents = 2
    BreaksProtocol = TRUE
CHECK_DEADLOCK FALSE
INVARIANT ForcedIsKilled
