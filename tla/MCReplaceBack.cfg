CONSTANTS
    Slots = {1, 2}
    Targets = {1}
    Origins <- MCOrigins
    MaxOps = 1
    MaxTroubles = 1
SPECIFICATION ReplaceSpec
INVARIANTS FailureIsPutBack
CHECK_DEADLOCK FALSE
