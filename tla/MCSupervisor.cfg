SPECIFICATION FairSpec
CONSTANTS
    MaxRequests = 2
    MaxEmits = 3
    FlushEvents = 2
    BreaksProtocol = TRUE
CHECK_DEADLOCK FALSE
INVARIANTS SupervisorInv AnswersMeetTheirRequest OutcomeHonest
PROPERTIES CancelsEnd
