SPECIFICATION HubSpec
CONSTANTS
    Tabs = {1}
    IsEvent <- MCIsEvent
    SizeOf <- MCSizeOf
    ReplayMessages = 3
    ReplayBytes = 4
    TabQueue = 2
    Wire = 2
    MaxPublish = 5
    MaxCuts = 2
    MaxWatches = 0
CHECK_DEADLOCK FALSE
PROPERTIES MissedIsReplayed
