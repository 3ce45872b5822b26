SPECIFICATION FairSpec
CONSTANTS
    Newest = 3
    BranchOf <- MCForked
    Volumes = {1, 2}
    MaxLineage = 2
    MaxPulls = 3
    MaxReads = 1
    MaxFaults = 1
CHECK_DEADLOCK FALSE
INVARIANTS   StreamedStays
PROPERTIES  CutPruneIsFinished
