CONSTANTS
    N = 2
    ChannelSize = 1
    MaxLines = 1
    MaxRuns = 1
    Faults <- RunFaults

SPECIFICATION FairSpec

PROPERTIES
    ProfileReturns
    AbandonedWorkersEnd
