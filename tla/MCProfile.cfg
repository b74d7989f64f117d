CONSTANTS
    N = 2
    ChannelSize = 1
    MaxLines = 2
    MaxRuns = 2
    Faults <- AllFaults

SPECIFICATION Spec

INVARIANTS
    TypeOK
    PhasesAligned
    RetrieveHasTwoSnapshots
    NeverMisaligned
    SendErrorSurfaced
    SuccessMeansAllJoined
    SourcesReusable
    AbandonedSourceJoined

PROPERTIES
    FirstMeasureSubmitted
    CallsSourcesInOrder
    ImplementsPhaseProfiling
