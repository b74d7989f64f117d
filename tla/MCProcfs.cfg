CONSTANTS
    Root = root
    Children = {child}
    Sizes = {1}
    MaxIo = 1
    MaxRuns = 1
    MaxMeasures = 2

SPECIFICATION FairSpec

INVARIANTS
    RootDetected
    PhaseBounded

PROPERTIES
    ChildDetected
    JoinEnds
