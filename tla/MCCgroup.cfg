CONSTANTS
    Levels = {1, 2}
    MaxChanges = 2
    MaxRuns = 2
    MaxMeasures = 3

SPECIFICATION Spec

INVARIANTS
    PhaseExact
    BoundaryWithinBounds
    

PROPERTIES
    NoCgroupLeft
