CONSTANTS
    MaxEnergy = 3
    MaxRuns = 2
    MaxMeasures = 3
    MaxConsumed = 4

SPECIFICATION FairSpec

INVARIANTS
    PhaseEnergyExact
    EnergyConserved
    BoundaryKept

PROPERTIES
    MeasureEnds
