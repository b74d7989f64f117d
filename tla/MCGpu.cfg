CONSTANTS
    Levels = {1, 2}
    MaxTime = 2
    MaxRuns = 2
    MaxMeasures = 3
    MaxSamples = 2
    Modulus = 16

SPECIFICATION Spec

INVARIANTS
    EnergyPhaseExact
    BoundarySampled
    NoLateStore
