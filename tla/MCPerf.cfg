CONSTANTS
    Keys = {0, 1}
    CounterRange = 3
    MaxRuns = 2
    MaxMeasures = 3
    MaxCounted = 5

SPECIFICATION Spec

INVARIANTS
    EnoughSamples
    PhaseCountExact
