CONSTANTS
    MaxEnergy = 5
    MaxRuns = 1
    MaxMeasures = 3
    MaxConsumed = 3

SPECIFICATION Spec

INVARIANTS
    EnergyBetweenSnapshots
