CONSTANTS
    Levels = {1}
    MaxTime = 3
    MaxRuns = 1
    MaxMeasures = 3
    MaxSamples = 2
    Modulus = 16

SPECIFICATION Spec

INVARIANT EstimateBounded
