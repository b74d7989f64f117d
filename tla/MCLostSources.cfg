CONSTANTS
    N = 1
    ChannelSize = 1
    MaxLines = 1
    MaxRuns = 2
    Faults <- OutputWriteFault

SPECIFICATION Spec

INVARIANTS
    NoSourceMeansNoneAdded
