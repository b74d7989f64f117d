CONSTANTS
    Arguments <- MCArguments
    Unavailable <- MCUnavailable
    MetricNames <- MCMetricNames
    NamedBefore <- MCNamedBefore
    MaxPhases = 2

SPECIFICATION Spec

INVARIANTS
    Precedence
    FileIsOverrides
    SourcesAsAsked
    UnknownKeysStop
    OnlyNamedFilesTouched
    SuccessTellsEverything
