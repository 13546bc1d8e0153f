SPECIFICATION Spec
CONSTANTS
    Modes = {"canonical", "async", "shadow"}
    Writes = {"both"}
    Duration = 3
    MaxSourceAge = 1
    MaxPolicyAge = 1
    MaxSourceHorizon = 1
    MaxPredictionAge = 1
    Capacity = 6
    LogCapacity = 2
    MaxTime = 4
    MaxFaults = 1
INVARIANT
    FailureEndsSafely
PROPERTIES
    CommandsAreFresh
    RunEnds
CHECK_DEADLOCK FALSE
