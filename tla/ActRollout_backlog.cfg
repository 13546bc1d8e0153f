SPECIFICATION Spec
CONSTANTS
    Modes = {"async"}
    Writes = {"both"}
    Duration = 3
    MaxSourceAge = 1
    MaxPolicyAge = 1
    MaxSourceHorizon = 1
    MaxPredictionAge = 1
    Capacity = 6
    LogCapacity = 2
    MaxTime = 4
    MaxFaults = 0
INVARIANT
    NoStaleCommand
CHECK_DEADLOCK FALSE
