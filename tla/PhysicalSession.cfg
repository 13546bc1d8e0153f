SPECIFICATION Spec
CONSTANTS
    Stages = {"bounded", "combined"}
    Formats = {"none", "staging", "canonical"}
    LogCapacity = 1
    MaxTicks = 2
    MaxFaults = 2
INVARIANT
    ReportIsTruthful
PROPERTIES
    SafeFromStartToEnd
    RunEnds
CHECK_DEADLOCK FALSE
