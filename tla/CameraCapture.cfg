SPECIFICATION Spec
CONSTANTS
    Capacity = 2
    Planes = 2
    MaxFrames = 6
    WarmupFrames = 1
    SyncRetries = 1
INVARIANTS
    NoTornFrame
    HandleIsTruthful
PROPERTY
    CallsEnd
CHECK_DEADLOCK FALSE
