SPECIFICATION Spec
CONSTANTS
    Roles = {"workspace"}
    StaleLimit = 1
    FieldLimit = 1
    RetryStart = TRUE
    ControlSlots = 2
    CameraSlots = 1
    StatusSlots = 1
    MaxEpisodes = 1
INVARIANT
    ControlIsServed
CHECK_DEADLOCK FALSE
