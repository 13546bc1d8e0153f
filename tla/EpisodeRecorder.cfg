SPECIFICATION Spec
CONSTANTS
    Roles = {"workspace"}
    StaleLimit = 1
    FieldLimit = 1
    RetryStart = TRUE
    ControlSlots = 2
    CameraSlots = 2
    StatusSlots = 1
    MaxEpisodes = 1
INVARIANT
    FramesAreCounted
PROPERTIES
    CommandsInOrder
    ProducerLearnsFate
CHECK_DEADLOCK FALSE
