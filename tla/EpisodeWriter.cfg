SPECIFICATION Spec
CONSTANTS
    Formats = {"staging", "raw", "canonical"}
    Roles = {"workspace", "wrist"}
    Capacity = 1
    BatchSize = 2
    MaxEpisodes = 2
    MaxRows = 2
    MaxFaults = 1
    MaxSessions = 2
INVARIANT
    EpisodeIsAccounted
PROPERTIES
    ImplementsStore
    TerminalAnswered
CHECK_DEADLOCK FALSE
