SPECIFICATION Spec
CONSTANTS
    Channels = {c1}
    MaxPos = 2
    MaxClose = 2
    DeltaLimit = 1
    MaxForce = 0
    ContactStopEnabled = FALSE
    RequireFreshForce = FALSE
    ClosureBudget = 1
    MaxClosureStep = 1
    ForceOnset = 2
    ForceRelease = 1
    MinClosingGap = 1
    MaxStallProgress = 0
    ReliefMargin = 1
    ReleaseOpenDelta = 1
    ConsecutiveSamples = 2
    TerminalReasons = {"estop", "transport"}
    MaxSequence = 3
    StaleDropEnabled = TRUE
    ReadTimeouts = FALSE
PROPERTY ActivationIsExact
CHECK_DEADLOCK FALSE
