SPECIFICATION Spec
CONSTANTS
    Channels = {c1}
    MaxPos = 1
    MaxClose = 1
    DeltaLimit = 1
    MaxForce = 1
    ContactStopEnabled = TRUE
    RequireFreshForce = FALSE
    ClosureBudget = 1
    MaxClosureStep = 1
    ForceOnset = 1
    ForceRelease = 0
    MinClosingGap = 1
    MaxStallProgress = 0
    ReliefMargin = 1
    ReleaseOpenDelta = 1
    ConsecutiveSamples = 2
    TerminalReasons = {"estop","transport"}
    MaxSequence = 2
    StaleDropEnabled = TRUE
    ReadTimeouts = FALSE
PROPERTIES
    HandObeysProducer
    ShutdownIsFinal
    WorkerEnds
CHECK_DEADLOCK FALSE
