SPECIFICATION CycleSpec
CONSTANTS
    Channels = {c1}
    MaxPos = 2
    MaxClose = 2
    DeltaLimit = 2
    MaxForce = 2
    ContactStopEnabled = TRUE
    RequireFreshForce = TRUE
    ClosureBudget = 2
    MaxClosureStep = 1
    ForceOnset = 2
    ForceRelease = 1
    MinClosingGap = 1
    MaxStallProgress = 0
    ReliefMargin = 1
    ReleaseOpenDelta = 1
    ConsecutiveSamples = 2
    TerminalReasons = {"estop"}
PROPERTIES
    ClosureBudgetHolds
    ContactStopsClosure
    ReliefIsAttempted
CHECK_DEADLOCK FALSE
