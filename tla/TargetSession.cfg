SPECIFICATION TargetSpec
CONSTANTS
    MaxQ = 6
    SafeLow = 1
    SafeHigh = 5
    Zone = 2
    SeedStep = 1
    IkTolerance = 1
    MaxTargetJump = 3
    MaxTargetStep = 2
    MaxJointJump = 1
    MaxDisplacement = 4
    RiskFrom = 1
    RecoverRisk = 0
    SlowRisk = 2
    HardRisk = 3
    Hysteresis = 1
    Contact = {2}
    Multibranch = TRUE
    MaxBacktracks = 1
    MinStep = 0
    Engagements = 2
    MaxTicks = 3
PROPERTIES OnlyVettedTargets FollowsMeasuredArm TickEnds
CHECK_DEADLOCK FALSE
