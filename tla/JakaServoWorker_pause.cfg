SPECIFICATION Spec
CONSTANTS
  MaxPos = 2
  Targets = {0, 1, 2}
  MaxVelocity = 1
  MaxAcceleration = 1
  MaxJerk = 1
  AlignTolerance = 1
  MaxHoldCycles = 1
  HoldAge = 2
  MaxQueue = 2
  MaxSequence = 4
PROPERTY PauseIsHonoured
CHECK_DEADLOCK FALSE
