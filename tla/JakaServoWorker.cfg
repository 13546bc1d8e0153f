SPECIFICATION Spec
CONSTANTS
  MaxPos = 4
  Targets = {1, 4}
  MaxVelocity = 2
  MaxAcceleration = 1
  MaxJerk = 1
  AlignTolerance = 1
  MaxHoldCycles = 1
  HoldAge = 2
  MaxQueue = 2
  MaxSequence = 4
INVARIANT CleanExitReleases
PROPERTIES RestsWithoutTarget StopEndsLoop WorkerFollowsProducer
CHECK_DEADLOCK FALSE
