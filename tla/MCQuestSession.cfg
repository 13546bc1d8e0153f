SPECIFICATION MCSpec
CONSTANTS
  Stale = 1
  Reacquire = 1
  SessionIds = {s1, s2}
  First = s1
  Seqs = {1, 2, 3, 4}
  RestartSeqs = {1, 2}
  IndexValues = {"low", "band", "high"}
  GripValues = {"low", "high"}
  RecoveryTimeout = 1
  Lag = 1
  MaxNow = 6
  RestartNow = 4
INVARIANTS ActiveHasReference RecoveryIsContained
PROPERTY HoldToRun
CHECK_DEADLOCK FALSE
