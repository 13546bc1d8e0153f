SPECIFICATION Spec
CONSTANTS
  Stale = 1
  Reacquire = 1
  SessionIds = {s1}
  Seqs = {1,2,3,4}
  IndexValues = {"low","band","high"}
  GripValues = {"low"}
  RecoveryTimeout = 1
  Lag = 1
  MaxNow = 7
PROPERTY RecoveryKeepsHeartbeat
CHECK_DEADLOCK FALSE
