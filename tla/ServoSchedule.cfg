SPECIFICATION ScheduleSpec
CONSTANTS
  Period = 4
  PeriodSlack = 1
  WakeSlack = 2
  GraceCycles = 2
  MaxTime = 36
INVARIANT TimelineAdvances
PROPERTY OneDelayIsTolerated
CHECK_DEADLOCK FALSE
