SPECIFICATION FairSpec
CONSTANTS
  Timers = {t1}
  CycleTimers = {}
  Intervals = {1}
  Timeout = 0
  HasTimeout = FALSE
  MaxLag = 1
PROPERTY Fires
CHECK_DEADLOCK FALSE
