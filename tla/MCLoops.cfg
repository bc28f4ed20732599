SPECIFICATION AllSpec
CONSTANTS
  Timers = {t1, t2}
  CycleTimers = {t1}
  Intervals = {1, 2}
  Timeout = 2
  HasTimeout = TRUE
  MaxLag = 1
  Handlers = {1, 2}
  MaxFd = 3
  MaxSize = 3
  MaxAdds = 2
INVARIANTS ListsHold SetsAgree NeverFreed SleepsWhenIdle
PROPERTIES CancelledIsSilent Fires
CHECK_DEADLOCK FALSE
