SPECIFICATION Spec
CONSTANTS
  PoolSize = 3
  FreeList = free
  ActiveList = active
  Intervals = {1, 2}
  LruInterval = 2
  MaxClock = 5
INVARIANT FixedInterval
