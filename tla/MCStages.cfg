SPECIFICATION AllSpec
CONSTANTS
  Values = {e1, e2, quit}
  Producers = {p1, p2, closer}
  Consumer = stage
  Closer = closer
  Quit = quit
  Signal = TRUE
  Capacity = 2
  MaxCalls = 3
  None = None
  Threads = 2
  QueueSize = 4
  BatchSizes = {1, 2}
  Powers = {2, 4}
  MaxEvents = 3
INVARIANTS StageInv Accounted EventsInOrder
PROPERTIES ImplementsFifo ImplementsMailbox Closes
CHECK_DEADLOCK FALSE
