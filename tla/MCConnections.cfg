SPECIFICATION AllSpec
CONSTANTS
  MaxChunks = 2
  PerChunk = 1
  MaxConns = 3
  MaxFds = 3
  MaxOpens = 3
INVARIANTS HandlersOwned ClosedForCause ClientConsistent
PROPERTIES FailedIsClosed Reconnects
CHECK_DEADLOCK FALSE
