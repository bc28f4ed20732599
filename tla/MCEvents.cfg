SPECIFICATION AllSpec
CONSTANTS
  Values = {e, quit}
  Producers = {p1, p2}
  Consumer = loop
  Stopper = stopper
  Quit = quit
  Capacity = 2
  MaxCalls = 3
  None = None
  Senders = {s1, s2}
  NoSender = NoSender
  Modes = {TRUE, FALSE}
  MsgSize = 2
  MaxSends = 3
  Addresses = {1, 2}
  Iovecs = 2
  Threads = 2
  MaxOpens = 3
  MaxErrors = 1
INVARIANTS WakeupArmed InOrder LoopThreadSendsAreWatched Accounted Watched
  ClosedIsQuiet
PROPERTIES EveryEventHandled StopEnds
CHECK_DEADLOCK FALSE
