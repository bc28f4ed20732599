SPECIFICATION Spec
CONSTANTS
  Senders = {s1, s2}
  Modes = {FALSE}
  MsgSize = 2
  MaxSends = 3
  None = None
INVARIANT QueuedIsWatched
CHECK_DEADLOCK FALSE
