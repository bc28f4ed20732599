SPECIFICATION FairSpec
CONSTANTS
  MaxConns = 2
  MaxOpens = 1
PROPERTY ConnectSuccess
CHECK_DEADLOCK FALSE
