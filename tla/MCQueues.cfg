SPECIFICATION AllSpec
CONSTANTS
  Values = {a, b, c}
  Capacity = 2
  MaxPush = 6
  Garbage = Garbage
  Producers = {p1, p2}
  Consumers = {c1, c2}
  MultiCapacity = 2
  MultiPush = 3
  Loggers = {1, 2}
  BufferSize = 3
  BlockSize = 2
  MaxLogs = 3
  MaxFailures = 2
INVARIANTS IInv NoSlotRace IndexesAgree UnclaimedIntact BytesInOrder
PROPERTIES ImplementsFifo EveryEventHandled Logged
CHECK_DEADLOCK FALSE
