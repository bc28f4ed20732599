SPECIFICATION AllSpec
CONSTANTS
  MaxHeader = 60
  MaxBody = 3
  Room = 24
  FieldRoom = 9
  Big = 2
  Requests <- HttpRequests
  Replies <- HttpReplies
  Cuts = {0, 1, 9}
  MaxRequests = 2
  Radix = 8
  Fields = {1, 2, 4}
  Offsets = {0, 1}
  Lengths = {0, 1, 2, 3, 4, 6}
  FixedLength = 3
  MaxLength = 5
  MaxMessages = 3
  Bits = 17
  Zero = 48
  Sizes = {0, 1, 3, 4, 5, 6, 7}
  MemorySizes <- SizesOfEveryCase
  PoolSize = 3
  FreeList = free
  ActiveList = active
  Intervals = {1, 2}
  LruInterval = 2
  MaxClock = 5
  ByteBuffers = {b1, b2}
  SharedBuffers = {s1, s2}
  Blocks = {k1, k2, k3}
  Bytes = {"x", "y"}
  BufferSizes = {1, 2}
  None = none
  MaxCalls = 5
INVARIANTS Exchanged Delivered Converted Moved ListsIntact BuffersHold
PROPERTIES NoneLate
CHECK_DEADLOCK FALSE
