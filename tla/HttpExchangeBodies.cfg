SPECIFICATION Spec
CONSTANTS
  MaxHeader = 60
  MaxBody = 3
  Room = 24
  FieldRoom = 9
  Big = 2
  Requests <- HttpRequests
  Replies <- HttpReplies
  Cuts = {0, 1, 9}
  MaxRequests = 2
INVARIANT ReplyBodies
CHECK_DEADLOCK FALSE
