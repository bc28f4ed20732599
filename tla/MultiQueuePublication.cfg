SPECIFICATION Spec
CONSTANTS
  Producers = {p1, p2}
  Consumers = {c1, c2}
  Kinds <- OnlyMPSC
  Capacity = 2
  MaxPush = 3
INVARIANTS HandlerSeesOwnEvent
