SPECIFICATION Spec
CONSTANTS
  Clients = {k1, k2}
  Conns = {c1, c2}
  Slots = {s1, s2}
  Nobody = Nobody
  NoConn = NoConn
  NoSlot = NoSlot
  QueueDepth = 4
  CqeBatch = 2
  FreelistWarm = 1
  StaticReply = FALSE
  Faults = {}
INVARIANT RepliesCarryTheirBytes
CHECK_DEADLOCK FALSE
