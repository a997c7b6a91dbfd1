SPECIFICATION TreatFairSpec
CONSTANTS
  Clients = {k1, k2}
  Conns = {c1, c2}
  Slots = {s1, s2}
  Nobody = Nobody
  NoConn = NoConn
  NoSlot = NoSlot
  QueueDepth = 2
  CqeBatch = 2
  FreelistWarm = 1
  StaticReply = TRUE
  Faults = {"register", "accept"}
INVARIANT AnsweredOnce
PROPERTY AllPeersServed
CHECK_DEADLOCK FALSE
