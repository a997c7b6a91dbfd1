SPECIFICATION Spec
CONSTANTS
  Clients = {k1, k2, k3}
  Conns = {c1, c2}
  Slots = {s1, s2}
  Nobody = Nobody
  NoConn = NoConn
  NoSlot = NoSlot
  QueueDepth = 4
  CqeBatch = 2
  FreelistWarm = 1
  StaticReply = FALSE
  Faults = {"register", "malloc", "accept"}
SYMMETRY WorkerSymmetry
INVARIANTS RepliesReachTheirPeer NoExhaustion DescriptorsAccounted NeverDeaf
PROPERTIES ServesContract
CHECK_DEADLOCK FALSE
