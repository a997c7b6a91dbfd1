SPECIFICATION Spec
CONSTANTS
  Clients = {k1, k2}
  Conns = {c1, c2}
  Slots = {s1, s2}
  Nobody = Nobody
  NoConn = NoConn
  NoSlot = NoSlot
  QueueDepth = 2
  CqeBatch = 2
  FreelistWarm = 1
  StaticReply = FALSE
  Faults = {"nomultishot", "ring", "register", "malloc", "submit", "accept", "send", "short"}
SYMMETRY WorkerSymmetry
INVARIANTS TypeOK ConnOwnership DescriptorExclusive NeverArmedTwice
CHECK_DEADLOCK FALSE
