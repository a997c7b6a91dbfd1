SPECIFICATION FairSpec
CONSTANTS
  N = 2
  Fds = {f1, f2, f3, f4}
  NoFd = NoFd
  MaxRuns = 2
  Faults = {"calloc", "listen", "thread", "ring", "register", "enter"}
INVARIANTS RunsWithinLifetime NothingLeft SocketsClosed
PROPERTIES StopReturns PartialStartReturns
CHECK_DEADLOCK FALSE
