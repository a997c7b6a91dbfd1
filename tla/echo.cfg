SPECIFICATION EchoFairSpec
CONSTANTS
  N = 2
  Fds = {f1, f2}
  NoFd = NoFd
  MaxRuns = 1
  Faults = {"calloc", "listen", "thread", "ring", "enter"}
  Peers = {k1, k2}
  MaxSignals = 2
INVARIANT ResetHasCause
PROPERTIES SignalEndsMain BacklogIsServedOrReset
CHECK_DEADLOCK FALSE
