SPECIFICATION FairFleetSpec
CONSTANTS
  N = 3
  Peers = {k1, k2}
  FleetFaults = {"setup", "listen", "thread", "ring", "enter"}
INVARIANTS EverySocketHasThread ResetMeansAllDead
PROPERTY OnlyDeadWorkersStrand
CHECK_DEADLOCK FALSE
