SPECIFICATION MainSpec
CONSTANTS
  ThreadArgs <- MCThreadArgs
  ConnArgs <- MCConnArgs
  HBUCKETS = 2
  Q50 = 500
  Q99 = 670
  Q999 = 840
  MaxPerThread = 2
  MainFaults = {"host", "thread"}
INVARIANTS SharesCoverTarget ReportComplete PercentilesRight
CHECK_DEADLOCK FALSE
