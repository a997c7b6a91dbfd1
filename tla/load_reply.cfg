SPECIFICATION FairSpec
CONSTANTS
  Conns = {c1, c2}
  Configs <- SmallConfigs
  MAX_INFLIGHT = 2
  REQ_LEN = 1
  REPLY_LEN = 2
  HBUCKETS = 1
  HUS_PER = 1
  PctBase = 2
  DrainTime = 1
  EventBatch = 2
  MaxTime = 4
  MaxStarts = 3
INVARIANT SampledAreExact
CHECK_DEADLOCK FALSE
