CONSTANTS
  Reqs = {r1, r2}
  Slots = {}
  None = None
  CacheType = "radix"
  NumPages = 6
  MaxRunning = 2
  Budget = 3
  MaxPosition = 8
  Align = 4
  ExtraPerReq = 0
  SliceIsView = TRUE
  Workload <- Greedy
  Vocab <- Two
  Eos = 2
SPECIFICATION FairSpec
PROPERTY
  WorkBuildsBatch
