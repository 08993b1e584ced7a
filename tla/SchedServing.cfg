CONSTANTS
  Reqs = {r1, r2, r3}
  Slots = {s1, s2}
  None = None
  CacheType = "hybrid"
  NumPages = 7
  MaxRunning = 2
  Budget = 3
  MaxPosition = 5
  Align = 1
  ExtraPerReq = 0
  SliceIsView = TRUE
  Workload <- Turns
  Vocab <- Two
  Eos = 2
SPECIFICATION FairSpec
PROPERTIES
  Served
  KeepsPromise
