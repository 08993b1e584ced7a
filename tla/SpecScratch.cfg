CONSTANTS
  Reqs = {r1, r2, r3}
  Slots = {s1, s2, s3}
  None = None
  CacheType = "hybrid"
  NumPages = 14
  MaxRunning = 1
  Budget = 8
  MaxPosition = 14
  Align = 1
  ExtraPerReq = 1
  SliceIsView = TRUE
  Workload <- Turns
  Vocab <- Two
  Eos = 2
  Target <- MCTarget
SPECIFICATION SpecSpec
SYMMETRY SlotsAndReqs
INVARIANT
  DryPoolSurvived
