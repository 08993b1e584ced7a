CONSTANTS
  Reqs = {r1, r2, r3, r4}
  Slots = {}
  None = None
  CacheType = "radix"
  NumPages = 6
  MaxRunning = 2
  Budget = 3
  MaxPosition = 6
  Align = 1
  ExtraPerReq = 0
  SliceIsView = TRUE
  Workload <- Branches
  Vocab <- Two
  Eos = 2
SPECIFICATION Spec
SYMMETRY AnyReqs
INVARIANT
  ReqsWellFormed
PROPERTY
  WorkBuildsBatch
