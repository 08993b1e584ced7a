CONSTANTS
  Reqs = {r1, r2, r3}
  Slots = {s1, s2, s3}
  None = None
  CacheType = "hybrid"
  NumPages = 10
  MaxRunning = 2
  Budget = 4
  MaxPosition = 5
  Align = 1
  ExtraPerReq = 2
  SliceIsView = TRUE
  Workload <- ShortChats
  Vocab <- Two
  Eos = 2
  Target <- MCTarget
SPECIFICATION SpecSpec
CHECK_DEADLOCK FALSE
SYMMETRY SlotsAndReqs
INVARIANTS
  SpecTypeOK
  PageOwnership
  ContextCorrect
  StateCorrect
  DraftInSync
  OnePending
