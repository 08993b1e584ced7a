CONSTANTS
  Reqs = {r1, r2}
  Slots = {}
  None = None
  CacheType = "radix"
  NumPages = 10
  MaxRunning = 2
  Budget = 8
  MaxPosition = 9
  Align = 1
  ExtraPerReq = 2
  SliceIsView = TRUE
  Workload <- ShortChats
  Vocab <- Two
  Eos = 2
  Target <- MCTarget
SPECIFICATION SpecSpec
SYMMETRY AnyReqs
INVARIANT
  PeakReserved
