CONSTANTS
  Reqs = {r1, r2}
  Slots = {}
  None = None
  CacheType = "radix"
  NumPages = 14
  MaxRunning = 2
  Budget = 8
  MaxPosition = 14
  Align = 1
  ExtraPerReq = 2
  SliceIsView = TRUE
  Workload <- Chats
  Vocab <- Two
  Eos = 2
  Target <- MCTarget
SPECIFICATION FairSpecSpec
INVARIANT
  NeverFails
PROPERTIES
  Answered
  KeepsPromise
