CONSTANTS
  Reqs = {0, 1, 2}
  Slots = {}
  None = None
  CacheType = "naive"
  NumPages = 5
  MaxRunning = 2
  Budget = 2
  MaxPosition = 5
  Align = 1
  ExtraPerReq = 0
  SliceIsView = TRUE
  Workload <- AnyPrompt
  Prompts <- AnyCall
  Single <- UpToThreeAlike
  Vocab <- Two
  Eos = 2
SPECIFICATION OfflineSpec
CHECK_DEADLOCK FALSE
INVARIANT
  ResultsComplete
PROPERTY
  Returned
