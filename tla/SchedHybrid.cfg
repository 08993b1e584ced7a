CONSTANTS
  Reqs = {r1, r2, r3, r4}
  Slots = {s1, s2, s3}
  None = None
  CacheType = "hybrid"
  NumPages = 7
  MaxRunning = 2
  Budget = 3
  MaxPosition = 6
  Align = 1
  ExtraPerReq = 0
  SliceIsView = TRUE
  Workload <- Conversation
  Vocab <- Two
  Eos = 2
SPECIFICATION Spec
SYMMETRY SlotsAndReqs
INVARIANTS
  TypeOK
  SlotOwnership
  PageOwnership
  RefCountsExact
  CountersExact
  RadixShape
  HandlePinned
  ContextCorrect
  StateCorrect
  NobodyForgotten
  NeverStarved
  AllocationBacked
