SPECIFICATION MCSpec
CHECK_DEADLOCK FALSE
CONSTANTS
  BlockN = 4
  SimdRows = 2
  Simdgroups = 2
  MinBlockKv = 4
  SplitLen = 4
  MaxKvSplits = 3
  QHeads = 4
  KvHeads = 2
  Launches <- MCLaunches
  Score <- MCScore
  PageTable <- MCPageTable
  Owners = {"request", "node"}
  PoolSlots = {1, 2, 3, 4}
  ConvLen = 3
  Width = 2
  TokenAt <- MCTokenAt
  Longest = 4
  Steps = 4
  ExpertIds = {0, 1, 2}
  TopK = 2
  SortFrom = 4
  GateValues = {1, 2}
  BatchTokens = {1, 2}
  Uids = {1, 2}
  Vocabulary <- MCVocabulary
  Eos <- MCEos
  Batch = 2
  LongestText = 4
  Chunks <- MCChunks
  Replies = 5
  Counts <- UpToTwo
INVARIANTS
  AttentionExact
  SlotsArePrefixes
  ExpertsSummed
  TextExact
  ReadyMeansAll
PROPERTIES
  StreamedToTheEnd
  Settles
