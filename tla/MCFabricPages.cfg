SPECIFICATION Spec
CONSTANTS
  Iterations = 3
  Tokens = 4
  NUM_SPES = 2
  DMA_SWEEP_CHUNKS <- MCChunks
  DMA_CHUNK_SIZE_DEFAULT = 2
  EIB_NXN_TOTAL_PAIRS = 2
  BATCHES_PER_VALUE = 1
  PMU_HISTORY_DEPTH = 2
INVARIANTS
  TokensMatch
  ReportIsBatch
  HistoryIsRecent
  NothingLeftBehind
PROPERTIES
  BatchesRunDown
  EveryBatchReturns
