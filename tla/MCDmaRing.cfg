SPECIFICATION RingSpec
CONSTANTS
  DMA_MAX_QUEUE = 3
  DMA_CHUNK_MAX = 2
  Requests <- MCRequests
INVARIANTS
  SlotsDisjoint
  InsideWindow
PROPERTIES
  StreamSpec
