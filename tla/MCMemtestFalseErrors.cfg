CONSTANTS
  NumSpes = 3
  TestKinds <- MCCycleKinds
  Blocks = 1
  PollLimit = 30
  LinesInOrder = FALSE
SPECIFICATION CycleSpec
INVARIANT NoFalseErrors
