CONSTANTS
  NumSpes = 2
  TestKinds <- MCTornKinds
  Blocks = 1
  PollLimit = 2
  LinesInOrder = TRUE
SPECIFICATION Spec
INVARIANT NoErrorsAlone
