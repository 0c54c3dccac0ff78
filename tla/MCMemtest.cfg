CONSTANTS
  NumSpes = 2
  TestKinds <- MCTestKinds
  Blocks = 2
  PollLimit = 2
  LinesInOrder = FALSE
SPECIFICATION Spec
INVARIANTS
  ReadyMeansWritten
  SoloTestIsSilent
PROPERTIES
  TestsReturn
