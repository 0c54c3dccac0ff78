CONSTANTS
  A = A
  B = B
  C = C
  NoCategory = NoCategory
  Categories <- MCCategories
  Registries <- MCRegistries
  PadStates <- MCPadStates
  MaxCategories = 3
SPECIFICATION FairSpec
INVARIANTS
  SelectionInRange
  OnlySelectedRuns
  PagesPartition
PROPERTIES
  LifecycleSpec
  HeldButtonsActOnce
  ExitCleansUp
