CONSTANTS
  Target = 3
  GiveUp = 2
  MaxLosses = 2
SPECIFICATION FairSpec
INVARIANTS
  RoundsBalanced
  ReportIsExact
PROPERTIES
  AlternationSpec
  StepsRunOut
  LaunchedReturns
