CONSTANTS
  COMPUTE_COUNT = 2
  MEMTEST_COUNT = 2
  PPE_PMU_PROFILE_COUNT = 2
  PPE_BENCH_COUNT = 2
  MaxPasses = 1
SPECIFICATION Spec
INVARIANTS
  TypeOK
  GroupServesPage
  SlicesApart
  WindowHasOwner
