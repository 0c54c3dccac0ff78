CONSTANTS
  Benches <- MCBenches
  Probes <- MCProbes
SPECIFICATION FairSpec
INVARIANTS
  ThreadsAccounted
  FlagsSettled
  JoinNeverWaits
PROPERTIES
  ProbesRunOut
  ProbesEnd
