SPECIFICATION Spec
CONSTANTS
  Jobs <- MCJobs
  NoJob = "none"
INVARIANTS
  TimesOfTheJob
PROPERTIES
  JobsRunOut
  BatchEnds
