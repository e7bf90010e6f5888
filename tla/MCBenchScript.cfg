\* Nobody has to invoke the script again.
CONSTANTS
  Registry <- MCRegistry
  Jobs <- MCJobs
  Options <- MCOptions
  Paths <- ScriptPaths
  MaxRuns = 2
  NULL = NULL
SPECIFICATION Spec
INVARIANTS TypeOK PublishedWhole PairOfOneRun ExitZeroPublished
PROPERTIES NothingUnpublished ScriptEnds
CHECK_DEADLOCK FALSE
