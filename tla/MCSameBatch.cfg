\* The second invocation has another message size and finds the files of the first.
CONSTANTS
  Registry <- MCRegistry
  Jobs <- MCJobs
  Options <- LoadOptions
  Paths <- ScriptPaths
  MaxRuns = 2
  NULL = NULL
SPECIFICATION Spec
INVARIANT SameBatch
CHECK_DEADLOCK FALSE
