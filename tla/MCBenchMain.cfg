\* main may stop for good.
CONSTANTS
  Registry <- MCRegistry
  Paths = {"csv", "json"}
  MaxRuns = 2
  NULL = NULL
SPECIFICATION MainSpec
INVARIANTS ExitZeroComplete JsonAfterCsv
CHECK_DEADLOCK FALSE
