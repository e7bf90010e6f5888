\* As MCBatchSigner.cfg, and run_one may return. A warm-up of -1 wraps the sum.
CONSTANTS
  Messages = {empty, m1, m2}
  Empty = empty
  InitCap = 1
  PtrSize = 2
  SizeMax = 12
  NULL = NULL
  IntValues = 4
  Typed <- MCTyped
SPECIFICATION RunSpec
INVARIANT MeasuredAll
CHECK_DEADLOCK FALSE
