\* As MCBatchSigner.cfg, and run_one may return.
CONSTANTS
  Messages = {empty, m1, m2}
  Empty = empty
  InitCap = 1
  PtrSize = 2
  SizeMax = 12
  NULL = NULL
  IntValues = 4
  Typed <- MCTyped
SPECIFICATION RunSpec
INVARIANTS RunTypeOK VerifyAccepts NothingLeft MeasuredAllOrNone
PROPERTY RunReturns
CHECK_DEADLOCK FALSE
