\* Capacities 1, 2 and 4; the arrays of 8 cells do not fit in SIZE_MAX.
CONSTANTS
  Messages = {empty, m1, m2}
  Empty = empty
  InitCap = 1
  PtrSize = 2
  SizeMax = 12
  NULL = NULL
SPECIFICATION Spec
INVARIANTS TypeOK CellsOwned NoLeak NoFault
PROPERTIES ImplementsNotary SignReturns
