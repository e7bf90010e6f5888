\* Blocks of up to 10 bytes: the lengths of at most 5 messages fit, the slots of 3.
CONSTANTS
  SizeMax = 15
  IntValues = 4
  PtrSize = 2
  MallocMax = 10
  signature_bytes = 3
  Lengths = {0, 1, 3}
  Typed <- MCTyped
SPECIFICATION Spec
INVARIANTS TypeOK WritesInside LeaksOnlyScratch MeasuredAllOrNone
CHECK_DEADLOCK FALSE
