\* Bytes of 4 values, words of 2 bytes; arrays of 3 cells do not fit SIZE_MAX.
\* Signatures of 1 and 2 messages take 15, 16, 21 and 22 bytes.
CONSTANTS
  Base = 4
  WordSize = 2
  PtrSize = 8
  SizeMax = 22
  HashSize = 2
  DataLens = {7, 9, 15, 16, 19, 21, 22}
  Values = {0, 1, 2, 3, 5}
  Payload = {0, 3}
  SigLens = {1, 2}
  Depths <- MCDepths
  Signed <- MCSigned
  NoRoom = NoRoom
SPECIFICATION Spec
INVARIANTS TypeOK Canonical RoundTrip NoLeak NoFault
