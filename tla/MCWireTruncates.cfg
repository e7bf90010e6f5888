\* Words of 2 bits: the quotient of deserialize reaches 4 and is cut to 0..3.
\* The file of two messages has 18 bytes.
CONSTANTS
  Base = 2
  WordSize = 2
  PtrSize = 2
  SizeMax = 31
  HashSize = 1
  DataLens = {14, 18}
  Values = {0, 1, 2, 3}
  Payload = {0}
  SigLens = {1}
  Depths <- MCDepths
  Signed <- MCSigned
  NoRoom = NoRoom
SPECIFICATION Spec
INVARIANT RoundTrip
