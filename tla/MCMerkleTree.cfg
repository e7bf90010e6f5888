\* Capacities 1, 2 and 4; 5 leaves do not fit checked_mul_size, 9 do not fit
\* next_power_of_two (SIZE_MAX is 15).
CONSTANTS
  Msg = {m1, m2}
  LeafHashes <- MCLeafHashes
  LeafArgs = {1, 2, 3, 5, 9}
  LeafIndexes = {0, 2, 3, 5}
  SizeMax = 15
  HashSize = 1
  FirstCapacity = 1
  MaxLate = 1
  NULL = NULL
SYMMETRY Symmetry
SPECIFICATION Spec
INVARIANTS TypeOK CapacityLeast RootCommits Completeness Binding HeapOwned LoopsComputeOps
