\* The loops alone: one message, no set_leaf after a build; capacities 1, 2
\* and 4, and both overflow checks of create.
CONSTANTS
  Msg = {m1}
  LeafHashes <- MCLeafHashes
  LeafArgs = {1, 2, 3, 5, 9}
  LeafIndexes = {0, 1, 2, 3}
  SizeMax = 15
  HashSize = 1
  FirstCapacity = 1
  MaxLate = 0
  NULL = NULL
SPECIFICATION Spec
PROPERTY CallsReturn
