------------------------------ MODULE MerkleOps ------------------------------
(***************************************************************************)
(* What the loops of src/merkle/merkle.c compute, as functions: the        *)
(* capacity, the nodes, the path of a leaf and the verdict on a path.      *)
(* MerkleTree runs the loops; its LoopsComputeOps says that they agree.    *)
(***************************************************************************)
EXTENDS Integers, Hashing

\* Seeded fault: the sides are swapped.
FoldSwapped(bits, current, sibling) ==
  IF bits % 2 = 1 THEN HashPair(current, sibling) ELSE HashPair(sibling, current)

\* Seeded fault: the index is ignored and the two digests are hashed in the
\* order of their use.
FoldUnordered(bits, current, sibling) == HashPair(current, sibling)

\* The side on which verify_proof puts the running digest: right if the bit is 1.
Fold(bits, current, sibling) ==
  IF bits % 2 = 1 THEN HashPair(sibling, current) ELSE HashPair(current, sibling)

Sibling(k) == IF k % 2 = 0 THEN k + 1 ELSE k - 1        \* k ^ 1

\* 1 doubled d times: p = p << 1.
Power[d \in Nat] == IF d = 0 THEN 1 ELSE 2 * Power[d - 1]

\* The depth of a tree with n leaf slots, and the capacity next_power_of_two finds.
Depth(n) == CHOOSE d \in 0..n : Power[d] >= n /\ \A e \in 0..(d - 1) : Power[e] < n
LeafCapacity(n) == Power[Depth(n)]

\* A leaf that was not set is still zero.
Leaf(leaves, k) == IF k \in DOMAIN leaves THEN leaves[k] ELSE ZeroHash

\* The node array after set_leaf(k, leaves[k]) for every k and build.
BuiltTree(leaves, cap) ==
  LET node[k \in 1..(2 * cap - 1)] ==
        IF k < cap THEN HashPair(node[2 * k], node[2 * k + 1]) ELSE Leaf(leaves, k - cap)
  IN  node

\* n >> k: the node k levels above node n, and what is left of the index after k bits.
Shifted(n) == LET shifted[k \in Nat] == IF k = 0 THEN n ELSE shifted[k - 1] \div 2 IN shifted

\* The siblings from leaf slot idx up to the root.
ProofPath(tree, cap, idx) ==
  LET node == Shifted(cap + idx)
  IN  [k \in 0..(Depth(cap) - 1) |-> tree[Sibling(node[k])]]

\* The digests the loop of merkle_tree_verify_proof runs through on the path 0..len-1.
Folded(leaf_hash, path, len, leaf_idx) ==
  LET bits == Shifted(leaf_idx)
      current[i \in 0..len] ==
        IF i = 0 THEN leaf_hash ELSE Fold(bits[i - 1], current[i - 1], path[i - 1])
  IN  current

VerifyPath(leaf_hash, path, len, leaf_idx, root) ==
  Folded(leaf_hash, path, len, leaf_idx)[len] = root

\* The digests of that loop are those of nodes, where nodes has a node for them.  After
\* i of len elements the digest claims to be a node len - i levels below the root, in
\* the slot that what is left of the index says: the loop reads no more than len bits.
Binds(nodes, leaf_hash, path, len, leaf_idx) ==
  LET node == Shifted(Power[len] + (leaf_idx % Power[len]))
      digest == Folded(leaf_hash, path, len, leaf_idx)
  IN  \A i \in 0..len : node[i] \in DOMAIN nodes => digest[i] = nodes[node[i]]
==============================================================================
