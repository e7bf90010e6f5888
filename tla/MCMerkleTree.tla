---------------------------- MODULE MCMerkleTree ----------------------------
(* Instances of MerkleTree for TLC.                                         *)
EXTENDS MerkleTree, TLC

CONSTANT Msg   \* the messages whose hashes are the leaves

MCLeafHashes == {Hash(m) : m \in Msg}

\* Leaf hashes are only copied, hashed and compared.
Symmetry == Permutations(Msg)
==============================================================================
