----------------------------- MODULE MerkleTree -----------------------------
(***************************************************************************)
(* src/merkle/merkle.c, one step per loop iteration: the tree object       *)
(* (create, set_leaf, build, destroy), the proofs it hands out (get_proof, *)
(* free_proof) and verify_proof, which runs without the tree.  The program *)
(* is sequential: a call runs to its end before the next one starts, so    *)
(* `call' holds the locals of the one running call.  Any malloc may fail.  *)
(* A failure that leaves nothing behind (the buffers of build and of       *)
(* verify_proof) is a stuttering step.                                     *)
(***************************************************************************)
EXTENDS Integers, MerkleOps

CONSTANTS
  LeafHashes,   \* digests a caller may set, claim or write into a path
  LeafArgs,     \* values of max_leaves given to create
  LeafIndexes,  \* indexes given to set_leaf, get_proof and verify_proof
  SizeMax,      \* SIZE_MAX
  HashSize,     \* hash_size
  FirstCapacity, \* elements of the first array of get_proof (8 in the code)
  MaxLate,      \* bound: set_leaf calls on a tree that was built before
  NULL          \* no build yet

ASSUME SizeAssumption == 
  SizeMax \in Nat \ {0} /\ HashSize \in Nat \ {0} /\ FirstCapacity \in Nat \ {0}
ASSUME ArgAssumption ==
  LeafArgs \subseteq Nat \ {0} /\ LeafIndexes \subseteq Nat /\ MaxLate \in Nat

VARIABLES
  call,           \* the running call and its locals, or Idle
  leaf_capacity,  \* struct merkle_tree; leaf_capacity = 0: there is no tree
  num_leaves,
  tree,           \* node k has children 2k and 2k+1; the root is node 1
  proof,          \* what the last get_proof returned, or NoProof
  heap,           \* the blocks allocated and not yet freed
  committed,      \* ghost: the nodes after the last build; [1] is the root
                  \*   the caller copied and published
  late            \* ghost: set_leaf calls since the first build (bounded)

vars == <<call, leaf_capacity, num_leaves, tree, proof, heap, committed, late>>
treeVars == <<leaf_capacity, num_leaves, tree, committed, late>>

Idle == [fn |-> "idle"]
NoProof == [len |-> -1]
Nodes(cap) == 1..(2 * cap - 1)
MulFits(lhs, rhs) == lhs = 0 \/ rhs <= SizeMax \div lhs  \* checked_mul_size

\* The blocks of a proof with len elements: none for an empty path, which is
\* a NULL pointer.
ProofBlocks(len) ==
  IF len = 0 THEN {} ELSE {<<"proof">>} \cup {<<"sibling", k>> : k \in 0..(len - 1)}

Init ==
  /\ call = Idle
  /\ leaf_capacity = 0 /\ num_leaves = 0 /\ tree = [k \in Nodes(0) |-> ZeroHash]
  /\ proof = NoProof /\ heap = {}
  /\ committed = NULL /\ late = 0
------------------------------------------------------------------------------
\* merkle_tree_create(n): next_power_of_two, the size checks, two allocations.
\* The caller has dropped the proofs of the previous tree.
Create(n) ==
  /\ call = Idle /\ leaf_capacity = 0 /\ proof = NoProof
  /\ call' = [fn |-> "next_power_of_two", n |-> n, p |-> 1]
  /\ committed' = NULL
  /\ UNCHANGED <<leaf_capacity, num_leaves, tree, proof, heap, late>>

\* Seeded fault: no overflow check in the loop.
DoublingUnchecked(p) == TRUE
DoublingFits(p) == p <= SizeMax \div 2

DoublePower ==
  /\ call.fn = "next_power_of_two" /\ call.p < call.n /\ DoublingFits(call.p)
  /\ call' = [call EXCEPT !.p = (2 * @) % (SizeMax + 1)]
  /\ UNCHANGED <<treeVars, proof, heap>>

PowerOverflows ==
  /\ call.fn = "next_power_of_two" /\ call.p < call.n /\ ~DoublingFits(call.p)
  /\ call' = Idle
  /\ UNCHANGED <<treeVars, proof, heap>>

\* Seeded fault: the array is checked as if it held one node per leaf.
LeavesFit(cap) == MulFits(cap, HashSize)
NodesFit(cap) == MulFits(2, cap) /\ MulFits(2 * cap, HashSize)

AllocateNodes ==
  /\ call.fn = "next_power_of_two" /\ call.p >= call.n /\ NodesFit(call.p)
  /\ call' = [call EXCEPT !.fn = "create"]
  /\ heap' = heap \cup {<<"nodes">>}
  /\ UNCHANGED <<treeVars, proof>>

AllocateNodesFails ==
  /\ call.fn = "next_power_of_two" /\ call.p >= call.n
  /\ call' = Idle
  /\ UNCHANGED <<treeVars, proof, heap>>

AllocateTree ==
  /\ call.fn = "create"
  /\ call' = Idle
  /\ leaf_capacity' = call.p /\ num_leaves' = 0
  /\ tree' = [k \in Nodes(call.p) |-> ZeroHash]
  /\ heap' = heap \cup {<<"tree">>}
  /\ UNCHANGED <<proof, committed, late>>

\* Seeded fault: the node array is not freed.
AllocateTreeFailsLeaks ==
  /\ call.fn = "create"
  /\ call' = Idle
  /\ UNCHANGED <<treeVars, proof, heap>>

AllocateTreeFails ==
  /\ call.fn = "create"
  /\ call' = Idle
  /\ heap' = heap \ {<<"nodes">>}
  /\ UNCHANGED <<treeVars, proof>>

\* merkle_tree_destroy: proofs already handed out stay with the caller.
Destroy ==
  /\ call = Idle /\ leaf_capacity > 0
  /\ leaf_capacity' = 0 /\ num_leaves' = 0 /\ tree' = [k \in Nodes(0) |-> ZeroHash]
  /\ heap' = heap \ {<<"nodes">>, <<"tree">>}
  /\ late' = 0
  /\ UNCHANGED <<call, proof, committed>>

\* Seeded fault: set_leaf counts its calls.
LeavesCounted(idx) == num_leaves + 1

\* num_leaves is one past the highest index ever set, not a count of leaves.
LeavesAfter(idx) == IF idx + 1 > num_leaves THEN idx + 1 ELSE num_leaves

SetLeaf(idx, hash) ==
  /\ call = Idle /\ leaf_capacity > 0 /\ idx < leaf_capacity
  /\ committed = NULL \/ late < MaxLate
  /\ tree' = [tree EXCEPT ![leaf_capacity + idx] = hash]
  /\ num_leaves' = LeavesAfter(idx)
  /\ late' = IF committed = NULL THEN late ELSE late + 1
  /\ UNCHANGED <<call, leaf_capacity, proof, heap, committed>>
------------------------------------------------------------------------------
\* merkle_tree_build: for (i = leaf_capacity - 1; i > 0; --i).
Build ==
  /\ call = Idle /\ leaf_capacity > 0 /\ num_leaves > 0
  /\ call' = [fn |-> "build", i |-> leaf_capacity - 1]
  /\ heap' = heap \cup {<<"buf">>}
  /\ UNCHANGED <<treeVars, proof>>

\* Seeded fault: the buffer is filled right child first.
ParentSwapped(i) == HashPair(tree[2 * i + 1], tree[2 * i])
Parent(i) == HashPair(tree[2 * i], tree[2 * i + 1])

BuildNode ==
  /\ call.fn = "build" /\ call.i > 0
  /\ tree' = [tree EXCEPT ![call.i] = Parent(call.i)]
  /\ call' = [call EXCEPT !.i = @ - 1]
  /\ UNCHANGED <<leaf_capacity, num_leaves, proof, heap, committed, late>>

BuildDone ==
  /\ call.fn = "build" /\ call.i = 0
  /\ call' = Idle
  /\ heap' = heap \ {<<"buf">>}
  /\ committed' = tree
  /\ UNCHANGED <<leaf_capacity, num_leaves, tree, proof, late>>
------------------------------------------------------------------------------
\* merkle_tree_get_proof(leaf_idx): siblings from the leaf up to the root.
\* Ghosts: width[k] is the number of nodes on level k and trail[k] the node the
\* walk passes there; source is the node array when it was the published one.
GetProof(leaf_idx) ==
  /\ call = Idle /\ leaf_capacity > 0 /\ leaf_idx < num_leaves /\ proof = NoProof
  /\ call' = [fn |-> "get_proof", idx |-> leaf_capacity + leaf_idx, cap |-> 0]
  /\ proof' = [leaf_idx |-> leaf_idx, len |-> 0, path |-> [k \in {} |-> ZeroHash],
               width |-> [k \in {0} |-> leaf_capacity],
               trail |-> [k \in {0} |-> leaf_capacity + leaf_idx],
               source |-> IF tree = committed THEN committed ELSE NULL]
  /\ UNCHANGED <<treeVars, heap>>

\* Seeded fault: the path is collected from the root down.
ExtendFront(f, n, x) == [k \in 0..n |-> IF k = 0 THEN x ELSE f[k - 1]]
Extend(f, n, x) == [k \in 0..n |-> IF k = n THEN x ELSE f[k]]

\* The array is full: it is doubled.
GrowProof ==
  /\ call.fn = "get_proof" /\ call.idx > 1 /\ proof.len >= call.cap
  /\ call' = [call EXCEPT !.cap = IF @ = 0 THEN FirstCapacity ELSE 2 * @]
  /\ heap' = heap \cup {<<"proof">>}
  /\ UNCHANGED <<treeVars, proof>>

TakeSibling ==
  /\ call.fn = "get_proof" /\ call.idx > 1 /\ proof.len < call.cap
  /\ call' = [call EXCEPT !.idx = @ \div 2]
  /\ proof' = [proof EXCEPT
       !.len = @ + 1,
       !.path = Extend(@, proof.len, tree[Sibling(call.idx)]),
       !.width = Extend(@, proof.len + 1, proof.width[proof.len] \div 2),
       !.trail = Extend(@, proof.len + 1, call.idx \div 2)]
  /\ heap' = heap \cup {<<"sibling", proof.len>>}
  /\ UNCHANGED treeVars

\* The realloc or the malloc of one iteration fails: merkle_tree_free_proof frees
\* the array, if there is one yet, and the elements it holds.
TakeSiblingFails ==
  /\ call.fn = "get_proof" /\ call.idx > 1
  /\ call' = Idle
  /\ proof' = NoProof
  /\ heap' = heap \ ({<<"proof">>} \cup ProofBlocks(proof.len))
  /\ UNCHANGED treeVars

ProofDone ==
  /\ call.fn = "get_proof" /\ call.idx <= 1
  /\ call' = Idle
  /\ UNCHANGED <<treeVars, proof, heap>>

FreeProof ==
  /\ call = Idle /\ proof # NoProof
  /\ proof' = NoProof
  /\ heap' = heap \ ProofBlocks(proof.len)
  /\ UNCHANGED <<call, treeVars>>

\* The caller overwrites one element of the array it owns.
CorruptProof(k, hash) ==
  /\ call = Idle /\ proof # NoProof /\ k < proof.len
  /\ proof' = [proof EXCEPT !.path[k] = hash, !.source = NULL]
  /\ UNCHANGED <<call, treeVars, heap>>
------------------------------------------------------------------------------
\* The paths of len elements a caller may pass, as a file may hold any number of them:
\* a piece of the array of get_proof, or all of it and one element more.
PathsHeld(len) ==
  IF len <= proof.len
  THEN {[k \in 0..(len - 1) |-> proof.path[first + k]] : first \in 0..(proof.len - len)}
  ELSE {Extend(proof.path, proof.len, hash) : hash \in LeafHashes}

\* The digests a caller may claim to be a leaf: inner nodes and the root among them.
Claims == LeafHashes \cup {ZeroHash} \cup {committed[k] : k \in DOMAIN committed}

\* merkle_tree_verify_proof(leaf_hash, path, len, leaf_idx, committed[1]): the length
\* is the caller's, whatever the depth of the tree.  bits is leaf_idx >> i.
VerifyProof(leaf_hash, path, len, leaf_idx) ==
  /\ call = Idle
  /\ call' = [fn |-> "verify_proof", leaf_hash |-> leaf_hash, path |-> path, len |-> len,
              leaf_idx |-> leaf_idx, i |-> 0, current |-> leaf_hash, bits |-> leaf_idx]
  /\ heap' = heap \cup {<<"current">>, <<"buf">>}
  /\ UNCHANGED <<treeVars, proof>>

Verify ==
  /\ proof # NoProof /\ committed # NULL
  /\ \E len \in 0..(proof.len + 1), leaf_hash \in Claims, leaf_idx \in LeafIndexes :
       \E path \in PathsHeld(len) : VerifyProof(leaf_hash, path, len, leaf_idx)

FoldSibling ==
  /\ call.fn = "verify_proof" /\ call.i < call.len
  /\ call' = [call EXCEPT
       !.i = @ + 1,
       !.current = Fold(call.bits, call.current, call.path[call.i]),
       !.bits = @ \div 2]
  /\ UNCHANGED <<treeVars, proof, heap>>

\* The loop has ended and memcmp decides; Accepted is the value returned.
Verdict == call.fn = "verify_proof" /\ call.i = call.len
Accepted == Verdict /\ call.current = committed[1]

VerifyDone ==
  /\ Verdict
  /\ call' = Idle
  /\ heap' = heap \ {<<"current">>, <<"buf">>}
  /\ UNCHANGED <<treeVars, proof>>
------------------------------------------------------------------------------
\* What the running call does next.
Step ==
  \/ DoublePower \/ PowerOverflows \/ AllocateNodes \/ AllocateNodesFails
  \/ AllocateTree \/ AllocateTreeFails
  \/ BuildNode \/ BuildDone
  \/ GrowProof \/ TakeSibling \/ TakeSiblingFails \/ ProofDone
  \/ FoldSibling \/ VerifyDone

\* What a caller may call between two calls.
Call ==
  \/ \E n \in LeafArgs : Create(n)
  \/ Destroy
  \/ \E idx \in LeafIndexes, hash \in LeafHashes : SetLeaf(idx, hash)
  \/ Build
  \/ \E idx \in LeafIndexes : GetProof(idx)
  \/ FreeProof
  \/ \E k \in LeafIndexes, hash \in LeafHashes : CorruptProof(k, hash)
  \/ Verify

Next == Step \/ Call

\* The thread that is inside a call keeps running; nothing makes a caller call.
Spec == Init /\ [][Next]_vars /\ WF_vars(Step)
------------------------------------------------------------------------------
\* A power of two, said without exponents: halving leads down to 1.
IsPow2(c) ==
  \E S \in SUBSET (1..c) :
    c \in S /\ \A x \in S : x = 1 \/ (x % 2 = 0 /\ x \div 2 \in S)

ProofOK ==
  /\ proof = [leaf_idx |-> proof.leaf_idx, len |-> proof.len, path |-> proof.path,
              width |-> proof.width, trail |-> proof.trail, source |-> proof.source]
  /\ proof.leaf_idx \in Nat /\ proof.len \in Nat
  /\ proof.path = [k \in 0..(proof.len - 1) |-> proof.path[k]]
  /\ proof.width \in [0..proof.len -> Nat]
  /\ proof.trail \in [0..proof.len -> Nat]
  /\ proof.leaf_idx < proof.width[0]

CallOK ==
  \/ call = Idle
  \/ /\ call.fn \in {"next_power_of_two", "create"}
     /\ call = [fn |-> call.fn, n |-> call.n, p |-> call.p]
     /\ call.n \in Nat \ {0} /\ call.p \in 1..SizeMax
     /\ leaf_capacity = 0 /\ proof = NoProof
  \/ /\ call.fn = "build"
     /\ call = [fn |-> "build", i |-> call.i]
     /\ call.i \in 0..(leaf_capacity - 1)
  \/ /\ call.fn = "get_proof"
     /\ call = [fn |-> "get_proof", idx |-> call.idx, cap |-> call.cap]
     /\ call.idx \in Nodes(leaf_capacity) /\ ProofOK
     /\ call.cap \in Nat /\ proof.len <= call.cap
     /\ call.cap > 0 /\ proof.len = 0 => call.idx > 1
  \/ /\ call.fn = "verify_proof"
     /\ call = [fn |-> "verify_proof", leaf_hash |-> call.leaf_hash, path |-> call.path,
                len |-> call.len, leaf_idx |-> call.leaf_idx, i |-> call.i,
                current |-> call.current, bits |-> call.bits]
     /\ call.len \in Nat /\ call.leaf_idx \in Nat /\ call.bits \in Nat
     /\ ProofOK /\ call.i \in 0..call.len /\ committed # NULL

\* The running call, the struct and the proof are well formed; in particular
\* num_leaves never exceeds leaf_capacity, so get_proof stays inside the nodes.
TypeOK ==
  /\ leaf_capacity \in 0..SizeMax
  /\ num_leaves \in 0..leaf_capacity
  /\ tree = [k \in Nodes(leaf_capacity) |-> tree[k]]
  /\ CallOK
  /\ proof = NoProof \/ ProofOK
  /\ late \in Nat

\* next_power_of_two and the size checks of create: the capacity is a power of
\* two that holds the requested leaves, half of it does not, and the size of
\* the node array passed to calloc has not wrapped around.
CapacityLeast ==
  call.fn = "create" =>
    /\ IsPow2(call.p) /\ call.n <= call.p
    /\ call.p = 1 \/ call.p \div 2 < call.n
    /\ 2 * call.p * HashSize <= SizeMax

\* merkle_tree_build: whatever was set before and between builds, in any order
\* and with gaps, after a build every inner node is the hash of its children,
\* so the root the caller publishes is a function of all the leaves.
RootCommits ==
  committed # NULL =>
    \A k \in DOMAIN committed :
      2 * k \in DOMAIN committed =>
        committed[k] = HashPair(committed[2 * k], committed[2 * k + 1])

\* get_proof against verify_proof: a path taken from the published tree proves
\* its leaf, also after later set_leaf calls and after the tree is gone.
Completeness ==
  /\ Verdict /\ call.path = proof.path /\ call.len = proof.len
  /\ proof.source = committed /\ call.leaf_idx = proof.leaf_idx
  /\ call.leaf_hash = committed[proof.width[0] + proof.leaf_idx]
  => Accepted

\* verify_proof: whatever the path holds and however long it is, it is accepted only if
\* every digest the loop ran through is the published one of its node.  So a path as long
\* as the tree is deep proves the published leaf at that index, modulo the capacity, and
\* nothing else.  Leaves and inner nodes are hashed alike and the length is not compared
\* with the depth: a shorter path proves the inner node that many levels below the root,
\* the empty one the root itself, and a longer one only what a published leaf was itself
\* hashed from.
Binding ==
  Accepted => Binds(committed, call.leaf_hash, call.path, call.len, call.leaf_idx)

\* Every block belongs to the tree, to the proof or to the running call: no
\* failure path of create or get_proof leaks a block or frees one it does not own.
HeapOwned ==
  heap = (IF leaf_capacity > 0 THEN {<<"nodes">>, <<"tree">>} ELSE {})
    \cup (IF proof # NoProof THEN ProofBlocks(proof.len) ELSE {})
    \cup (IF call.fn = "get_proof" /\ call.cap > 0 THEN {<<"proof">>} ELSE {})
    \cup (IF call.fn = "create" THEN {<<"nodes">>} ELSE {})
    \cup (IF call.fn \in {"build", "verify_proof"} THEN {<<"buf">>} ELSE {})
    \cup (IF call.fn = "verify_proof" THEN {<<"current">>} ELSE {})

\* The steps of create, build, get_proof and verify_proof compute the functions of
\* MerkleOps, so a module that uses those functions uses this code.
LoopsComputeOps ==
  /\ call.fn = "create" => call.p = LeafCapacity(call.n)
  /\ call.fn = "build" /\ call.i = 0 =>
       tree = BuiltTree([k \in 0..(leaf_capacity - 1) |-> tree[leaf_capacity + k]],
                        leaf_capacity)
  /\ call.fn = "get_proof" /\ call.idx = 1 =>
       /\ proof.path = ProofPath(tree, leaf_capacity, proof.leaf_idx)
       /\ proof.len = Depth(leaf_capacity)
  /\ Verdict =>
       (Accepted <=> VerifyPath(call.leaf_hash, call.path, call.len, call.leaf_idx,
                                committed[1]))

\* Every loop ends: in particular next_power_of_two, whose p would wrap to 0
\* and spin for ever without its overflow check.
CallsReturn == call # Idle ~> call = Idle
==============================================================================
