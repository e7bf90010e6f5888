-------------------------- MODULE MerkleTreeProofs --------------------------
(***************************************************************************)
(* Theorems about MerkleTree for every value of its constants: every       *)
(* capacity, every set of digests, every SIZE_MAX.                         *)
(***************************************************************************)
EXTENDS MerkleTree, MerkleOpsProofs

LEMMA Pow2One == IsPow2(1)
<1>1. {1} \in SUBSET (1..1)
  OBVIOUS
<1>2. 1 \in {1} /\ \A x \in {1} : x = 1 \/ (x % 2 = 0 /\ x \div 2 \in {1})
  OBVIOUS
<1>3. QED
  BY <1>1, <1>2 DEF IsPow2

LEMMA Pow2Double ==
  ASSUME NEW p \in Nat \ {0}, IsPow2(p)
  PROVE  IsPow2(2 * p)
<1>1. PICK S \in SUBSET (1..p) :
        p \in S /\ \A x \in S : x = 1 \/ (x % 2 = 0 /\ x \div 2 \in S)
  BY DEF IsPow2
<1> DEFINE T == S \cup {2 * p}
<1>2. T \in SUBSET (1..(2 * p))
  BY <1>1
<1>3. 2 * p \in T /\ \A x \in T : x = 1 \/ (x % 2 = 0 /\ x \div 2 \in T)
  BY <1>1
<1>4. QED
  BY <1>2, <1>3 DEF IsPow2

LEMMA Pow2Half ==
  ASSUME NEW p \in Nat \ {0}, IsPow2(p), p # 1
  PROVE  p % 2 = 0 /\ p \div 2 \in Nat \ {0} /\ IsPow2(p \div 2) /\ p = 2 * (p \div 2)
<1>1. PICK S \in SUBSET (1..p) :
        p \in S /\ \A x \in S : x = 1 \/ (x % 2 = 0 /\ x \div 2 \in S)
  BY DEF IsPow2
<1> DEFINE h == p \div 2
           T == S \cap (1..h)
<1>2. p % 2 = 0 /\ h \in S /\ h \in Nat \ {0} /\ p = 2 * h
  BY <1>1
<1>3. T \in SUBSET (1..h) /\ h \in T
  BY <1>2
<1>4. ASSUME NEW x \in T
      PROVE  x = 1 \/ (x % 2 = 0 /\ x \div 2 \in T)
  BY <1>1, <1>2
<1>5. IsPow2(h)
  BY <1>3, <1>4 DEF IsPow2
<1>6. QED
  BY <1>2, <1>5

LEMMA DivBound ==
  ASSUME NEW a \in Nat, NEW b \in Nat \ {0}, NEW c \in Nat, c <= a \div b
  PROVE  b * c <= a
OBVIOUS

------------------------------------------------------------------------------
USE SizeAssumption, ArgAssumption

\* What TypeOK says of the struct, of a step that leaves the struct alone.
LEMMA StructKept ==
  ASSUME TypeOK, UNCHANGED <<leaf_capacity, num_leaves, tree, late>>, CallOK',
         proof' = NoProof \/ ProofOK'
  PROVE  TypeOK'
<1>1. /\ leaf_capacity' \in 0..SizeMax /\ num_leaves' \in 0..leaf_capacity' /\ late' \in Nat
  BY DEF TypeOK
<1>2. tree' = [k \in Nodes(leaf_capacity)' |-> tree'[k]]
  BY DEF TypeOK, Nodes
<1>. QED  BY <1>1, <1>2 DEF TypeOK

\* TypeOK is inductive: no call leaves the struct, the proof or its own locals
\* malformed, and num_leaves never exceeds the capacity.
LEMMA TypeInit == Init => TypeOK
BY DEF Init, TypeOK, CallOK, Idle, Nodes

LEMMA TypeNext == TypeOK /\ [Next]_vars => TypeOK'
<1> SUFFICES ASSUME TypeOK, [Next]_vars PROVE TypeOK'
  OBVIOUS
<1>1. CASE DoublePower
  <2>1. /\ call = [fn |-> "next_power_of_two", n |-> call.n, p |-> call.p]
        /\ call.n \in Nat \ {0} /\ call.p \in 1..SizeMax
        /\ leaf_capacity = 0 /\ proof = NoProof
    BY <1>1 DEF DoublePower, TypeOK, CallOK, Idle
  <2>2. call.p <= SizeMax \div 2
    BY <1>1 DEF DoublePower, DoublingFits
  <2>3. 2 * call.p \in 1..SizeMax
    BY <2>1, <2>2
  <2>4. (2 * call.p) % (SizeMax + 1) = 2 * call.p
    BY <2>3
  <2>5. call' = [fn |-> "next_power_of_two", n |-> call.n, p |-> 2 * call.p]
    BY <1>1, <2>1, <2>4 DEF DoublePower
  <2>6. UNCHANGED <<leaf_capacity, num_leaves, tree, proof, committed, late>>
    BY <1>1 DEF DoublePower, treeVars
  <2>7. /\ call'.fn \in {"next_power_of_two", "create"}
        /\ call'.n = call.n /\ call'.p = 2 * call.p
        /\ leaf_capacity' = 0 /\ proof' = NoProof
    BY <2>1, <2>5, <2>6
  <2>8. call' = [fn |-> call'.fn, n |-> call'.n, p |-> call'.p]
    BY <2>5
  <2>9. CallOK'
    BY <2>1, <2>3, <2>7, <2>8 DEF CallOK
  <2>10. QED
    BY <2>6, <2>9, <2>7, StructKept
<1>2. CASE PowerOverflows
  BY <1>2 DEF PowerOverflows, TypeOK, CallOK, ProofOK, Idle, NoProof, Nodes, treeVars
<1>3. CASE AllocateNodes
  <2>1. /\ call = [fn |-> "next_power_of_two", n |-> call.n, p |-> call.p]
        /\ call.n \in Nat \ {0} /\ call.p \in 1..SizeMax
        /\ leaf_capacity = 0 /\ proof = NoProof
    BY <1>3 DEF AllocateNodes, TypeOK, CallOK, Idle
  <2>2. /\ call' = [fn |-> "create", n |-> call.n, p |-> call.p]
        /\ UNCHANGED <<leaf_capacity, num_leaves, tree, late, proof>>
    BY <1>3, <2>1 DEF AllocateNodes, treeVars
  <2>3. CallOK'
    BY <2>1, <2>2 DEF CallOK
  <2>4. QED
    BY <2>1, <2>2, <2>3, StructKept
<1>4. CASE AllocateNodesFails
  BY <1>4 DEF AllocateNodesFails, TypeOK, CallOK, ProofOK, Idle, NoProof, Nodes, treeVars
<1>5. CASE AllocateTree
  BY <1>5 DEF AllocateTree, TypeOK, CallOK, ProofOK, Idle, NoProof, Nodes, treeVars
<1>6. CASE AllocateTreeFails
  BY <1>6 DEF AllocateTreeFails, TypeOK, CallOK, ProofOK, Idle, NoProof, Nodes, treeVars
<1>7. CASE BuildNode
  <2>1. call = [fn |-> "build", i |-> call.i] /\ call.i \in 0..(leaf_capacity - 1)
    BY <1>7 DEF BuildNode, TypeOK, CallOK, Idle
  <2>2. call' = [fn |-> "build", i |-> call.i - 1] /\ call.i - 1 \in 0..(leaf_capacity - 1)
    BY <1>7, <2>1 DEF BuildNode, TypeOK
  <2>3. UNCHANGED <<leaf_capacity, num_leaves, proof, committed, late>>
    BY <1>7 DEF BuildNode
  <2>4. tree' = [k \in Nodes(leaf_capacity) |->
                   IF k = call.i THEN Parent(call.i) ELSE tree[k]]
    BY <1>7 DEF BuildNode, TypeOK
  <2>5. tree' = [k \in Nodes(leaf_capacity) |-> tree'[k]]
    BY <2>4
  <2>6. CallOK'
    BY <2>2, <2>3 DEF CallOK
  <2>7. QED
    BY <2>3, <2>5, <2>6 DEF TypeOK, ProofOK, Nodes
<1>8. CASE BuildDone
  BY <1>8 DEF BuildDone, TypeOK, CallOK, ProofOK, Idle, NoProof, Nodes, treeVars
<1>9. CASE TakeSibling
  <2>1. /\ call = [fn |-> "get_proof", idx |-> call.idx, cap |-> call.cap]
        /\ call.idx \in Nodes(leaf_capacity) /\ ProofOK /\ leaf_capacity \in Nat
        /\ call.cap \in Nat /\ proof.len < call.cap /\ proof.len \in Nat
    BY <1>9 DEF TakeSibling, TypeOK, CallOK, Idle, ProofOK
  <2>2. /\ call' = [fn |-> "get_proof", idx |-> call.idx \div 2, cap |-> call.cap]
        /\ call.idx \div 2 \in Nodes(leaf_capacity)
    BY <1>9, <2>1 DEF TakeSibling, Nodes
  <2>3. proof' = [leaf_idx |-> proof.leaf_idx, len |-> proof.len + 1,
                  path |-> Extend(proof.path, proof.len, tree[Sibling(call.idx)]),
                  width |-> Extend(proof.width, proof.len + 1, proof.width[proof.len] \div 2),
                  trail |-> Extend(proof.trail, proof.len + 1, call.idx \div 2),
                  source |-> proof.source]
    BY <1>9, <2>1 DEF TakeSibling, ProofOK
  <2>4. ProofOK'
    <3>1. /\ proof.leaf_idx \in Nat /\ proof.len \in Nat
          /\ proof.path = [k \in 0..(proof.len - 1) |-> proof.path[k]]
          /\ proof.width \in [0..proof.len -> Nat]
          /\ proof.trail \in [0..proof.len -> Nat]
          /\ proof.leaf_idx < proof.width[0]
      BY <2>1 DEF ProofOK
    <3>2. proof.len \in 0..proof.len /\ 0 \in 0..proof.len
      <4>1. \A k \in Nat : k \in 0..k /\ 0 \in 0..k
        OBVIOUS
      <4>. QED  BY <3>1, <4>1
    <3>3. proof.width[proof.len] \in Nat /\ call.idx \in Nat
      <4>1. proof.width[proof.len] \in Nat
        BY <3>1, <3>2
      <4>2. call.idx \in Nat
        BY <2>1 DEF Nodes
      <4>. QED  BY <4>1, <4>2
    <3>4. proof.width[proof.len] \div 2 \in Nat /\ call.idx \div 2 \in Nat
      BY <3>3
    <3> DEFINE n == proof.len + 1
               w == proof.width[proof.len] \div 2
               t == call.idx \div 2
    <3>5. proof'.len = n /\ proof'.leaf_idx = proof.leaf_idx
          /\ proof'.path = [k \in 0..(n - 1) |-> proof'.path[k]]
      BY <2>3, <3>1 DEF Extend
    <3>6. /\ proof'.width = [k \in 0..n |-> IF k = n THEN w ELSE proof.width[k]]
          /\ proof'.trail = [k \in 0..n |-> IF k = n THEN t ELSE proof.trail[k]]
      BY <2>3 DEF Extend
    <3> HIDE DEF w, t
    <3>7. proof'.width \in [0..n -> Nat] /\ proof'.trail \in [0..n -> Nat]
          /\ proof'.width[0] = proof.width[0]
      <4>1. w \in Nat /\ t \in Nat
        BY <3>4 DEF w, t
      <4>2. n \in Nat /\ 0 \in 0..n /\ n # 0 /\ \A k \in 0..n : k = n \/ k \in 0..proof.len
        BY <3>1
      <4> HIDE DEF n
      <4>3. \A k \in 0..n : proof'.width[k] \in Nat /\ proof'.trail[k] \in Nat
        BY <3>1, <3>6, <4>1, <4>2
      <4> QED
        BY <3>6, <4>2, <4>3
    <3>8. proof'.leaf_idx \in Nat /\ proof'.len \in Nat /\ proof'.leaf_idx < proof'.width[0]
      BY <3>1, <3>5, <3>7
    <3>9. proof' = [leaf_idx |-> proof'.leaf_idx, len |-> proof'.len, path |-> proof'.path,
                    width |-> proof'.width, trail |-> proof'.trail, source |-> proof'.source]
      BY <2>3
    <3> HIDE DEF n
    <3>10. QED
      BY <3>5, <3>7, <3>8, <3>9 DEF ProofOK
  <2>5. UNCHANGED treeVars
    BY <1>9 DEF TakeSibling
  <2>6. CallOK'
    <3>1. proof'.len = proof.len + 1 /\ proof'.len <= call.cap /\ proof'.len # 0
      BY <2>1, <2>3
    <3>. QED  BY <2>1, <2>2, <2>4, <2>5, <3>1 DEF CallOK, treeVars, Nodes
  <2>7. QED
    BY <2>4, <2>5, <2>6, StructKept DEF treeVars
<1>grow. CASE GrowProof
  <2>1. /\ call = [fn |-> "get_proof", idx |-> call.idx, cap |-> call.cap]
        /\ call.idx \in Nodes(leaf_capacity) /\ ProofOK /\ call.idx > 1
        /\ call.cap \in Nat /\ proof.len <= call.cap
    BY <1>grow DEF GrowProof, TypeOK, CallOK, Idle
  <2>2. UNCHANGED <<treeVars, proof>>
    BY <1>grow DEF GrowProof
  <2>3. PICK cap \in Nat : cap >= call.cap
          /\ call' = [fn |-> "get_proof", idx |-> call.idx, cap |-> cap]
    BY <1>grow, <2>1 DEF GrowProof
  <2>4. CallOK'
    <3>1. proof.len <= cap
      BY <2>1, <2>3 DEF ProofOK
    <3>. QED  BY <2>1, <2>2, <2>3, <3>1 DEF CallOK, ProofOK, treeVars, Nodes
  <2>5. ProofOK'
    BY <2>1, <2>2 DEF ProofOK
  <2>. QED  BY <2>2, <2>4, <2>5, StructKept DEF treeVars
<1>10. CASE TakeSiblingFails
  BY <1>10 DEF TakeSiblingFails, TypeOK, CallOK, ProofOK, Idle, NoProof, Nodes, treeVars
<1>11. CASE ProofDone
  BY <1>11 DEF ProofDone, TypeOK, CallOK, ProofOK, Idle, NoProof, Nodes, treeVars
<1>12. CASE FoldSibling
  <2>1. /\ call = [fn |-> "verify_proof", leaf_hash |-> call.leaf_hash, path |-> call.path,
                   len |-> call.len, leaf_idx |-> call.leaf_idx, i |-> call.i,
                   current |-> call.current, bits |-> call.bits]
        /\ call.len \in Nat /\ call.bits \in Nat /\ call.leaf_idx \in Nat
        /\ call.i \in 0..call.len /\ ProofOK /\ committed # NULL
    BY <1>12 DEF FoldSibling, TypeOK, CallOK, Idle
  <2>2. UNCHANGED <<treeVars, proof>>
    BY <1>12 DEF FoldSibling
  <2>3. call' = [fn |-> "verify_proof", leaf_hash |-> call.leaf_hash, path |-> call.path,
                 len |-> call.len, leaf_idx |-> call.leaf_idx, i |-> call.i + 1,
                 current |-> Fold(call.bits, call.current, call.path[call.i]),
                 bits |-> call.bits \div 2]
    BY <1>12, <2>1 DEF FoldSibling
  <2>4. call.i + 1 \in 0..call.len
    BY <1>12, <2>1 DEF FoldSibling
  <2>5. call.bits \div 2 \in Nat
    BY <2>1
  <2>6. CallOK'
    BY <2>1, <2>2, <2>3, <2>4, <2>5 DEF CallOK, ProofOK, treeVars
  <2>7. ProofOK'
    BY <2>1, <2>2 DEF ProofOK
  <2>8. QED
    BY <2>2, <2>6, <2>7, StructKept DEF treeVars
<1>13. CASE VerifyDone
  BY <1>13 DEF VerifyDone, Verdict, TypeOK, CallOK, ProofOK, Idle, NoProof, Nodes, treeVars
<1>14. ASSUME NEW n \in LeafArgs, Create(n) PROVE TypeOK'
  BY <1>14 DEF Create, TypeOK, CallOK, ProofOK, Idle, NoProof, Nodes, treeVars
<1>15. CASE Destroy
  BY <1>15 DEF Destroy, TypeOK, CallOK, ProofOK, Idle, NoProof, Nodes, treeVars
<1>16. ASSUME NEW idx \in LeafIndexes, NEW hash \in LeafHashes, SetLeaf(idx, hash)
       PROVE  TypeOK'
  <2>1. UNCHANGED <<call, leaf_capacity, proof, committed>> /\ call = Idle
    BY <1>16 DEF SetLeaf
  <2>2. tree' = [k \in Nodes(leaf_capacity) |->
                   IF k = leaf_capacity + idx THEN hash ELSE tree[k]]
    BY <1>16 DEF SetLeaf, TypeOK
  <2>3. tree' = [k \in Nodes(leaf_capacity) |-> tree'[k]]
    BY <2>2
  <2>4. idx \in Nat /\ idx < leaf_capacity /\ leaf_capacity \in Nat /\ num_leaves \in 0..leaf_capacity
    BY <1>16 DEF SetLeaf, TypeOK
  <2>5. num_leaves' \in 0..leaf_capacity
    BY <1>16, <2>4 DEF SetLeaf, LeavesAfter
  <2>6. late' \in Nat
    BY <1>16 DEF SetLeaf, TypeOK
  <2>7. CallOK' /\ (proof' = NoProof \/ ProofOK') /\ leaf_capacity' \in 0..SizeMax
    <3>1. call' = Idle
      BY <2>1 DEF Idle
    <3>2. proof' = NoProof \/ ProofOK'
      BY <2>1 DEF TypeOK, ProofOK, NoProof
    <3>3. QED
      BY <2>1, <3>1, <3>2 DEF TypeOK, CallOK
  <2>8. tree' = [k \in Nodes(leaf_capacity)' |-> tree'[k]]
    BY <2>1, <2>3 DEF Nodes
  <2>9. num_leaves' \in 0..leaf_capacity'
    BY <2>1, <2>5
  <2>10. QED
    BY <2>6, <2>7, <2>8, <2>9 DEF TypeOK
<1>17. CASE Build
  <2>1. call' = [fn |-> "build", i |-> leaf_capacity - 1] /\ UNCHANGED <<treeVars, proof>>
    BY <1>17 DEF Build
  <2>2. leaf_capacity - 1 \in 0..(leaf_capacity - 1)
    BY <1>17 DEF Build, TypeOK
  <2>3. CallOK'
    BY <2>1, <2>2 DEF CallOK, treeVars
  <2>4. proof' = NoProof \/ ProofOK'
    BY <2>1 DEF TypeOK, ProofOK, NoProof
  <2>. QED  BY <2>1, <2>3, <2>4, StructKept DEF treeVars
<1>18. ASSUME NEW idx \in LeafIndexes, GetProof(idx) PROVE TypeOK'
  <2>1. /\ proof' = [leaf_idx |-> idx, len |-> 0, path |-> [k \in {} |-> ZeroHash],
                     width |-> [k \in {0} |-> leaf_capacity],
                     trail |-> [k \in {0} |-> leaf_capacity + idx],
                     source |-> IF tree = committed THEN committed ELSE NULL]
        /\ call' = [fn |-> "get_proof", idx |-> leaf_capacity + idx, cap |-> 0]
        /\ UNCHANGED treeVars
    BY <1>18 DEF GetProof
  <2>2. idx \in Nat /\ idx < leaf_capacity /\ leaf_capacity \in 0..SizeMax
    BY <1>18 DEF GetProof, TypeOK
  <2>3. 0..(0 - 1) = {} /\ 0..0 = {0}
    OBVIOUS
  <2>4. proof'.path = [k \in 0..(proof'.len - 1) |-> proof'.path[k]]
    BY <2>1, <2>3
  <2>5. proof'.width \in [0..proof'.len -> Nat] /\ proof'.trail \in [0..proof'.len -> Nat]
    BY <2>1, <2>2, <2>3
  <2>6. proof'.leaf_idx < proof'.width[0] /\ proof'.leaf_idx \in Nat /\ proof'.len \in Nat
    BY <2>1, <2>2
  <2>7. ProofOK'
    BY <2>1, <2>4, <2>5, <2>6 DEF ProofOK
  <2>8. CallOK'
    <3>1. proof'.len = 0
      BY <2>1
    <3>. QED  BY <2>1, <2>2, <2>7, <3>1 DEF CallOK, treeVars, Nodes
  <2>9. QED
    BY <2>1, <2>7, <2>8 DEF TypeOK, treeVars, Nodes
<1>19. CASE FreeProof
  BY <1>19 DEF FreeProof, TypeOK, CallOK, ProofOK, Idle, NoProof, Nodes, treeVars
<1>20. ASSUME NEW k \in LeafIndexes, NEW hash \in LeafHashes, CorruptProof(k, hash) PROVE TypeOK'
  BY <1>20 DEF CorruptProof, TypeOK, CallOK, ProofOK, Idle, NoProof, Nodes, treeVars
<1>21. CASE Verify
  <2>1. PICK hash \in Claims, len \in 0..(proof.len + 1), idx \in LeafIndexes :
          \E path \in PathsHeld(len) : VerifyProof(hash, path, len, idx)
    BY <1>21 DEF Verify
  <2>2. PICK path \in PathsHeld(len) : VerifyProof(hash, path, len, idx)
    BY <2>1
  <2>3. ProofOK /\ committed # NULL /\ UNCHANGED <<treeVars, proof>>
    BY <1>21, <2>2 DEF Verify, VerifyProof, TypeOK
  <2>4. call' = [fn |-> "verify_proof", leaf_hash |-> hash, path |-> path, len |-> len,
                 leaf_idx |-> idx, i |-> 0, current |-> hash, bits |-> idx]
    BY <2>2 DEF VerifyProof
  <2>5. idx \in Nat /\ len \in Nat /\ 0 \in 0..len
    BY <2>3 DEF ProofOK
  <2>6. CallOK'
    BY <2>3, <2>4, <2>5 DEF CallOK, ProofOK, treeVars
  <2>7. QED
    BY <2>3, <2>6 DEF TypeOK, ProofOK, treeVars, Nodes
<1>22. CASE UNCHANGED vars
  BY <1>22 DEF vars, TypeOK, CallOK, ProofOK, Idle, NoProof, Nodes, treeVars
<1>23. QED
  BY <1>1, <1>2, <1>3, <1>4, <1>5, <1>6, <1>7, <1>8, <1>9, <1>10, <1>11,
     <1>12, <1>13, <1>14, <1>15, <1>16, <1>17, <1>18, <1>19, <1>20, <1>21, <1>22, <1>grow
     DEF Next, Step, Call

\* Type correctness, for every capacity and every SIZE_MAX.
THEOREM TypeCorrect == Spec => []TypeOK
BY TypeInit, TypeNext, PTL DEF Spec

------------------------------------------------------------------------------
\* The inductive invariant.  First part: the doubling loop of create.
PowerInv ==
  /\ call.fn \in {"next_power_of_two", "create"} =>
       /\ IsPow2(call.p)
       /\ call.p = 1 \/ call.p \div 2 < call.n
       /\ committed = NULL
  /\ leaf_capacity > 0 => IsPow2(leaf_capacity)
  /\ CapacityLeast

\* Second part: the walk of get_proof passes one node per level, the levels
\* halve from the capacity down to the root, and a path with a source holds the
\* siblings of the walk.
LevelInv ==
  proof # NoProof =>
    /\ \A k \in 0..proof.len :
         /\ proof.width[k] # 0 /\ IsPow2(proof.width[k]) /\ proof.width[k] <= proof.width[0]
         /\ proof.width[k] <= proof.trail[k] /\ proof.trail[k] < 2 * proof.width[k]
    /\ \A k \in 0..(proof.len - 1) :
         /\ proof.width[k] = 2 * proof.width[k + 1]
         /\ proof.trail[k + 1] = proof.trail[k] \div 2
    /\ leaf_capacity > 0 => proof.width[0] = leaf_capacity
    /\ proof.trail[0] = proof.width[0] + proof.leaf_idx
    /\ IF call.fn = "get_proof" THEN proof.trail[proof.len] = call.idx
                                ELSE proof.width[proof.len] = 1
    /\ proof.source # NULL =>
         /\ call.fn = "get_proof" => proof.source = tree
         /\ \A k \in 0..(proof.len - 1) :
              proof.path[k] = proof.source[Sibling(proof.trail[k])]

\* Third part: build has hashed every node above its counter; the published
\* nodes have the shape of the tree and of the proof.
CommitInv ==
  /\ committed # NULL => \E cap \in Nat \ {0} : DOMAIN committed = Nodes(cap)
  /\ committed # NULL /\ leaf_capacity > 0 =>
       committed = [k \in Nodes(leaf_capacity) |-> committed[k]]
  /\ committed # NULL /\ proof # NoProof =>
       committed = [k \in Nodes(proof.width[0]) |-> committed[k]]
  /\ RootCommits
  /\ call.fn = "build" =>
       \A k \in Nodes(leaf_capacity) :
         k > call.i /\ 2 * k \in Nodes(leaf_capacity) =>
           tree[k] = HashPair(tree[2 * k], tree[2 * k + 1])

\* Fourth part: verify_proof, given the path of get_proof and the leaf it was taken for,
\* follows the walk of get_proof: its digest is that of the node the walk passed, and its
\* bit is the side on which that node lies.
IsHonest ==
  /\ call.path = proof.path /\ call.len = proof.len /\ proof.source = committed
  /\ call.leaf_idx = proof.leaf_idx
  /\ call.leaf_hash = committed[proof.width[0] + proof.leaf_idx]

VerifyInv ==
  call.fn = "verify_proof" /\ IsHonest =>
    /\ call.current = committed[proof.trail[call.i]]
    /\ call.bits = proof.trail[call.i] - proof.width[call.i]

LEMMA PowerNext == TypeOK /\ PowerInv /\ [Next]_vars => PowerInv'
<1> SUFFICES ASSUME TypeOK, PowerInv, [Next]_vars PROVE PowerInv'
  OBVIOUS
<1>1. CASE DoublePower
  <2>1. /\ call = [fn |-> "next_power_of_two", n |-> call.n, p |-> call.p]
        /\ call.n \in Nat \ {0} /\ call.p \in 1..SizeMax /\ call.p < call.n
        /\ IsPow2(call.p) /\ committed = NULL
    BY <1>1 DEF DoublePower, TypeOK, CallOK, Idle, PowerInv
  <2>2. 2 * call.p \in 1..SizeMax
    BY <1>1, <2>1 DEF DoublePower, DoublingFits
  <2>3. (2 * call.p) % (SizeMax + 1) = 2 * call.p
    BY <2>2
  <2>4. call' = [fn |-> "next_power_of_two", n |-> call.n, p |-> 2 * call.p]
    BY <1>1, <2>1, <2>3 DEF DoublePower
  <2>5. IsPow2(2 * call.p) /\ (2 * call.p) \div 2 < call.n
    BY <2>1, Pow2Double
  <2>6. QED
    BY <1>1, <2>1, <2>4, <2>5 DEF DoublePower, treeVars, PowerInv, CapacityLeast
<1>2. CASE AllocateNodes
  <2>1. /\ call = [fn |-> "next_power_of_two", n |-> call.n, p |-> call.p]
        /\ call.n \in Nat \ {0} /\ call.p \in 1..SizeMax /\ call.n <= call.p
        /\ IsPow2(call.p) /\ (call.p = 1 \/ call.p \div 2 < call.n) /\ committed = NULL
    BY <1>2 DEF AllocateNodes, TypeOK, CallOK, Idle, PowerInv
  <2>2. call' = [fn |-> "create", n |-> call.n, p |-> call.p]
    BY <1>2, <2>1 DEF AllocateNodes
  <2>3. HashSize <= SizeMax \div (2 * call.p)
    BY <1>2, <2>1 DEF AllocateNodes, NodesFit, MulFits
  <2>4. 2 * call.p * HashSize <= SizeMax
    BY <2>1, <2>3, DivBound
  <2>5. QED
    BY <1>2, <2>1, <2>2, <2>4 DEF AllocateNodes, treeVars, PowerInv, CapacityLeast
<1>3. CASE AllocateTree
  <2>1. call' = Idle /\ leaf_capacity' = call.p /\ IsPow2(call.p)
    BY <1>3 DEF AllocateTree, PowerInv
  <2>2. QED
    BY <2>1 DEF PowerInv, CapacityLeast, Idle
<1>4. ASSUME NEW n \in LeafArgs, Create(n) PROVE PowerInv'
  BY <1>4, Pow2One DEF Create, PowerInv, CapacityLeast
<1>5. CASE UNCHANGED vars
  BY <1>5 DEF vars, PowerInv, CapacityLeast
<1>6. ASSUME call'.fn \notin {"next_power_of_two", "create"},
             leaf_capacity' \in {0, leaf_capacity}
      PROVE  PowerInv'
  BY <1>6 DEF PowerInv, CapacityLeast
<1>7. CASE PowerOverflows \/ AllocateNodesFails \/ AllocateTreeFails
  BY <1>6, <1>7 DEF PowerOverflows, AllocateNodesFails, AllocateTreeFails, Idle, treeVars
<1>8. CASE BuildNode \/ BuildDone \/ Build
  <2>1. call'.fn \in {"build", "idle"}
    BY <1>8 DEF BuildNode, BuildDone, Build, Idle, TypeOK, CallOK
  <2>2. QED
    BY <1>6, <1>8, <2>1 DEF BuildNode, BuildDone, Build, treeVars
<1>9. CASE GrowProof \/ TakeSibling \/ TakeSiblingFails \/ ProofDone
  <2>1. call'.fn \in {"get_proof", "idle"}
    BY <1>9 DEF GrowProof, TakeSibling, TakeSiblingFails, ProofDone, Idle, TypeOK, CallOK
  <2>2. QED
    BY <1>6, <1>9, <2>1 DEF GrowProof, TakeSibling, TakeSiblingFails, ProofDone, treeVars
<1>10. CASE FoldSibling \/ VerifyDone
  <2>1. CASE FoldSibling
    <3>1. call = [fn |-> "verify_proof", leaf_hash |-> call.leaf_hash, path |-> call.path,
                  len |-> call.len, leaf_idx |-> call.leaf_idx, i |-> call.i,
                  current |-> call.current, bits |-> call.bits]
      BY <2>1 DEF FoldSibling, TypeOK, CallOK, Idle
    <3>2. call'.fn = "verify_proof"
      BY <2>1, <3>1 DEF FoldSibling
    <3>3. QED
      BY <1>6, <2>1, <3>2 DEF FoldSibling, treeVars
  <2>2. CASE VerifyDone
    BY <1>6, <2>2 DEF VerifyDone, Idle, treeVars
  <2>3. QED
    BY <1>10, <2>1, <2>2
<1>11. CASE Destroy \/ FreeProof
  BY <1>6, <1>11 DEF Destroy, FreeProof, Idle, treeVars
<1>12. ASSUME NEW idx \in LeafIndexes, NEW hash, SetLeaf(idx, hash) PROVE PowerInv'
  BY <1>6, <1>12 DEF SetLeaf, Idle
<1>13. ASSUME NEW idx \in LeafIndexes, GetProof(idx) PROVE PowerInv'
  BY <1>6, <1>13 DEF GetProof, treeVars
<1>14. ASSUME NEW k \in LeafIndexes, NEW hash, CorruptProof(k, hash) PROVE PowerInv'
  BY <1>6, <1>14 DEF CorruptProof, Idle, treeVars
<1>15. CASE Verify
  BY <1>6, <1>15 DEF Verify, VerifyProof, treeVars
<1>16. QED
  BY <1>1, <1>2, <1>3, <1>4, <1>5, <1>7, <1>8, <1>9, <1>10, <1>11, <1>12, <1>13, <1>14,
     <1>15 DEF Next, Step, Call

LEMMA LevelNext == TypeOK /\ PowerInv /\ LevelInv /\ [Next]_vars => LevelInv'
<1> SUFFICES ASSUME TypeOK, PowerInv, LevelInv, [Next]_vars PROVE LevelInv'
  OBVIOUS
<1>1. ASSUME UNCHANGED proof, leaf_capacity' \in {0, leaf_capacity},
             call.fn # "get_proof", call'.fn # "get_proof"
      PROVE  LevelInv'
  BY <1>1 DEF LevelInv
<1>2. ASSUME proof' = NoProof PROVE LevelInv'
  BY <1>2 DEF LevelInv
<1>3. CASE TakeSibling
  <2> DEFINE n == proof.len
             w == proof.width[n]
             t == proof.trail[n]
  <2>1. /\ call = [fn |-> "get_proof", idx |-> call.idx, cap |-> call.cap]
        /\ call.idx \in Nodes(leaf_capacity) /\ ProofOK /\ leaf_capacity \in Nat
        /\ call.idx > 1
    BY <1>3 DEF TakeSibling, TypeOK, CallOK, Idle
  <2>2. /\ proof # NoProof /\ n \in Nat /\ n \in 0..n /\ 0 \in 0..n
        /\ proof.width \in [0..n -> Nat] /\ proof.trail \in [0..n -> Nat]
    BY <2>1 DEF ProofOK, NoProof
  <2>3. /\ \A k \in 0..n :
             /\ proof.width[k] # 0 /\ IsPow2(proof.width[k]) /\ proof.width[k] <= proof.width[0]
             /\ proof.width[k] <= proof.trail[k] /\ proof.trail[k] < 2 * proof.width[k]
        /\ \A k \in 0..(n - 1) :
             /\ proof.width[k] = 2 * proof.width[k + 1]
             /\ proof.trail[k + 1] = proof.trail[k] \div 2
        /\ leaf_capacity > 0 => proof.width[0] = leaf_capacity
        /\ proof.trail[0] = proof.width[0] + proof.leaf_idx
        /\ t = call.idx
        /\ proof.source # NULL => proof.source = tree
        /\ proof.source # NULL =>
             \A k \in 0..(n - 1) : proof.path[k] = proof.source[Sibling(proof.trail[k])]
    BY <2>1, <2>2 DEF LevelInv
  <2>4. w \in Nat \ {0} /\ t \in Nat /\ t > 1 /\ w <= t /\ t < 2 * w /\ IsPow2(w)
    BY <2>1, <2>2, <2>3
  <2>5. w \div 2 \in Nat \ {0} /\ IsPow2(w \div 2) /\ w = 2 * (w \div 2)
    BY <2>4, Pow2Half
  <2>6. w \div 2 <= t \div 2 /\ t \div 2 < 2 * (w \div 2) /\ w \div 2 <= proof.width[0]
    <3>1. w <= proof.width[0] /\ proof.width[0] \in Nat
      BY <2>2, <2>3
    <3>2. \A h, u \in Nat : 2 * h <= u /\ u < 4 * h => h <= u \div 2 /\ u \div 2 < 2 * h
      OBVIOUS
    <3> HIDE DEF w, t
    <3>3. 2 * (w \div 2) <= t /\ t < 4 * (w \div 2)
      BY <2>4, <2>5
    <3>4. QED
      BY <2>4, <2>5, <3>1, <3>2, <3>3
  <2>7. proof' = [leaf_idx |-> proof.leaf_idx, len |-> n + 1,
                  path |-> Extend(proof.path, n, tree[Sibling(t)]),
                  width |-> Extend(proof.width, n + 1, w \div 2),
                  trail |-> Extend(proof.trail, n + 1, t \div 2),
                  source |-> proof.source]
    BY <1>3, <2>1, <2>3 DEF TakeSibling, ProofOK
  <2>8. /\ call'.fn = "get_proof" /\ call'.idx = t \div 2
        /\ UNCHANGED <<leaf_capacity, tree>>
    BY <1>3, <2>1, <2>3 DEF TakeSibling, treeVars
  <2> HIDE DEF w, t
  <2>9. /\ \A k \in 0..n : proof'.width[k] = proof.width[k] /\ proof'.trail[k] = proof.trail[k]
        /\ proof'.width[n + 1] = w \div 2 /\ proof'.trail[n + 1] = t \div 2
        /\ \A k \in 0..(n - 1) : proof'.path[k] = proof.path[k]
        /\ proof'.path[n] = tree[Sibling(t)]
    BY <2>2, <2>7 DEF Extend
  <2>10. \A k \in 0..(n + 1) : k \in 0..n \/ k = n + 1
    BY <2>2
  <2>11. \A k \in 0..n : k \in 0..(n - 1) \/ k = n
    BY <2>2
  <2>12. \A k \in 0..(n + 1) :
           /\ proof'.width[k] # 0 /\ IsPow2(proof'.width[k]) /\ proof'.width[k] <= proof'.width[0]
           /\ proof'.width[k] <= proof'.trail[k] /\ proof'.trail[k] < 2 * proof'.width[k]
    <3>1. proof'.width[0] = proof.width[0]
      BY <2>2, <2>9
    <3>2. ASSUME NEW k \in 0..n
          PROVE  /\ proof'.width[k] # 0 /\ IsPow2(proof'.width[k])
                 /\ proof'.width[k] <= proof'.width[0]
                 /\ proof'.width[k] <= proof'.trail[k] /\ proof'.trail[k] < 2 * proof'.width[k]
      BY <2>3, <2>9, <3>1
    <3>3. /\ proof'.width[n + 1] # 0 /\ IsPow2(proof'.width[n + 1])
          /\ proof'.width[n + 1] <= proof'.width[0]
          /\ proof'.width[n + 1] <= proof'.trail[n + 1]
          /\ proof'.trail[n + 1] < 2 * proof'.width[n + 1]
      BY <2>5, <2>6, <2>9, <3>1
    <3>4. QED
      BY <2>10, <3>2, <3>3
  <2>13. \A k \in 0..n :
           /\ proof'.width[k] = 2 * proof'.width[k + 1]
           /\ proof'.trail[k + 1] = proof'.trail[k] \div 2
    <3>1. \A k \in 0..(n - 1) : k \in 0..n /\ k + 1 \in 0..n
      BY <2>2
    <3>2. n \in 0..n /\ proof.width[n] = w /\ proof.trail[n] = t
      BY <2>2 DEF w, t
    <3>3. QED
      BY <2>3, <2>5, <2>9, <2>11, <3>1, <3>2
  <2>14. proof'.source # NULL =>
           \A k \in 0..n : proof'.path[k] = proof'.source[Sibling(proof'.trail[k])]
    <3>1. proof.trail[n] = t /\ n \in 0..n /\ \A k \in 0..(n - 1) : k \in 0..n
      BY <2>2 DEF t
    <3>2. SUFFICES ASSUME proof.source # NULL, NEW k \in 0..n
                   PROVE  proof'.path[k] = proof.source[Sibling(proof'.trail[k])]
      BY <2>7
    <3>3. CASE k = n
      BY <2>3, <2>9, <3>1, <3>2, <3>3
    <3>4. CASE k \in 0..(n - 1)
      BY <2>3, <2>9, <3>1, <3>2, <3>4
    <3>5. QED
      BY <2>11, <3>3, <3>4
  <2>15. proof'.len = n + 1 /\ (n + 1) - 1 = n
    BY <2>2, <2>7
  <2>16. QED
    BY <2>2, <2>3, <2>7, <2>8, <2>9, <2>12, <2>13, <2>14, <2>15 DEF LevelInv
<1>4. CASE ProofDone
  <2>1. /\ call = [fn |-> "get_proof", idx |-> call.idx, cap |-> call.cap]
        /\ call.idx \in Nodes(leaf_capacity) /\ ProofOK /\ leaf_capacity \in Nat
        /\ call.idx <= 1
    BY <1>4 DEF ProofDone, TypeOK, CallOK, Idle
  <2>2. /\ proof # NoProof /\ proof.len \in 0..proof.len
        /\ proof.width[proof.len] \in Nat /\ proof.trail[proof.len] \in Nat
    BY <2>1 DEF ProofOK, NoProof
  <2>3. proof.width[proof.len] = 1
    BY <2>1, <2>2 DEF LevelInv, Nodes
  <2>4. QED
    BY <1>4, <2>1, <2>2, <2>3 DEF ProofDone, Idle, treeVars, LevelInv
<1>5. ASSUME NEW idx \in LeafIndexes, GetProof(idx) PROVE LevelInv'
  <2>1. /\ proof' = [leaf_idx |-> idx, len |-> 0, path |-> [k \in {} |-> ZeroHash],
                     width |-> [k \in {0} |-> leaf_capacity],
                     trail |-> [k \in {0} |-> leaf_capacity + idx],
                     source |-> IF tree = committed THEN committed ELSE NULL]
        /\ call' = [fn |-> "get_proof", idx |-> leaf_capacity + idx, cap |-> 0]
        /\ UNCHANGED treeVars
    BY <1>5 DEF GetProof
  <2>2. idx \in Nat /\ idx < leaf_capacity /\ leaf_capacity \in Nat /\ IsPow2(leaf_capacity)
    BY <1>5 DEF GetProof, TypeOK, PowerInv
  <2>3. 0..(0 - 1) = {} /\ 0..0 = {0}
    OBVIOUS
  <2>4. QED
    BY <2>1, <2>2, <2>3 DEF LevelInv, treeVars
<1>6. ASSUME NEW j \in LeafIndexes, NEW hash, CorruptProof(j, hash) PROVE LevelInv'
  <2>1. ProofOK
    BY <1>6 DEF CorruptProof, TypeOK
  <2>2. /\ proof'.len = proof.len /\ proof'.width = proof.width /\ proof'.trail = proof.trail
        /\ proof'.leaf_idx = proof.leaf_idx /\ proof'.source = NULL
    BY <1>6, <2>1 DEF CorruptProof, ProofOK
  <2>3. UNCHANGED <<call, leaf_capacity, tree>> /\ call.fn = "idle" /\ proof # NoProof
    BY <1>6 DEF CorruptProof, treeVars, Idle
  <2>4. QED
    BY <2>2, <2>3 DEF LevelInv
<1>7. CASE UNCHANGED vars
  BY <1>7 DEF vars, LevelInv
<1>8. CASE TakeSiblingFails \/ FreeProof
  BY <1>2, <1>8 DEF TakeSiblingFails, FreeProof
<1>9. CASE DoublePower \/ PowerOverflows \/ AllocateNodes \/ AllocateNodesFails
           \/ AllocateTree \/ AllocateTreeFails
  <2>1. UNCHANGED proof /\ proof = NoProof
    BY <1>9 DEF DoublePower, PowerOverflows, AllocateNodes, AllocateNodesFails, AllocateTree,
                AllocateTreeFails, TypeOK, CallOK, Idle
  <2>2. QED
    BY <1>2, <2>1
<1>10. CASE BuildNode \/ BuildDone \/ Build
  <2>1. call.fn # "get_proof" /\ call'.fn # "get_proof"
    BY <1>10 DEF BuildNode, BuildDone, Build, Idle, TypeOK, CallOK
  <2>2. QED
    BY <1>1, <1>10, <2>1 DEF BuildNode, BuildDone, Build, treeVars
<1>11. CASE FoldSibling \/ VerifyDone
  <2>1. CASE FoldSibling
    <3>1. call = [fn |-> "verify_proof", leaf_hash |-> call.leaf_hash, path |-> call.path,
                  len |-> call.len, leaf_idx |-> call.leaf_idx, i |-> call.i,
                  current |-> call.current, bits |-> call.bits]
      BY <2>1 DEF FoldSibling, TypeOK, CallOK, Idle
    <3>2. call'.fn = "verify_proof" /\ call.fn = "verify_proof"
      BY <2>1, <3>1 DEF FoldSibling
    <3>3. QED
      BY <1>1, <2>1, <3>2 DEF FoldSibling, treeVars
  <2>2. CASE VerifyDone
    BY <1>1, <2>2 DEF VerifyDone, Verdict, Idle, treeVars
  <2>3. QED
    BY <1>11, <2>1, <2>2
<1>12. CASE Destroy
  BY <1>1, <1>12 DEF Destroy, Idle
<1>13. ASSUME NEW n \in LeafArgs, Create(n) PROVE LevelInv'
  BY <1>2, <1>13 DEF Create
<1>14. ASSUME NEW idx \in LeafIndexes, NEW hash, SetLeaf(idx, hash) PROVE LevelInv'
  BY <1>1, <1>14 DEF SetLeaf, Idle
<1>15. CASE Verify
  BY <1>1, <1>15 DEF Verify, VerifyProof, Idle, treeVars
<1>grow. CASE GrowProof
  <2>1. call = [fn |-> "get_proof", idx |-> call.idx, cap |-> call.cap]
    BY <1>grow DEF GrowProof, TypeOK, CallOK, Idle
  <2>2. call'.fn = call.fn /\ call'.idx = call.idx /\ UNCHANGED <<proof, leaf_capacity, tree>>
    BY <1>grow, <2>1 DEF GrowProof, treeVars
  <2>. QED  BY <2>2 DEF LevelInv
<1>16. QED
  BY <1>3, <1>4, <1>5, <1>6, <1>7, <1>8, <1>9, <1>10, <1>11, <1>12, <1>13, <1>14,
     <1>15, <1>grow DEF Next, Step, Call

LEMMA CommitNext == TypeOK /\ PowerInv /\ LevelInv /\ CommitInv /\ [Next]_vars => CommitInv'
<1> SUFFICES ASSUME TypeOK, PowerInv, LevelInv, CommitInv, [Next]_vars PROVE CommitInv'
  OBVIOUS
<1>1. ASSUME UNCHANGED committed, leaf_capacity' \in {0, leaf_capacity}, call'.fn # "build",
             proof' = NoProof \/ (proof # NoProof /\ proof'.width[0] = proof.width[0])
      PROVE  CommitInv'
  BY <1>1 DEF CommitInv, RootCommits
<1>2. CASE AllocateTree
  <2>1. committed' = NULL /\ call' = Idle
    BY <1>2 DEF AllocateTree, PowerInv
  <2>2. QED
    BY <2>1 DEF CommitInv, RootCommits, Idle
<1>3. ASSUME NEW n \in LeafArgs, Create(n) PROVE CommitInv'
  BY <1>3 DEF Create, CommitInv, RootCommits
<1>4. CASE Build
  <2>1. /\ UNCHANGED <<committed, leaf_capacity, proof, tree>>
        /\ call' = [fn |-> "build", i |-> leaf_capacity - 1] /\ leaf_capacity \in Nat
    BY <1>4 DEF Build, treeVars, TypeOK
  <2>2. \A k \in Nodes(leaf_capacity) : 2 * k \in Nodes(leaf_capacity) => ~(k > leaf_capacity - 1)
    BY <2>1 DEF Nodes
  <2>3. QED
    BY <2>1, <2>2 DEF CommitInv, RootCommits
<1>5. CASE BuildNode
  <2>1. call = [fn |-> "build", i |-> call.i] /\ call.i \in 0..(leaf_capacity - 1) /\ call.i > 0
    BY <1>5 DEF BuildNode, TypeOK, CallOK, Idle
  <2>2. /\ call' = [fn |-> "build", i |-> call.i - 1]
        /\ UNCHANGED <<leaf_capacity, proof, committed>> /\ leaf_capacity \in Nat
    BY <1>5, <2>1 DEF BuildNode, TypeOK
  <2>3. tree' = [k \in Nodes(leaf_capacity) |->
                   IF k = call.i THEN Parent(call.i) ELSE tree[k]]
    BY <1>5 DEF BuildNode, TypeOK
  <2>4. ASSUME NEW k \in Nodes(leaf_capacity), k > call.i - 1, 2 * k \in Nodes(leaf_capacity)
        PROVE  tree'[k] = HashPair(tree'[2 * k], tree'[2 * k + 1])
    <3>1. 2 * k + 1 \in Nodes(leaf_capacity) /\ 2 * k # call.i /\ 2 * k + 1 # call.i
      BY <2>1, <2>2, <2>4 DEF Nodes
    <3>2. tree'[2 * k] = tree[2 * k] /\ tree'[2 * k + 1] = tree[2 * k + 1]
      BY <2>3, <2>4, <3>1
    <3>3. CASE k = call.i
      BY <2>3, <3>2, <3>3 DEF Parent
    <3>4. CASE k > call.i
      BY <2>1, <2>3, <2>4, <3>2, <3>4 DEF CommitInv
    <3>5. QED
      BY <2>1, <2>4, <3>3, <3>4 DEF Nodes
  <2>5. QED
    BY <2>2, <2>4 DEF CommitInv, RootCommits
<1>6. CASE BuildDone
  <2>1. call = [fn |-> "build", i |-> 0] /\ leaf_capacity \in Nat /\ leaf_capacity > 0
    BY <1>6 DEF BuildDone, TypeOK, CallOK, Idle
  <2>2. call' = Idle /\ committed' = tree /\ UNCHANGED <<leaf_capacity, tree, proof>>
    BY <1>6 DEF BuildDone
  <2>3. tree = [k \in Nodes(leaf_capacity) |-> tree[k]]
    BY DEF TypeOK
  <2>4. DOMAIN tree = Nodes(leaf_capacity)
    BY <2>3
  <2>5. proof # NoProof => proof.width[0] = leaf_capacity
    BY <2>1 DEF LevelInv
  <2>6. \A k \in Nodes(leaf_capacity) :
          2 * k \in Nodes(leaf_capacity) => tree[k] = HashPair(tree[2 * k], tree[2 * k + 1])
    BY <2>1 DEF CommitInv, Nodes
  <2>7. \E cap \in Nat \ {0} : DOMAIN committed' = Nodes(cap)
    BY <2>1, <2>2, <2>4
  <2>8. /\ committed' = [k \in Nodes(leaf_capacity') |-> committed'[k]]
        /\ proof' # NoProof => committed' = [k \in Nodes(proof'.width[0]) |-> committed'[k]]
    BY <2>2, <2>3, <2>5
  <2>9. QED
    BY <2>2, <2>4, <2>6, <2>7, <2>8 DEF CommitInv, RootCommits, Idle
<1>7. CASE TakeSibling
  <2>1. ProofOK /\ call = [fn |-> "get_proof", idx |-> call.idx, cap |-> call.cap]
    BY <1>7 DEF TakeSibling, TypeOK, CallOK, Idle
  <2>2. proof # NoProof /\ 0 \in 0..(proof.len + 1) /\ proof.len + 1 # 0
    BY <2>1 DEF ProofOK, NoProof
  <2>3. proof'.width[0] = proof.width[0]
    BY <1>7, <2>1, <2>2 DEF TakeSibling, ProofOK, Extend
  <2>4. QED
    BY <1>1, <1>7, <2>1, <2>2, <2>3 DEF TakeSibling, treeVars
<1>8. ASSUME NEW idx \in LeafIndexes, GetProof(idx) PROVE CommitInv'
  <2>1. proof'.width[0] = leaf_capacity /\ UNCHANGED treeVars /\ leaf_capacity > 0
        /\ call'.fn = "get_proof"
    BY <1>8 DEF GetProof
  <2>2. QED
    BY <2>1 DEF CommitInv, RootCommits, treeVars
<1>9. ASSUME NEW k \in LeafIndexes, NEW hash, CorruptProof(k, hash) PROVE CommitInv'
  <2>1. ProofOK
    BY <1>9 DEF CorruptProof, TypeOK
  <2>2. proof'.width = proof.width
    BY <1>9, <2>1 DEF CorruptProof, ProofOK
  <2>3. QED
    BY <1>1, <1>9, <2>2 DEF CorruptProof, Idle, treeVars
<1>10. CASE UNCHANGED vars
  BY <1>10 DEF vars, CommitInv, RootCommits
<1>11. CASE DoublePower \/ AllocateNodes
  <2>1. proof = NoProof /\ call'.fn \in {"next_power_of_two", "create"}
    BY <1>11 DEF DoublePower, AllocateNodes, TypeOK, CallOK, Idle
  <2>2. QED
    BY <1>1, <1>11, <2>1 DEF DoublePower, AllocateNodes, treeVars
<1>12. CASE PowerOverflows \/ AllocateNodesFails \/ AllocateTreeFails
  BY <1>1, <1>12 DEF PowerOverflows, AllocateNodesFails, AllocateTreeFails, Idle, treeVars
<1>13. CASE TakeSiblingFails \/ ProofDone
  BY <1>1, <1>13 DEF TakeSiblingFails, ProofDone, Idle, treeVars
<1>14. CASE FoldSibling
  <2>1. /\ call = [fn |-> "verify_proof", leaf_hash |-> call.leaf_hash, path |-> call.path,
                   len |-> call.len, leaf_idx |-> call.leaf_idx, i |-> call.i,
                   current |-> call.current, bits |-> call.bits]
    BY <1>14 DEF FoldSibling, TypeOK, CallOK, Idle
  <2>2. call'.fn = "verify_proof"
    BY <1>14, <2>1 DEF FoldSibling
  <2>3. QED
    BY <1>1, <1>14, <2>2 DEF FoldSibling, treeVars
<1>15. CASE VerifyDone
  BY <1>1, <1>15 DEF VerifyDone, Idle, treeVars
<1>16. CASE Destroy \/ FreeProof
  BY <1>1, <1>16 DEF Destroy, FreeProof, Idle, treeVars
<1>17. ASSUME NEW idx \in LeafIndexes, NEW hash, SetLeaf(idx, hash) PROVE CommitInv'
  BY <1>1, <1>17 DEF SetLeaf, Idle
<1>18. CASE Verify
  BY <1>1, <1>18 DEF Verify, VerifyProof, treeVars
<1>grow. CASE GrowProof
  <2>1. call'.fn = "get_proof"
    BY <1>grow DEF GrowProof, TypeOK, CallOK, Idle
  <2>. QED  BY <1>1, <1>grow, <2>1 DEF GrowProof, treeVars
<1>19. QED
  BY <1>2, <1>3, <1>4, <1>5, <1>6, <1>7, <1>8, <1>9, <1>10, <1>11, <1>12, <1>13, <1>14,
     <1>15, <1>16, <1>17, <1>18, <1>grow DEF Next, Step, Call

\* One iteration of verify_proof keeps the fourth part.
LEMMA FoldKeepsVerifyInv ==
  TypeOK /\ LevelInv /\ CommitInv /\ VerifyInv /\ FoldSibling => VerifyInv'
<1> SUFFICES ASSUME TypeOK, LevelInv, CommitInv, VerifyInv, FoldSibling, IsHonest'
             PROVE  /\ call'.current = committed'[proof'.trail[call'.i]]
                    /\ call'.bits = proof'.trail[call'.i] - proof'.width[call'.i]
  BY DEF VerifyInv
<1> DEFINE i == call.i
           c == proof.width[0]
           v == proof.width[i + 1]
           n == proof.trail[i]
           m == proof.trail[i + 1]
           sibling == proof.path[i]
<1>1. /\ call = [fn |-> "verify_proof", leaf_hash |-> call.leaf_hash, path |-> call.path,
                 len |-> call.len, leaf_idx |-> call.leaf_idx, i |-> call.i,
                 current |-> call.current, bits |-> call.bits]
      /\ call.bits \in Nat /\ i \in 0..call.len /\ i < call.len
      /\ ProofOK /\ committed # NULL
  BY DEF FoldSibling, TypeOK, CallOK, Idle
<1>2. call' = [fn |-> "verify_proof", leaf_hash |-> call.leaf_hash, path |-> call.path,
               len |-> call.len, leaf_idx |-> call.leaf_idx, i |-> i + 1,
               current |-> Fold(call.bits, call.current, call.path[i]),
               bits |-> call.bits \div 2]
      /\ UNCHANGED <<proof, committed>>
  BY <1>1 DEF FoldSibling, treeVars
<1>3. IsHonest
  BY <1>2 DEF IsHonest
<1>4. /\ proof # NoProof /\ proof.len \in Nat /\ i \in 0..(proof.len - 1)
      /\ i \in 0..proof.len /\ i + 1 \in 0..proof.len /\ 0 \in 0..proof.len
  BY <1>1, <1>3 DEF ProofOK, NoProof, IsHonest
<1>5. c \in Nat /\ v \in Nat /\ n \in Nat /\ m \in Nat
  BY <1>1, <1>4 DEF ProofOK
<1>6. /\ v # 0 /\ proof.width[i] = 2 * v /\ 2 * v <= c /\ 2 * v <= n /\ n < 4 * v
      /\ m = n \div 2
  BY <1>4, <1>5 DEF LevelInv
<1>7. proof.source = committed => sibling = committed[Sibling(n)]
  BY <1>1, <1>4 DEF LevelInv
<1>8. /\ call.current = committed[n] /\ call.bits = n - 2 * v
      /\ call.path[i] = committed[Sibling(n)]
  BY <1>1, <1>3, <1>6, <1>7 DEF VerifyInv, IsHonest
<1> HIDE DEF i, c, v, n, m, sibling
<1>9. call.bits % 2 = n % 2 /\ call.bits \div 2 = m - v
  <2>1. \A a, b \in Nat : 2 * b <= a => (a - 2 * b) % 2 = a % 2 /\ (a - 2 * b) \div 2 = a \div 2 - b
    OBVIOUS
  <2>. QED  BY <1>5, <1>6, <1>8, <2>1
<1>10. committed[m] = HashPair(committed[2 * m], committed[2 * m + 1])
  <2>1. m \in Nodes(c) /\ 2 * m \in Nodes(c)
    BY <1>5, <1>6 DEF Nodes
  <2>2. DOMAIN committed = Nodes(c)
    BY <1>1, <1>4 DEF CommitInv, c
  <2>3. QED
    BY <1>1, <2>1, <2>2 DEF CommitInv, RootCommits
<1>11. Fold(call.bits, call.current, call.path[i]) = committed[m]
  <2>1. CASE n % 2 = 0
    <3>1. n = 2 * m /\ Sibling(n) = 2 * m + 1
      BY <1>5, <1>6, <2>1 DEF Sibling
    <3>. QED  BY <1>8, <1>9, <1>10, <2>1, <3>1 DEF Fold
  <2>2. CASE n % 2 = 1
    <3>1. n = 2 * m + 1 /\ Sibling(n) = 2 * m
      BY <1>5, <1>6, <2>2 DEF Sibling
    <3>. QED  BY <1>8, <1>9, <1>10, <2>2, <3>1 DEF Fold
  <2>3. QED
    BY <1>5, <2>1, <2>2
<1>. QED  BY <1>2, <1>9, <1>11 DEF m, v

LEMMA VerifyNext ==
  TypeOK /\ LevelInv /\ CommitInv /\ VerifyInv /\ [Next]_vars => VerifyInv'
<1> SUFFICES ASSUME TypeOK, LevelInv, CommitInv, VerifyInv, [Next]_vars PROVE VerifyInv'
  OBVIOUS
<1>1. CASE FoldSibling
  BY <1>1, FoldKeepsVerifyInv
<1>2. CASE Verify
  <2>1. PICK hash \in Claims, len \in 0..(proof.len + 1), idx \in LeafIndexes :
          \E path \in PathsHeld(len) : VerifyProof(hash, path, len, idx)
    BY <1>2 DEF Verify
  <2>2. /\ call'.leaf_hash = hash /\ call'.leaf_idx = idx /\ call'.i = 0
        /\ call'.current = hash /\ call'.bits = idx
        /\ UNCHANGED <<proof, committed>> /\ ProofOK /\ proof # NoProof
    BY <1>2, <2>1 DEF Verify, VerifyProof, treeVars, TypeOK
  <2>3. /\ proof.width[0] \in Nat /\ proof.leaf_idx \in Nat
        /\ proof.trail[0] = proof.width[0] + proof.leaf_idx
    <3>1. 0 \in 0..proof.len
      BY <2>2 DEF ProofOK
    <3>2. QED
      BY <2>2, <3>1 DEF ProofOK, LevelInv
  <2>. QED  BY <2>2, <2>3 DEF VerifyInv, IsHonest
<1>3. ASSUME call'.fn # "verify_proof" PROVE VerifyInv'
  BY <1>3 DEF VerifyInv
<1>4. CASE UNCHANGED vars
  BY <1>4 DEF vars, VerifyInv, IsHonest
<1>5. CASE DoublePower \/ PowerOverflows \/ AllocateNodes \/ AllocateNodesFails
           \/ AllocateTree \/ AllocateTreeFails
  <2>1. call'.fn # "verify_proof"
    BY <1>5 DEF DoublePower, PowerOverflows, AllocateNodes, AllocateNodesFails, AllocateTree,
                AllocateTreeFails, TypeOK, CallOK, Idle
  <2>2. QED
    BY <1>3, <2>1
<1>6. CASE BuildNode \/ BuildDone \/ Build
  <2>1. call'.fn # "verify_proof"
    BY <1>6 DEF BuildNode, BuildDone, Build, Idle, TypeOK, CallOK
  <2>2. QED
    BY <1>3, <2>1
<1>7. CASE GrowProof \/ TakeSibling \/ TakeSiblingFails \/ ProofDone \/ VerifyDone
  <2>1. call'.fn # "verify_proof"
    BY <1>7 DEF GrowProof, TakeSibling, TakeSiblingFails, ProofDone, VerifyDone, Idle, TypeOK, CallOK
  <2>2. QED
    BY <1>3, <2>1
<1>8. CASE Destroy \/ FreeProof
  BY <1>3, <1>8 DEF Destroy, FreeProof, Idle
<1>9. ASSUME NEW n \in LeafArgs, Create(n) PROVE VerifyInv'
  BY <1>3, <1>9 DEF Create
<1>10. ASSUME NEW idx \in LeafIndexes, NEW hash, SetLeaf(idx, hash) PROVE VerifyInv'
  BY <1>3, <1>10 DEF SetLeaf, Idle
<1>11. ASSUME NEW idx \in LeafIndexes, GetProof(idx) PROVE VerifyInv'
  BY <1>3, <1>11 DEF GetProof
<1>12. ASSUME NEW k \in LeafIndexes, NEW hash, CorruptProof(k, hash) PROVE VerifyInv'
  BY <1>3, <1>12 DEF CorruptProof, Idle
<1>13. QED
  BY <1>1, <1>2, <1>4, <1>5, <1>6, <1>7, <1>8, <1>9, <1>10, <1>11, <1>12 DEF Next, Step, Call

\* The inductive invariant of the module.
IInv == TypeOK /\ PowerInv /\ LevelInv /\ CommitInv /\ VerifyInv

LEMMA Inductive == Spec => []IInv
<1>1. Init => IInv
  <2>1. Init => PowerInv /\ LevelInv /\ CommitInv /\ VerifyInv
    BY DEF Init, PowerInv, LevelInv, CommitInv, VerifyInv, CapacityLeast, RootCommits, Idle
  <2>2. QED
    BY <2>1, TypeInit DEF IInv
<1>2. IInv /\ [Next]_vars => IInv'
  BY TypeNext, PowerNext, LevelNext, CommitNext, VerifyNext DEF IInv
<1>3. QED
  BY <1>1, <1>2, PTL DEF Spec

\* create never returns a tree whose capacity is too small, not a power of two,
\* twice too large, or whose node array was sized by a wrapped product.
THEOREM CapacityCorrect == Spec => []CapacityLeast
<1>1. IInv => CapacityLeast
  BY DEF IInv, PowerInv
<1>2. QED
  BY <1>1, Inductive, PTL

\* After every build, for every capacity and every order and choice of leaves,
\* the root is the hash of the whole tree.
THEOREM RootCorrect == Spec => []RootCommits
<1>1. IInv => RootCommits
  BY DEF IInv, CommitInv
<1>2. QED
  BY <1>1, Inductive, PTL

\* A path get_proof took from the published tree is accepted for its leaf, for
\* every capacity, also after later changes of the tree and after its end.
THEOREM CompletenessCorrect == Spec => []Completeness
<1>1. IInv => Completeness
  <2>. SUFFICES ASSUME IInv, Verdict, IsHonest PROVE Accepted
    BY DEF Completeness, IsHonest
  <2>1. call.fn = "verify_proof" /\ call.i = proof.len /\ ProofOK
    BY DEF Verdict, IsHonest, IInv, TypeOK, CallOK, Idle
  <2>2. /\ proof # NoProof /\ proof.len \in 0..proof.len
        /\ proof.width[proof.len] \in Nat /\ proof.trail[proof.len] \in Nat
    BY <2>1 DEF ProofOK, NoProof
  <2>3. proof.width[proof.len] = 1 /\ proof.trail[proof.len] = 1
    BY <2>1, <2>2 DEF IInv, LevelInv
  <2>. QED  BY <2>1, <2>3 DEF IInv, VerifyInv, Accepted
<1>2. QED
  BY <1>1, Inductive, PTL

------------------------------------------------------------------------------
\* The blocks of a proof are no other block, and taking a sibling adds to them.
LEMMA BlocksDistinct ==
  /\ \A len : ProofBlocks(len) \cap
               {<<"nodes">>, <<"tree">>, <<"buf">>, <<"current">>} = {}
  /\ <<"nodes">> # <<"tree">> /\ <<"nodes">> # <<"buf">> /\ <<"nodes">> # <<"current">>
  /\ <<"tree">> # <<"buf">> /\ <<"tree">> # <<"current">> /\ <<"buf">> # <<"current">>
  /\ \A len : <<"sibling", len>> \notin {<<"nodes">>, <<"tree">>, <<"buf">>, <<"current">>}
  /\ <<"proof">> \notin {<<"nodes">>, <<"tree">>, <<"buf">>, <<"current">>}
  /\ \A len \in Nat : /\ ProofBlocks(len + 1)
                          = {<<"proof">>} \cup ProofBlocks(len) \cup {<<"sibling", len>>}
                      /\ len # 0 => <<"proof">> \in ProofBlocks(len)
  /\ ProofBlocks(0) = {}
<1>1. \A k : /\ <<"sibling", k>> # <<"nodes">> /\ <<"sibling", k>> # <<"tree">>
             /\ <<"sibling", k>> # <<"buf">> /\ <<"sibling", k>> # <<"current">>
  OBVIOUS
<1>2. /\ <<"proof">> # <<"nodes">> /\ <<"proof">> # <<"tree">>
      /\ <<"proof">> # <<"buf">> /\ <<"proof">> # <<"current">>
  OBVIOUS
<1>3. \A len : ProofBlocks(len) \cap {<<"nodes">>, <<"tree">>, <<"buf">>, <<"current">>} = {}
  BY <1>1, <1>2 DEF ProofBlocks
<1>4. ASSUME NEW len \in Nat
      PROVE  ProofBlocks(len + 1) = {<<"proof">>} \cup ProofBlocks(len) \cup {<<"sibling", len>>}
  <2>1. \A k : k \in 0..((len + 1) - 1) <=> k \in 0..(len - 1) \/ k = len
    OBVIOUS
  <2>2. len = 0 => 0..(len - 1) = {}
    OBVIOUS
  <2>. QED  BY <2>1, <2>2 DEF ProofBlocks
<1>5. QED
  BY <1>1, <1>2, <1>3, <1>4 DEF ProofBlocks

LEMMA HeapNext == TypeOK /\ HeapOwned /\ [Next]_vars => HeapOwned'
<1> SUFFICES ASSUME TypeOK, HeapOwned, [Next]_vars PROVE HeapOwned'
  OBVIOUS
<1> USE BlocksDistinct DEF HeapOwned
<1>1. CASE DoublePower
  BY <1>1 DEF DoublePower, TypeOK, CallOK, ProofOK, Idle, NoProof, treeVars
<1>2. CASE PowerOverflows
  BY <1>2 DEF PowerOverflows, TypeOK, CallOK, ProofOK, Idle, NoProof, treeVars
<1>3. CASE AllocateNodes
  BY <1>3 DEF AllocateNodes, TypeOK, CallOK, ProofOK, Idle, NoProof, treeVars
<1>4. CASE AllocateNodesFails
  BY <1>4 DEF AllocateNodesFails, TypeOK, CallOK, ProofOK, Idle, NoProof, treeVars
<1>5. CASE AllocateTree
  <2>1. /\ call.fn = "create" /\ call'.fn = "idle" /\ proof = NoProof /\ proof' = proof
        /\ leaf_capacity = 0 /\ leaf_capacity' > 0 /\ heap' = heap \cup {<<"tree">>}
    BY <1>5 DEF AllocateTree, TypeOK, CallOK, Idle
  <2>. QED  BY <2>1
<1>6. CASE AllocateTreeFails
  <2>1. /\ call.fn = "create" /\ call'.fn = "idle" /\ proof = NoProof /\ proof' = proof
        /\ leaf_capacity = 0 /\ leaf_capacity' = 0 /\ heap' = heap \ {<<"nodes">>}
    BY <1>6 DEF AllocateTreeFails, TypeOK, CallOK, Idle, treeVars
  <2>. QED  BY <2>1
<1>7. CASE BuildNode
  <2>1. /\ call.fn = "build" /\ call'.fn = "build"
        /\ UNCHANGED <<proof, leaf_capacity, heap>>
    BY <1>7 DEF BuildNode, TypeOK, CallOK, Idle
  <2>. QED  BY <2>1
<1>8. CASE BuildDone
  <2>1. /\ call.fn = "build" /\ call'.fn = "idle" /\ heap' = heap \ {<<"buf">>}
        /\ UNCHANGED <<proof, leaf_capacity>>
    BY <1>8 DEF BuildDone, Idle
  <2>. QED  BY <2>1
<1> DEFINE Tree == IF leaf_capacity > 0 THEN {<<"nodes">>, <<"tree">>} ELSE {}
           Array(n) == IF n > 0 THEN {<<"proof">>} ELSE {}
<1>walk. ASSUME call.fn = "get_proof"
         PROVE  /\ ProofOK /\ call = [fn |-> "get_proof", idx |-> call.idx, cap |-> call.cap]
                /\ proof # NoProof /\ proof.len \in Nat /\ call.cap \in Nat
                /\ proof.len <= call.cap /\ (call.cap > 0 /\ proof.len = 0 => call.idx > 1)
                /\ heap = Tree \cup ProofBlocks(proof.len) \cup Array(call.cap)
  <2>1. /\ ProofOK /\ call = [fn |-> "get_proof", idx |-> call.idx, cap |-> call.cap]
        /\ call.cap \in Nat /\ proof.len <= call.cap
        /\ (call.cap > 0 /\ proof.len = 0 => call.idx > 1)
    BY <1>walk DEF TypeOK, CallOK, Idle
  <2>2. proof # NoProof /\ proof.len \in Nat
    BY <2>1 DEF ProofOK, NoProof
  <2>. QED  BY <1>walk, <2>1, <2>2
<1>grow. CASE GrowProof
  <2>1. call.fn = "get_proof"
    BY <1>grow DEF GrowProof
  <2>2. call'.fn = "get_proof" /\ call'.cap > 0 /\ UNCHANGED <<proof, leaf_capacity>>
    BY <1>grow, <1>walk, <2>1 DEF GrowProof, treeVars
  <2>3. heap' = heap \cup {<<"proof">>}
    BY <1>grow DEF GrowProof
  <2>4. heap' = Tree \cup ProofBlocks(proof.len) \cup {<<"proof">>}
    BY <1>walk, <2>1, <2>3
  <2>. QED  BY <1>walk, <2>1, <2>2, <2>4
<1>9. CASE TakeSibling
  <2>1. call.fn = "get_proof" /\ call.cap > 0
    BY <1>9, <1>walk DEF TakeSibling
  <2>2. /\ call'.fn = "get_proof" /\ call'.cap = call.cap
        /\ proof'.len = proof.len + 1 /\ leaf_capacity' = leaf_capacity
    BY <1>9, <1>walk, <2>1 DEF TakeSibling, ProofOK, treeVars
  <2>3. proof' # NoProof
    BY <1>walk, <2>1, <2>2 DEF NoProof
  <2>4. heap' = heap \cup {<<"sibling", proof.len>>}
    BY <1>9 DEF TakeSibling
  <2>5. heap' = Tree \cup ProofBlocks(proof.len + 1) \cup {<<"proof">>}
    BY <1>walk, <2>1, <2>4
  <2>. QED  BY <1>walk, <2>1, <2>2, <2>3, <2>5
<1>10. CASE TakeSiblingFails
  <2>1. call.fn = "get_proof"
    BY <1>10 DEF TakeSiblingFails
  <2>2. call'.fn = "idle" /\ proof' = NoProof /\ leaf_capacity' = leaf_capacity
    BY <1>10 DEF TakeSiblingFails, Idle, treeVars
  <2>3. heap' = heap \ ({<<"proof">>} \cup ProofBlocks(proof.len))
    BY <1>10 DEF TakeSiblingFails
  <2>4. heap' = Tree
    BY <1>walk, <2>1, <2>3
  <2>. QED  BY <2>2, <2>4
<1>11. CASE ProofDone
  <2>1. call.fn = "get_proof" /\ ~(call.idx > 1)
    <3>1. call.fn = "get_proof" /\ call.idx <= 1
      BY <1>11 DEF ProofDone
    <3>2. call.idx \in Nodes(leaf_capacity)
      BY <3>1 DEF TypeOK, CallOK, Idle
    <3>. QED  BY <3>1, <3>2 DEF Nodes
  <2>2. call'.fn = "idle" /\ UNCHANGED <<heap, proof, leaf_capacity>>
    BY <1>11 DEF ProofDone, Idle, treeVars
  <2>3. Array(call.cap) \subseteq ProofBlocks(proof.len)
    BY <1>walk, <2>1
  <2>. QED  BY <1>walk, <2>1, <2>2, <2>3
<1>12. CASE FoldSibling
  BY <1>12 DEF FoldSibling, TypeOK, CallOK, ProofOK, Idle, NoProof, treeVars
<1>13. CASE VerifyDone
  BY <1>13 DEF VerifyDone, Verdict, TypeOK, CallOK, ProofOK, Idle, NoProof, treeVars
<1>14. ASSUME NEW n \in LeafArgs, Create(n) PROVE HeapOwned'
  <2>1. /\ call.fn = "idle" /\ call'.fn = "next_power_of_two"
        /\ UNCHANGED <<heap, proof, leaf_capacity>>
    BY <1>14 DEF Create, Idle
  <2>. QED  BY <2>1
<1>15. CASE Destroy
  BY <1>15 DEF Destroy, TypeOK, CallOK, ProofOK, Idle, NoProof, treeVars
<1>16. ASSUME NEW idx \in LeafIndexes, NEW hash, SetLeaf(idx, hash) PROVE HeapOwned'
  BY <1>16 DEF SetLeaf, TypeOK, CallOK, ProofOK, Idle, NoProof, treeVars
<1>17. CASE Build
  <2>1. /\ call.fn = "idle" /\ call'.fn = "build" /\ heap' = heap \cup {<<"buf">>}
        /\ UNCHANGED <<proof, leaf_capacity>>
    BY <1>17 DEF Build, Idle, treeVars
  <2>. QED  BY <2>1
<1>18. ASSUME NEW idx \in LeafIndexes, GetProof(idx) PROVE HeapOwned'
  <2>1. /\ call.fn = "idle" /\ call'.fn = "get_proof" /\ call'.cap = 0
        /\ proof = NoProof /\ proof'.len = 0 /\ UNCHANGED <<heap, leaf_capacity>>
    BY <1>18 DEF GetProof, Idle, treeVars
  <2>. QED  BY <2>1
<1>19. CASE FreeProof
  BY <1>19 DEF FreeProof, TypeOK, CallOK, ProofOK, Idle, NoProof, treeVars
<1>20. ASSUME NEW k \in LeafIndexes, NEW hash, CorruptProof(k, hash) PROVE HeapOwned'
  BY <1>20 DEF CorruptProof, TypeOK, CallOK, ProofOK, Idle, NoProof, treeVars
<1>21. CASE Verify
  <2>1. call.fn = "idle" /\ call'.fn = "verify_proof"
    BY <1>21 DEF Verify, VerifyProof, Idle
  <2>2. heap' = heap \cup {<<"current">>, <<"buf">>} /\ UNCHANGED <<proof, leaf_capacity>>
    BY <1>21 DEF Verify, VerifyProof, treeVars
  <2>. QED  BY <2>1, <2>2
<1>22. CASE UNCHANGED vars
  BY <1>22 DEF vars
<1>23. QED
  BY <1>1, <1>2, <1>3, <1>4, <1>5, <1>6, <1>7, <1>8, <1>9, <1>10, <1>11, <1>12, <1>13, <1>14, <1>15, <1>16, <1>17, <1>18, <1>19, <1>20, <1>21, <1>22,
     <1>grow DEF Next, Step, Call

\* No call leaks a block or frees one it does not own, whichever malloc fails.
THEOREM HeapCorrect == Spec => []HeapOwned
<1>1. Init => HeapOwned
  BY DEF Init, HeapOwned, Idle
<1>2. QED
  BY <1>1, TypeInit, TypeNext, HeapNext, PTL DEF Spec

------------------------------------------------------------------------------
\* The two notions of a power of two.
LEMMA Pow2IsPower ==
  ASSUME NEW p \in Nat \ {0}, IsPow2(p)
  PROVE  \E d \in Nat : p = Power[d]
<1>. DEFINE Good == {m \in Nat : \A q \in 1..m : IsPow2(q) => \E d \in Nat : q = Power[d]}
<1>1. 0 \in Good
  OBVIOUS
<1>2. ASSUME NEW m \in Nat, m \in Good
      PROVE  m + 1 \in Good
  <2>. SUFFICES ASSUME NEW q \in 1..(m + 1), IsPow2(q)
                PROVE  \E d \in Nat : q = Power[d]
    OBVIOUS
  <2>1. CASE q = 1
    BY <2>1, PowerDef
  <2>2. CASE q # 1
    <3>1. q \div 2 \in Nat \ {0} /\ IsPow2(q \div 2) /\ q = 2 * (q \div 2)
      BY <2>2, Pow2Half
    <3>2. q \div 2 \in 1..m
      BY <3>1
    <3>3. PICK d \in Nat : q \div 2 = Power[d]
      BY <1>2, <3>1, <3>2
    <3>4. Power[d + 1] = 2 * Power[d] /\ d + 1 \in Nat
      BY PowerDef
    <3>5. q = Power[d + 1]
      BY <3>1, <3>3, <3>4
    <3>. QED  BY <3>4, <3>5
  <2>. QED  BY <2>1, <2>2
<1>3. Nat \subseteq Good
  <2>. HIDE DEF Good
  <2>. QED  BY <1>1, <1>2, Induction
<1>. QED  BY <1>3

\* A power that holds n leaves while its half does not is the capacity for n leaves.
LEMMA CapacityIs ==
  ASSUME NEW n \in Nat \ {0}, NEW p \in Nat \ {0}, IsPow2(p), n <= p, p = 1 \/ p \div 2 < n
  PROVE  p = LeafCapacity(n)
<1>1. PICK d \in Nat : p = Power[d]
  BY Pow2IsPower
<1>2. PICK e \in Nat : e = Depth(n)
  BY DepthDef
<1>3. n <= Power[e] /\ \A c \in 0..(e - 1) : Power[c] < n
  BY <1>2, DepthDef
<1>4. ~(d < e)
  BY <1>1, <1>3
<1>5. ~(e < d)
  <2>. SUFFICES ASSUME e < d PROVE FALSE
    OBVIOUS
  <2>1. d - 1 \in Nat /\ (d - 1) + 1 = d
    OBVIOUS
  <2>2. Power[d] = 2 * Power[d - 1] /\ Power[d - 1] \in Nat \ {0} /\ Power[e] \in Nat
    BY <2>1, PowerDef
  <2>3. Power[d - 1] < n
    BY <1>1, <2>2
  <2>4. e = d - 1 \/ Power[e] < Power[d - 1]
    BY <2>1, PowerGrows
  <2>. QED  BY <1>3, <2>2, <2>3, <2>4
<1>. QED  BY <1>1, <1>2, <1>4, <1>5 DEF LeafCapacity

\* Fifth part: get_proof has taken the siblings of its walk, whether or not the tree
\* is the published one, and verify_proof has folded as much as it has counted.
OpsInv ==
  /\ call.fn = "get_proof" =>
       \A k \in 0..(proof.len - 1) : proof.path[k] = tree[Sibling(proof.trail[k])]
  /\ call.fn = "verify_proof" =>
       /\ call.bits = Shifted(call.leaf_idx)[call.i]
       /\ call.current = Folded(call.leaf_hash, call.path, call.len, call.leaf_idx)[call.i]

LEMMA OpsTakeSibling ==
  ASSUME TypeOK, LevelInv, OpsInv, TakeSibling
  PROVE  OpsInv'
<1>1. /\ call = [fn |-> "get_proof", idx |-> call.idx, cap |-> call.cap] /\ ProofOK
      /\ UNCHANGED tree
  BY DEF TakeSibling, TypeOK, CallOK, Idle, treeVars
<1>. DEFINE n == proof.len
<1>2. proof # NoProof /\ n \in Nat /\ proof.trail[n] = call.idx
  BY <1>1 DEF ProofOK, NoProof, LevelInv
<1>3. /\ proof'.len = n + 1 /\ proof'.path = Extend(proof.path, n, tree[Sibling(call.idx)])
      /\ proof'.trail = Extend(proof.trail, n + 1, call.idx \div 2) /\ call'.fn = "get_proof"
  BY <1>1 DEF TakeSibling, ProofOK
<1>4. \A i \in 0..n : proof'.trail[i] = proof.trail[i]
                      /\ proof'.path[i] = IF i = n THEN tree[Sibling(call.idx)] ELSE proof.path[i]
  BY <1>2, <1>3 DEF Extend
<1>5. \A i \in 0..n : i = n \/ i \in 0..(n - 1)
  BY <1>2
<1>6. \A i \in 0..n : proof'.path[i] = tree[Sibling(proof'.trail[i])]
  BY <1>1, <1>2, <1>4, <1>5 DEF OpsInv
<1>. QED  BY <1>1, <1>2, <1>3, <1>6 DEF OpsInv

LEMMA OpsFoldSibling ==
  ASSUME TypeOK, OpsInv, FoldSibling
  PROVE  OpsInv'
<1>1. /\ call = [fn |-> "verify_proof", leaf_hash |-> call.leaf_hash, path |-> call.path,
                 len |-> call.len, leaf_idx |-> call.leaf_idx, i |-> call.i,
                 current |-> call.current, bits |-> call.bits]
      /\ call.leaf_idx \in Nat /\ call.i \in 0..call.len /\ call.len \in Nat
  BY DEF FoldSibling, TypeOK, CallOK, Idle
<1>2. PICK i \in 0..(call.len - 1) : i = call.i
  BY <1>1 DEF FoldSibling
<1>. DEFINE f == Folded(call.leaf_hash, call.path, call.len, call.leaf_idx)
            bits == Shifted(call.leaf_idx)
<1>3. /\ call'.fn = "verify_proof" /\ call'.i = i + 1 /\ call'.bits = call.bits \div 2
      /\ call'.current = Fold(call.bits, call.current, call.path[i])
      /\ call'.leaf_hash = call.leaf_hash /\ call'.leaf_idx = call.leaf_idx
      /\ call'.path = call.path /\ call'.len = call.len
  BY <1>1, <1>2 DEF FoldSibling
<1>4. f[i + 1] = Fold(bits[i], f[i], call.path[i])
  BY <1>1, <1>2, FoldedDef
<1>5. bits[i + 1] = bits[i] \div 2
  <2>1. i \in Nat
    BY <1>1, <1>2
  <2>. QED  BY <1>1, <2>1, ShiftedDef
<1>6. call.bits = bits[i] /\ call.current = f[i]
  BY <1>1, <1>2 DEF OpsInv
<1>7. Folded(call.leaf_hash, call.path, call.len, call.leaf_idx)' = f /\ Shifted(call.leaf_idx)' = bits
  BY <1>3
<1>. HIDE DEF f, bits
<1>. QED  BY <1>3, <1>4, <1>5, <1>6, <1>7 DEF OpsInv

LEMMA OpsVerify ==
  ASSUME TypeOK, Verify
  PROVE  OpsInv'
<1>1. PICK hash \in Claims, len \in 0..(proof.len + 1), idx \in LeafIndexes :
        \E path \in PathsHeld(len) : VerifyProof(hash, path, len, idx)
  BY DEF Verify
<1>2. PICK path \in PathsHeld(len) : VerifyProof(hash, path, len, idx)
  BY <1>1
<1>3. /\ call'.fn = "verify_proof" /\ call'.i = 0 /\ call'.bits = idx /\ call'.current = hash
      /\ call'.leaf_hash = hash /\ call'.leaf_idx = idx /\ call'.path = path /\ call'.len = len
  BY <1>2 DEF VerifyProof
<1>4. idx \in Nat /\ len \in Nat
  BY DEF Verify, TypeOK, ProofOK
<1>5. Shifted(idx)[0] = idx
  BY <1>4, ShiftedDef
<1>6. Folded(hash, path, len, idx)[0] = hash
  BY <1>4, FoldedDef
<1>. QED  BY <1>3, <1>5, <1>6 DEF OpsInv

LEMMA OpsNext == TypeOK /\ LevelInv /\ OpsInv /\ [Next]_vars => OpsInv'
<1>. SUFFICES ASSUME TypeOK, LevelInv, OpsInv, [Next]_vars PROVE OpsInv'
  OBVIOUS
<1>1. ASSUME call'.fn \notin {"get_proof", "verify_proof"} PROVE OpsInv'
  BY <1>1 DEF OpsInv
<1>2. CASE DoublePower \/ PowerOverflows \/ AllocateNodes \/ AllocateNodesFails
           \/ AllocateTree \/ AllocateTreeFails
  <2>1. call'.fn \notin {"get_proof", "verify_proof"}
    BY <1>2 DEF DoublePower, PowerOverflows, AllocateNodes, AllocateNodesFails, AllocateTree,
                AllocateTreeFails, TypeOK, CallOK, Idle
  <2>. QED  BY <1>1, <2>1
<1>3. CASE BuildNode \/ BuildDone \/ Build
  <2>1. call'.fn \notin {"get_proof", "verify_proof"}
    BY <1>3 DEF BuildNode, BuildDone, Build, Idle, TypeOK, CallOK
  <2>. QED  BY <1>1, <2>1
<1>4. CASE TakeSiblingFails \/ ProofDone \/ VerifyDone \/ Destroy \/ FreeProof
  BY <1>1, <1>4 DEF TakeSiblingFails, ProofDone, VerifyDone, Destroy, FreeProof, Idle
<1>5. ASSUME NEW n \in LeafArgs, Create(n) PROVE OpsInv'
  BY <1>1, <1>5 DEF Create
<1>6. ASSUME NEW idx \in LeafIndexes, NEW hash, SetLeaf(idx, hash) PROVE OpsInv'
  BY <1>1, <1>6 DEF SetLeaf, Idle
<1>7. ASSUME NEW idx \in LeafIndexes, GetProof(idx) PROVE OpsInv'
  BY <1>7 DEF GetProof, OpsInv
<1>8. ASSUME NEW k \in LeafIndexes, NEW hash, CorruptProof(k, hash) PROVE OpsInv'
  BY <1>1, <1>8 DEF CorruptProof, Idle
<1>9. CASE GrowProof
  <2>1. call = [fn |-> "get_proof", idx |-> call.idx, cap |-> call.cap]
    BY <1>9 DEF GrowProof, TypeOK, CallOK, Idle
  <2>2. call'.fn = "get_proof" /\ UNCHANGED <<proof, tree>>
    BY <1>9, <2>1 DEF GrowProof, treeVars
  <2>. QED  BY <2>1, <2>2 DEF OpsInv
<1>10. CASE UNCHANGED vars
  BY <1>10 DEF vars, OpsInv
<1>. QED  BY <1>2, <1>3, <1>4, <1>5, <1>6, <1>7, <1>8, <1>9, <1>10, OpsTakeSibling,
            OpsFoldSibling, OpsVerify DEF Next, Step, Call

\* build has filled the array it stops at.
LEMMA BuildComputes ==
  ASSUME TypeOK, CommitInv, call.fn = "build", call.i = 0
  PROVE  tree = BuiltTree([k \in 0..(leaf_capacity - 1) |-> tree[leaf_capacity + k]], leaf_capacity)
<1>. DEFINE leaves == [k \in 0..(leaf_capacity - 1) |-> tree[leaf_capacity + k]]
<1>1. leaf_capacity \in Nat \ {0} /\ tree = [k \in Nodes(leaf_capacity) |-> tree[k]]
  BY DEF TypeOK, CallOK, Idle
<1>2. ASSUME NEW k \in Nodes(leaf_capacity)
      PROVE  tree[k] = IF k < leaf_capacity THEN HashPair(tree[2 * k], tree[2 * k + 1])
                                            ELSE Leaf(leaves, k - leaf_capacity)
  <2>1. CASE k < leaf_capacity
    <3>1. 2 * k \in Nodes(leaf_capacity) /\ k > 0
      BY <1>1, <2>1 DEF Nodes
    <3>. QED  BY <2>1, <3>1 DEF CommitInv
  <2>2. CASE ~(k < leaf_capacity)
    <3>1. k - leaf_capacity \in 0..(leaf_capacity - 1) /\ leaf_capacity + (k - leaf_capacity) = k
      BY <1>1, <2>2 DEF Nodes
    <3>. QED  BY <2>2, <3>1 DEF Leaf
  <2>. QED  BY <2>1, <2>2
<1>. HIDE DEF leaves
<1>3. IsBuilt(tree, leaves, leaf_capacity, 1)
  BY <1>1, <1>2 DEF IsBuilt, Nodes
<1>4. tree = BuiltTree(leaves, leaf_capacity)
  BY <1>1, <1>3, TreeDef, TreeUnique
<1>. QED  BY <1>4 DEF leaves

\* A walk that has reached the root has passed every level of the tree.
LEMMA WalkComputes ==
  ASSUME TypeOK, PowerInv, LevelInv, OpsInv, call.fn = "get_proof", call.idx = 1
  PROVE  /\ proof.path = ProofPath(tree, leaf_capacity, proof.leaf_idx)
         /\ proof.len = Depth(leaf_capacity)
<1>1. ProofOK /\ leaf_capacity \in Nat \ {0}
  BY DEF TypeOK, CallOK, Idle, Nodes
<1>2. PICK n \in Nat : n = proof.len
  BY <1>1 DEF ProofOK
<1>3. /\ proof.width \in [0..n -> Nat] /\ proof.trail \in [0..n -> Nat]
      /\ proof.leaf_idx \in Nat /\ proof # NoProof
  BY <1>1, <1>2 DEF ProofOK, NoProof
<1>4. /\ \A k \in 0..n : proof.width[k] # 0 /\ proof.width[k] <= proof.trail[k]
      /\ \A k \in 0..(n - 1) : proof.width[k] = 2 * proof.width[k + 1]
                               /\ proof.trail[k + 1] = proof.trail[k] \div 2
      /\ proof.width[0] = leaf_capacity /\ proof.trail[0] = leaf_capacity + proof.leaf_idx
      /\ proof.trail[n] = 1
  BY <1>1, <1>2, <1>3 DEF LevelInv
<1>5. PICK d \in Nat : leaf_capacity = Power[d]
  BY <1>1, Pow2IsPower DEF PowerInv
<1>6. \A k \in 0..n : k <= d /\ proof.width[k] = Power[d - k]
  <2>. DEFINE Good == {k \in Nat : k <= n => k <= d /\ proof.width[k] = Power[d - k]}
  <2>1. 0 \in Good
    BY <1>4, <1>5
  <2>2. ASSUME NEW k \in Nat, k \in Good
        PROVE  k + 1 \in Good
    <3>. SUFFICES ASSUME k + 1 <= n PROVE k + 1 <= d /\ proof.width[k + 1] = Power[d - (k + 1)]
      OBVIOUS
    <3>1. k <= d /\ Power[d - k] = 2 * proof.width[k + 1] /\ proof.width[k + 1] \in Nat
      <4>1. k \in 0..(n - 1) /\ k <= n /\ k + 1 \in 0..n
        OBVIOUS
      <4>2. k <= d /\ proof.width[k] = Power[d - k]
        BY <2>2, <4>1
      <4>. QED  BY <1>3, <1>4, <4>1, <4>2
    <3>2. k # d
      BY <3>1, PowerDef
    <3>3. d - (k + 1) \in Nat /\ (d - (k + 1)) + 1 = d - k
      BY <3>1, <3>2
    <3>4. Power[d - k] = 2 * Power[d - (k + 1)] /\ Power[d - (k + 1)] \in Nat
      BY <3>3, PowerDef
    <3>. QED  BY <3>1, <3>3, <3>4
  <2>3. Nat \subseteq Good
    <3>. HIDE DEF Good
    <3>. QED  BY <2>1, <2>2, Induction
  <2>. QED  BY <2>3
<1>7. n = d
  <2>1. n \in 0..n /\ n <= d /\ d - n \in Nat /\ proof.width[n] = Power[d - n]
    BY <1>6
  <2>2. proof.width[n] \in Nat /\ proof.width[n] <= 1
    BY <1>3, <1>4, <2>1
  <2>3. d - n < Power[d - n]
    BY <2>1, PowerGrows
  <2>. QED  BY <2>1, <2>2, <2>3
<1>8. Depth(leaf_capacity) = n
  BY <1>5, <1>7, DepthOfPower
<1>. PICK s \in Nat : s = leaf_capacity + proof.leaf_idx
  BY <1>1, <1>3
<1>9. \A k \in 0..n : proof.trail[k] = Shifted(s)[k]
  <2>. DEFINE Good == {k \in Nat : k <= n => proof.trail[k] = Shifted(s)[k]}
  <2>1. Shifted(s)[0] = s /\ \A k \in Nat : Shifted(s)[k + 1] = Shifted(s)[k] \div 2
    BY ShiftedDef
  <2>2. 0 \in Good
    BY <1>4, <2>1
  <2>3. ASSUME NEW k \in Nat, k \in Good
        PROVE  k + 1 \in Good
    BY <1>4, <2>1, <2>3
  <2>4. Nat \subseteq Good
    <3>. HIDE DEF Good
    <3>. QED  BY <2>2, <2>3, Induction
  <2>. QED  BY <2>4
<1>10. \A k \in 0..(n - 1) : proof.path[k] = tree[Sibling(Shifted(s)[k])]
  BY <1>2, <1>9 DEF OpsInv
<1>11. proof.path = [k \in 0..(n - 1) |-> proof.path[k]]
  BY <1>1, <1>2 DEF ProofOK
<1>12. proof.path = [k \in 0..(n - 1) |-> tree[Sibling(Shifted(s)[k])]]
  BY <1>10, <1>11
<1>. QED  BY <1>2, <1>8, <1>12 DEF ProofPath

LEMMA OpsInductive == Spec => []OpsInv
<1>1. Init => OpsInv
  BY DEF Init, OpsInv, Idle
<1>2. IInv /\ OpsInv /\ [Next]_vars => OpsInv'
  BY OpsNext DEF IInv
<1>. QED  BY <1>1, <1>2, Inductive, PTL DEF Spec

\* Whatever path verify_proof is given, however long, it accepts only what is in the tree:
\* every digest its loop ran through is the published one of its node.  For a path as long
\* as the tree is deep that is the published leaf at the index modulo the capacity.
THEOREM BindingCorrect == Spec => []Binding
<1>1. IInv /\ OpsInv => Binding
  <2>. SUFFICES ASSUME IInv, OpsInv, Accepted
                PROVE  Binds(committed, call.leaf_hash, call.path, call.len, call.leaf_idx)
    BY DEF Binding
  <2>1. /\ call.fn = "verify_proof" /\ call.i = call.len /\ call.len \in Nat
        /\ call.leaf_idx \in Nat /\ committed # NULL
    BY DEF Accepted, Verdict, IInv, TypeOK, CallOK, Idle
  <2>2. VerifyPath(call.leaf_hash, call.path, call.len, call.leaf_idx, committed[1])
    BY <2>1 DEF Accepted, OpsInv, VerifyPath
  <2>3. PICK cap \in Nat \ {0} : DOMAIN committed = 1..(2 * cap - 1)
    BY <2>1 DEF IInv, CommitInv, Nodes
  <2>4. \A k \in DOMAIN committed :
          2 * k \in DOMAIN committed =>
            committed[k] = HashPair(committed[2 * k], committed[2 * k + 1])
    BY <2>1 DEF IInv, CommitInv, RootCommits
  <2>. QED  BY <2>1, <2>2, <2>3, <2>4, PathBinds
<1>. QED  BY <1>1, Inductive, OpsInductive, PTL

\* create, build, get_proof and verify_proof compute the functions of MerkleOps for
\* every capacity and every leaf, so what is proved of those functions holds of the
\* loops.
THEOREM LoopsCompute == Spec => []LoopsComputeOps
<1>1. IInv /\ OpsInv => LoopsComputeOps
  <2>. SUFFICES ASSUME IInv, OpsInv PROVE LoopsComputeOps
    OBVIOUS
  <2>1. call.fn = "create" => call.p = LeafCapacity(call.n)
    <3>. SUFFICES ASSUME call.fn = "create" PROVE call.p = LeafCapacity(call.n)
      OBVIOUS
    <3>1. call.n \in Nat \ {0} /\ call.p \in Nat \ {0}
      BY DEF IInv, TypeOK, CallOK, Idle
    <3>2. IsPow2(call.p) /\ call.n <= call.p /\ (call.p = 1 \/ call.p \div 2 < call.n)
      BY DEF IInv, PowerInv, CapacityLeast
    <3>. QED  BY <3>1, <3>2, CapacityIs
  <2>2. Verdict => (Accepted <=> VerifyPath(call.leaf_hash, call.path, call.len, call.leaf_idx,
                                            committed[1]))
    BY DEF Verdict, Accepted, OpsInv, VerifyPath
  <2>. QED  BY <2>1, <2>2, BuildComputes, WalkComputes DEF LoopsComputeOps, IInv
<1>. QED  BY <1>1, Inductive, OpsInductive, PTL

------------------------------------------------------------------------------
\* How many more steps the running call can take at most.
CallLeft ==
  CASE call.fn = "next_power_of_two" -> 2 + (IF call.p < call.n THEN call.n - call.p ELSE 0)
    [] call.fn = "create" -> 1
    [] call.fn = "build" -> call.i + 1
    [] call.fn = "get_proof" -> 2 * call.idx + (IF proof.len >= call.cap THEN 1 ELSE 0)
    [] call.fn = "verify_proof" -> (call.len - call.i) + 1
    [] OTHER -> 0

\* A step that ends the call.
LEMMA EndingIsCloser ==
  ASSUME call' = Idle, CallLeft \in Nat \ {0}
  PROVE  CallLeft' \in Nat /\ CallLeft' < CallLeft
<1>1. CallLeft' = 0
  BY DEF CallLeft, Idle
<1>. QED  BY <1>1

\* What CallLeft is of a call under way.
LEMMA CallLeftType == TypeOK /\ call # Idle => CallLeft \in Nat \ {0}
<1> SUFFICES ASSUME TypeOK, call # Idle PROVE CallLeft \in Nat \ {0}
  OBVIOUS
<1>1. CASE call.fn \in {"next_power_of_two", "create"} /\ call.n \in Nat \ {0} /\ call.p \in 1..SizeMax
  BY <1>1 DEF CallLeft
<1>2. CASE call.fn = "build" /\ call.i \in 0..(leaf_capacity - 1)
  BY <1>2 DEF CallLeft
<1>3. CASE call.fn = "get_proof" /\ call.idx \in Nodes(leaf_capacity)
  BY <1>3 DEF CallLeft, Nodes
<1>4. CASE call.fn = "verify_proof" /\ call.len \in Nat /\ call.i \in 0..call.len
  BY <1>4 DEF CallLeft
<1>5. CallOK /\ call # Idle
  BY DEF TypeOK
<1>. QED  BY <1>1, <1>2, <1>3, <1>4, <1>5 DEF CallOK

\* One step of the proof for each step of a call.
LEMMA StepIsCloser == TypeOK /\ Step => CallLeft' \in Nat /\ CallLeft' < CallLeft
<1> SUFFICES ASSUME TypeOK, Step PROVE CallLeft' \in Nat /\ CallLeft' < CallLeft
  OBVIOUS
<1>1. CASE DoublePower
  <2>1. /\ call = [fn |-> "next_power_of_two", n |-> call.n, p |-> call.p]
        /\ call.n \in Nat \ {0} /\ call.p \in 1..SizeMax /\ call.p < call.n
    BY <1>1 DEF DoublePower, TypeOK, CallOK, Idle
  <2>2. call.p <= SizeMax \div 2
    BY <1>1 DEF DoublePower, DoublingFits
  <2>3. (2 * call.p) % (SizeMax + 1) = 2 * call.p
    BY <2>1, <2>2
  <2>4. call' = [fn |-> "next_power_of_two", n |-> call.n, p |-> 2 * call.p]
    BY <1>1, <2>1, <2>3 DEF DoublePower
  <2>5. CallLeft = 2 + (call.n - call.p)
    BY <2>1 DEF CallLeft
  <2>6. CallLeft' = 2 + (IF 2 * call.p < call.n THEN call.n - 2 * call.p ELSE 0)
    BY <2>4 DEF CallLeft
  <2>. QED  BY <2>1, <2>5, <2>6
<1>2. CASE AllocateNodes
  <2>1. /\ call = [fn |-> "next_power_of_two", n |-> call.n, p |-> call.p]
        /\ call.n \in Nat \ {0} /\ call.p \in 1..SizeMax
    BY <1>2 DEF AllocateNodes, TypeOK, CallOK, Idle
  <2>2. call'.fn = "create" /\ call.fn = "next_power_of_two"
    BY <1>2, <2>1 DEF AllocateNodes
  <2>3. CallLeft' = 1
    BY <2>2 DEF CallLeft
  <2>4. CallLeft >= 2
    BY <2>1, <2>2 DEF CallLeft
  <2>. QED  BY <2>3, <2>4, CallLeftType, <2>2 DEF Idle
<1>3. CASE BuildNode
  <2>1. call = [fn |-> "build", i |-> call.i] /\ call.i \in Nat \ {0}
    BY <1>3 DEF BuildNode, TypeOK, CallOK, Idle
  <2>2. call' = [fn |-> "build", i |-> call.i - 1]
    BY <1>3, <2>1 DEF BuildNode
  <2>3. CallLeft = call.i + 1 /\ CallLeft' = (call.i - 1) + 1
    BY <2>1, <2>2 DEF CallLeft
  <2>. QED  BY <2>1, <2>3
<1>4. CASE TakeSibling
  <2>1. /\ call = [fn |-> "get_proof", idx |-> call.idx, cap |-> call.cap]
        /\ call.idx \in Nat /\ call.idx > 1
    BY <1>4 DEF TakeSibling, TypeOK, CallOK, Idle, Nodes
  <2>2. call' = [fn |-> "get_proof", idx |-> call.idx \div 2, cap |-> call.cap]
    BY <1>4, <2>1 DEF TakeSibling
  <2>3. CallLeft \in Nat /\ CallLeft >= 2 * call.idx
    BY <2>1 DEF CallLeft
  <2>4. CallLeft' \in Nat /\ CallLeft' <= 2 * (call.idx \div 2) + 1
    BY <2>1, <2>2 DEF CallLeft
  <2>5. \A n \in Nat : n > 1 => 2 * (n \div 2) + 1 < 2 * n
    OBVIOUS
  <2>. QED  BY <2>1, <2>3, <2>4, <2>5
<1>grow. CASE GrowProof
  <2>1. /\ call = [fn |-> "get_proof", idx |-> call.idx, cap |-> call.cap]
        /\ call.idx \in Nat /\ call.cap \in Nat /\ proof.len <= call.cap /\ proof.len >= call.cap
        /\ proof.len \in Nat
    BY <1>grow DEF GrowProof, TypeOK, CallOK, Idle, Nodes, ProofOK
  <2>2. /\ call' = [fn |-> "get_proof", idx |-> call.idx,
                    cap |-> IF call.cap = 0 THEN FirstCapacity ELSE 2 * call.cap]
        /\ proof' = proof
    BY <1>grow, <2>1 DEF GrowProof
  <2>3. CallLeft = 2 * call.idx + 1
    BY <2>1 DEF CallLeft
  <2>4. call'.cap \in Nat /\ ~(proof.len >= call'.cap)
    BY <2>1, <2>2
  <2>5. CallLeft' = 2 * call.idx + 0
    BY <2>1, <2>2, <2>4 DEF CallLeft
  <2>. QED  BY <2>1, <2>3, <2>5
<1>5. CASE FoldSibling
  <2>1. /\ call.fn = "verify_proof" /\ call.i \in Nat /\ call.len \in Nat /\ call.i < call.len
        /\ call = [fn |-> "verify_proof", leaf_hash |-> call.leaf_hash, path |-> call.path,
                   len |-> call.len, leaf_idx |-> call.leaf_idx, i |-> call.i,
                   current |-> call.current, bits |-> call.bits]
    BY <1>5 DEF FoldSibling, TypeOK, CallOK, Idle
  <2>2. call'.fn = "verify_proof" /\ call'.i = call.i + 1 /\ call'.len = call.len
    BY <1>5, <2>1 DEF FoldSibling
  <2>3. CallLeft = (call.len - call.i) + 1 /\ CallLeft' = (call.len - (call.i + 1)) + 1
    BY <2>1, <2>2 DEF CallLeft
  <2>. QED  BY <2>1, <2>3
<1>6. CASE \/ PowerOverflows \/ AllocateNodesFails \/ AllocateTree \/ AllocateTreeFails
           \/ BuildDone \/ TakeSiblingFails \/ ProofDone \/ VerifyDone
  <2>1. call # Idle /\ call' = Idle
    BY <1>6 DEF PowerOverflows, AllocateNodesFails, AllocateTree, AllocateTreeFails,
                BuildDone, TakeSiblingFails, ProofDone, VerifyDone, Verdict, Idle
  <2>. QED  BY <2>1, CallLeftType, EndingIsCloser
<1>. QED  BY <1>1, <1>2, <1>3, <1>4, <1>5, <1>6, <1>grow DEF Step

\* No call runs for ever, for any capacity and any number asked for: every step of it
\* leaves it strictly fewer steps to take, and how many they are at first is fixed by its
\* arguments.  So next_power_of_two doubles at most n times and never spins on a p that has
\* wrapped around to 0.
THEOREM StepsRunOut == Spec => [][Step => CallLeft' \in Nat /\ CallLeft' < CallLeft]_vars
<1>1. TypeOK /\ [Next]_vars => [Step => CallLeft' \in Nat /\ CallLeft' < CallLeft]_vars
  BY StepIsCloser
<1>. QED  BY <1>1, TypeCorrect, PTL DEF Spec
==============================================================================
