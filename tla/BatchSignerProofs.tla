-------------------------- MODULE BatchSignerProofs --------------------------
(***************************************************************************)
(* Theorems about BatchSigner for every value of its constants: any number *)
(* of messages, any first capacity, any SIZE_MAX.                          *)
(***************************************************************************)
EXTENDS BatchSigner, MerkleOpsProofs, SequenceTheorems

USE BufferAssumption, MessageAssumption

LEMMA TypeInit == Init => TypeOK
<1>1. Slots(0) = {}
  BY DEF Slots
<1>2. NoCells \in [{} -> Messages \cup {NULL}] /\ NoCells \in [{} -> {0, 1}]
  BY DEF NoCells
<1>3. 0 * PtrSize <= SizeMax /\ 0 \in 0..0
  OBVIOUS
<1>4. SUFFICES ASSUME Init PROVE TypeOK
  OBVIOUS
<1>5. /\ capacity = 0 /\ num_msgs = 0 /\ k = 0 /\ messages = NoCells /\ msg_lens = NoCells
      /\ pc = "idle" /\ fault = FALSE
  BY <1>4 DEF Init
<1>6. messages \in [Slots(capacity) -> Messages \cup {NULL}]
      /\ msg_lens \in [Slots(capacity) -> {0, 1}]
  BY <1>1, <1>2, <1>5
<1>7. QED
  BY <1>3, <1>5, <1>6 DEF TypeOK

\* The growth of a full buffer keeps the type of its arrays.
LEMMA WidenType ==
  ASSUME TypeOK, capacity > 0, GrowthFits
  PROVE  /\ GrownCapacity \in Nat /\ GrownCapacity > num_msgs /\ GrownCapacity >= capacity
         /\ GrownCapacity * PtrSize <= SizeMax
         /\ Widen(messages, NULL) \in [Slots(GrownCapacity) -> Messages \cup {NULL}]
         /\ Widen(msg_lens, 0) \in [Slots(GrownCapacity) -> {0, 1}]
<1>1. capacity \in Nat /\ num_msgs \in 0..capacity /\ capacity * PtrSize <= SizeMax
  BY DEF TypeOK
<1>2. GrownCapacity \in Nat /\ GrownCapacity > num_msgs /\ GrownCapacity >= capacity
  BY <1>1 DEF GrownCapacity
<1>3. GrownCapacity * PtrSize <= SizeMax
  <2>1. CASE num_msgs < capacity
    BY <1>1, <2>1 DEF GrownCapacity
  <2>2. CASE ~(num_msgs < capacity)
    <3>1. 2 * capacity <= SizeMax \div PtrSize /\ GrownCapacity = 2 * capacity
      BY <2>2 DEF GrowthFits, GrownCapacity
    <3>2. \A a, c \in Nat, b \in Nat \ {0} : c <= a \div b => c * b <= a
      OBVIOUS
    <3>3. QED
      BY <1>1, <3>1, <3>2
  <2>3. QED
    BY <2>1, <2>2
<1>4. \A i \in Slots(GrownCapacity) : i < capacity => i \in Slots(capacity)
  BY <1>1, <1>2 DEF Slots
<1>5. QED
  BY <1>2, <1>3, <1>4 DEF Widen, TypeOK

LEMMA TypeNext == TypeOK /\ [Next]_vars => TypeOK'
<1> SUFFICES ASSUME TypeOK, [Next]_vars PROVE TypeOK'
  OBVIOUS
<1>1. CASE Create
  <2>1. InitCap * PtrSize <= SizeMax
    <3>1. 2 * InitCap * PtrSize = 2 * (InitCap * PtrSize) /\ InitCap * PtrSize \in Nat
      OBVIOUS
    <3>2. QED
      BY <3>1
  <2>2. QED
    BY <1>1, <2>1 DEF Create, TypeOK, Slots, locals, Allocates
<1>2. CASE Reset
  <2>1. messages' \in [Slots(capacity) -> Messages \cup {NULL}]
    BY <1>2 DEF Reset, TypeOK
  <2>2. fault' \in BOOLEAN
    BY <1>2 DEF Reset, Frees, TypeOK
  <2>3. QED
    BY <1>2, <2>1, <2>2 DEF Reset, TypeOK, locals
<1>3. CASE Free
  <2>1. Slots(0) = {}
    BY DEF Slots
  <2>2. NoCells \in [{} -> Messages \cup {NULL}] /\ NoCells \in [{} -> {0, 1}]
    BY DEF NoCells
  <2>3. 0 * PtrSize <= SizeMax
    OBVIOUS
  <2>4. fault' \in BOOLEAN
    BY <1>3 DEF Free, Frees, TypeOK
  <2>5. messages' \in [Slots(capacity') -> Messages \cup {NULL}]
        /\ msg_lens' \in [Slots(capacity') -> {0, 1}]
    BY <1>3, <2>1, <2>2 DEF Free
  <2>6. QED
    BY <1>3, <2>3, <2>4, <2>5 DEF Free, TypeOK, locals
<1>4. CASE Sign
  BY <1>4 DEF Sign, TypeOK, signer, Allocates
<1>5. CASE FreeSignature
  BY <1>5 DEF FreeSignature, TypeOK, signer, locals, Frees
<1>6. ASSUME NEW m \in Messages, AddMessage(m) PROVE TypeOK'
  <2>1. /\ GrownCapacity \in Nat /\ num_msgs \in Nat /\ num_msgs + 1 <= GrownCapacity
        /\ GrownCapacity * PtrSize <= SizeMax
        /\ Widen(messages, NULL) \in [Slots(GrownCapacity) -> Messages \cup {NULL}]
        /\ Widen(msg_lens, 0) \in [Slots(GrownCapacity) -> {0, 1}]
    BY <1>6, WidenType DEF AddMessage, TypeOK
  <2>2. messages' \in [Slots(GrownCapacity) -> Messages \cup {NULL}]
    BY <1>6, <2>1 DEF AddMessage
  <2>3. msg_lens' \in [Slots(GrownCapacity) -> {0, 1}]
    BY <1>6, <2>1 DEF AddMessage, MsgLen
  <2>4. QED
    BY <1>6, <2>1, <2>2, <2>3 DEF AddMessage, TypeOK, locals
<1>7. ASSUME NEW m \in Messages, AddCopyFails(m) PROVE TypeOK'
  BY <1>7, WidenType DEF AddCopyFails, TypeOK, locals
<1>8. CASE HashLeaf
  BY <1>8 DEF HashLeaf, AllocatesReading, TypeOK, signer, locals
<1>9. CASE CreateTree
  BY <1>9 DEF CreateTree, Allocates, TypeOK, signer, locals
<1>10. CASE BuildTree
  BY <1>10 DEF BuildTree, AllocatesReading, TypeOK, signer, locals
<1>11. CASE AllocateRootSig
  BY <1>11 DEF AllocateRootSig, Allocates, TypeOK, signer, locals
<1>12. CASE SignCallback
  BY <1>12 DEF SignCallback, AllocatesReading, TypeOK, signer, locals
<1>13. CASE AllocateArrays
  BY <1>13 DEF AllocateArrays, Allocates, TypeOK, signer, locals
<1>14. CASE TakeProof
  BY <1>14 DEF TakeProof, AllocatesReading, TypeOK, signer, locals
<1>15. CASE AllocateSignature
  BY <1>15 DEF AllocateSignature, Allocates, TypeOK, signer, locals
<1>16. CASE CopyRoot
  BY <1>16 DEF CopyRoot, AllocatesReading, TypeOK, signer, locals
<1>17. CASE DestroyTree
  BY <1>17 DEF DestroyTree, Frees, TypeOK, signer, locals
<1>18. CASE SignDone
  BY <1>18 DEF SignDone, Return, Frees, TypeOK, signer, locals
<1>19. CASE SignFails
  BY <1>19 DEF SignFails, FailsFreeing, Return, TypeOK, signer, locals
<1>20. CASE CreateFails \/ GrowFails
  BY <1>20 DEF CreateFails, GrowFails, FailsFreeing, TypeOK, signer, locals
<1>21. CASE UNCHANGED vars
  BY <1>21 DEF vars, TypeOK, signer, locals
<1>22. QED
  BY <1>1, <1>2, <1>3, <1>4, <1>5, <1>6, <1>7, <1>8, <1>9, <1>10, <1>11, <1>12,
     <1>13, <1>14, <1>15, <1>16, <1>17, <1>18, <1>19, <1>20, <1>21 DEF Next, SignStep

\* The buffer never outgrows its arrays nor its arrays size_t, for any number of
\* messages, and sign runs only on a batch that is not empty.
THEOREM TypeCorrect == Spec => []TypeOK
BY TypeInit, TypeNext, PTL DEF Spec

------------------------------------------------------------------------------
\* Where batch_signer_sign is once it has allocated the signature, and once it has
\* copied the root into it.
Closing == {"root_hash", "destroy", "free_leaves"}
Copied == {"destroy", "free_leaves"}

\* What batch_signer_sign has allocated so far.
Working ==
  IF pc = "idle" THEN {}
  ELSE {<<"leaf_hashes">>} \cup LeafBlocks(IF pc = "hash" THEN k ELSE num_msgs)
    \cup (IF pc \notin {"hash", "free_leaves"} THEN {<<"tree">>} ELSE {})
    \cup (IF pc \in {"callback", "arrays", "proofs"} \cup Closing THEN {<<"root_sig">>} ELSE {})
    \cup (IF pc \in {"proofs"} \cup Closing
           THEN {<<"proofs">>, <<"proof_lens">>}
                \cup ProofBlocks(IF pc = "proofs" THEN k ELSE num_msgs)
           ELSE {})
    \cup (IF pc \in Closing THEN {<<"sig">>} ELSE {})
    \cup (IF pc \in Copied THEN {<<"root_hash">>} ELSE {})

SigOwned == IF sig = NoSignature THEN {} ELSE SigBlocks

\* The lengths written so far are those of the paths of this tree.
DraftLens(n) == draft.proof_lens = [j \in Slots(n) |-> Depth(Cap)]

DraftInv ==
  /\ pc \in {"proofs", "root_hash"} =>
       draft = [root_signature |-> draft.root_signature, proofs |-> draft.proofs,
                proof_lens |-> draft.proof_lens]
  /\ pc = "proofs" => DraftLens(k)
  /\ pc \in Closing => DraftLens(num_msgs)

\* The inductive invariant behind NoLeak and NoFault: at every step of sign the
\* live blocks are those of the signer, of the signature and of sign so far.
HeapInv ==
  /\ heap = SignerBlocks \cup SigOwned \cup Working
  /\ ~fault
  /\ CellsOwned
  /\ DraftInv

\* The three groups share no block while sign runs or a signature is out.
LEMMA Disjoint ==
  /\ SignerBlocks \cap SigOwned = {}
  /\ SignerBlocks \cap Working = {}
  /\ SignerBlocks \cap {<<"proofs">>, <<"proof_lens">>} = {}
<1>1. \A b \in SignerBlocks : b[1] \in {"ctx", "messages", "msg_lens", "msg"}
  BY DEF SignerBlocks, Arrays, Copies
<1>2. \A b \in SigOwned :
        b[1] \in {"sig", "root_hash", "root_sig", "proofs", "proof_lens", "proof"}
  BY DEF SigOwned, SigBlocks
<1>3. \A b \in Working :
        b[1] \in {"leaf_hashes", "leaf", "tree", "root_sig", "proofs", "proof_lens", "proof", "sig",
                 "root_hash"}
  BY DEF Working, LeafBlocks, ProofBlocks
<1>4. <<"proofs">>[1] = "proofs" /\ <<"proof_lens">>[1] = "proof_lens"
  OBVIOUS
<1>5. QED
  BY <1>1, <1>2, <1>3, <1>4

\* Every failure path of sign frees exactly what sign has allocated.
LEMMA CleanupIsWorking ==
  ASSUME TypeOK, pc \notin {"idle"} \cup Copied, NEW got, pc # "arrays" => got = {}
  PROVE  Cleanup(got) = Working \cup got
<1>1. pc \in {"hash", "build", "root_sig", "callback", "arrays", "proofs", "root_hash"}
      /\ k \in 0..num_msgs /\ num_msgs \in Nat
  BY DEF TypeOK, Copied
<1>2. CASE pc = "hash"
  BY <1>1, <1>2 DEF Cleanup, Working, Closing, Copied, Leaves, HashedBefore
<1>3. CASE pc \in {"build", "root_sig"}
  BY <1>3 DEF Cleanup, Working, Closing, Copied, Leaves
<1>4. CASE pc \in {"callback", "arrays"}
  BY <1>4 DEF Cleanup, Working, Closing, Copied, Leaves
<1>5. CASE pc = "proofs"
  BY <1>5 DEF Cleanup, Working, Closing, Copied, Leaves
<1>6. CASE pc = "root_hash"
  BY <1>6 DEF Cleanup, Working, Closing, Copied, Leaves
<1>7. QED
  BY <1>1, <1>2, <1>3, <1>4, <1>5, <1>6

LEMMA BlocksGrow ==
  ASSUME NEW n \in Nat
  PROVE  /\ LeafBlocks(n + 1) = LeafBlocks(n) \cup {<<"leaf", n>>} /\ LeafBlocks(0) = {}
         /\ ProofBlocks(n + 1) = ProofBlocks(n) \cup (ProofBlocks(n + 1) \ ProofBlocks(n))
         /\ ProofBlocks(0) = {}
<1>1. Slots(0) = {} /\ Slots(n + 1) = Slots(n) \cup {n}
  BY DEF Slots
<1>2. QED
  BY <1>1 DEF LeafBlocks, ProofBlocks

\* A step inside sign that allocates new and reads what it owns.
LEMMA SignKeeps ==
  ASSUME HeapInv, pc # "idle", sig = NoSignature, UNCHANGED <<signer, sig>>, NEW new,
         heap' = heap \cup new, Working' = Working \cup new, ~fault', DraftInv'
  PROVE  HeapInv'
<1>1. SignerBlocks' = SignerBlocks /\ SigOwned' = {} /\ SigOwned = {}
  BY DEF SignerBlocks, SigOwned, Copies, signer
<1>2. CellsOwned'
  BY DEF HeapInv, CellsOwned, signer
<1>3. QED
  BY <1>1, <1>2 DEF HeapInv

LEMMA HeapSignNext == TypeOK /\ TypeOK' /\ HeapInv /\ SignStep => HeapInv'
<1> SUFFICES ASSUME TypeOK, TypeOK', HeapInv, SignStep PROVE HeapInv'
  OBVIOUS
<1>1. pc # "idle" /\ sig = NoSignature /\ num_msgs \in Nat /\ k \in 0..num_msgs /\ k \in Nat
  BY DEF SignStep, HashLeaf, CreateTree, BuildTree, AllocateRootSig, SignCallback,
         AllocateArrays, TakeProof, AllocateSignature, CopyRoot, DestroyTree,
         SignDone, SignFails, TypeOK
<1>2. heap = SignerBlocks \cup Working /\ ~fault
  BY <1>1 DEF HeapInv, SigOwned
<1>3. CASE HashLeaf
  <2>1. /\ pc = "hash" /\ pc' = "hash" /\ k' = k + 1 /\ k < num_msgs
        /\ UNCHANGED <<signer, sig, draft>> /\ heap' = heap \cup {<<"leaf", k>>}
    BY <1>3 DEF HashLeaf, AllocatesReading
  <2>2. IF msg_lens[k] = 0 THEN TRUE ELSE <<"msg", k>> \in heap
    <3>1. k \in Slots(capacity) /\ k \in Slots(num_msgs) /\ capacity # 0
      BY <1>1, <2>1 DEF TypeOK, Slots
    <3>2. CASE msg_lens[k] # 0
      <4>1. messages[k] # NULL
        BY <2>1, <3>1, <3>2 DEF HeapInv, CellsOwned
      <4>2. <<"msg", k>> \in Copies(num_msgs)
        BY <3>1, <4>1 DEF Copies
      <4>3. QED
        BY <1>2, <3>1, <4>2 DEF SignerBlocks
    <3>3. QED
      BY <3>2
  <2>3. ~fault'
    BY <1>2, <1>3, <2>2 DEF HashLeaf, AllocatesReading
  <2>4. Working' = Working \cup {<<"leaf", k>>}
    BY <1>1, <2>1, BlocksGrow DEF Working, Closing, Copied, LeafBlocks
  <2>5. DraftInv'
    BY <2>1 DEF DraftInv, Closing
  <2>6. QED
    BY <1>1, <2>1, <2>3, <2>4, <2>5, SignKeeps
<1>4. CASE CreateTree
  <2>1. /\ pc = "hash" /\ pc' = "build" /\ k = num_msgs /\ ~fault'
        /\ UNCHANGED <<signer, sig, num_msgs>> /\ heap' = heap \cup {<<"tree">>}
    BY <1>2, <1>4 DEF CreateTree, Allocates, signer
  <2>2. Working' = Working \cup {<<"tree">>}
    BY <2>1 DEF Working, Closing, Copied, LeafBlocks
  <2>3. DraftInv'
    BY <2>1 DEF DraftInv, Closing
  <2>4. QED
    BY <1>1, <2>1, <2>2, <2>3, SignKeeps
<1>5. CASE BuildTree
  <2>1. /\ pc = "build" /\ pc' = "root_sig" /\ heap' = heap
        /\ UNCHANGED <<signer, sig, num_msgs>>
    BY <1>5 DEF BuildTree, AllocatesReading, signer
  <2>2. Working' = Working
    BY <2>1 DEF Working, Closing, Copied, LeafBlocks
  <2>3. LeafBlocks(num_msgs) \cup {<<"tree">>} \subseteq Working
    BY <2>1 DEF Working, Closing, Copied
  <2>4. ~fault'
    BY <1>2, <1>5, <2>3 DEF BuildTree, AllocatesReading
  <2>5. DraftInv'
    BY <2>1 DEF DraftInv, Closing
  <2>6. heap' = heap \cup {} /\ Working' = Working \cup {}
    BY <2>1, <2>2
  <2>7. QED
    BY <1>1, <2>1, <2>4, <2>5, <2>6, SignKeeps
<1>6. CASE AllocateRootSig
  <2>1. /\ pc = "root_sig" /\ pc' = "callback" /\ heap' = heap \cup {<<"root_sig">>}
        /\ UNCHANGED <<signer, sig, num_msgs>> /\ ~fault'
    BY <1>2, <1>6 DEF AllocateRootSig, Allocates, signer
  <2>2. Working' = Working \cup {<<"root_sig">>}
    BY <2>1 DEF Working, Closing, Copied, LeafBlocks
  <2>3. DraftInv'
    BY <2>1 DEF DraftInv, Closing
  <2>4. QED
    BY <1>1, <2>1, <2>2, <2>3, SignKeeps
<1>7. CASE SignCallback
  <2>1. /\ pc = "callback" /\ pc' = "arrays" /\ heap' = heap
        /\ UNCHANGED <<signer, sig, num_msgs>>
    BY <1>7 DEF SignCallback, AllocatesReading, signer
  <2>2. Working' = Working
    BY <2>1 DEF Working, Closing, Copied, LeafBlocks
  <2>3. {<<"tree">>, <<"root_sig">>} \subseteq Working
    BY <2>1 DEF Working, Closing, Copied
  <2>4. ~fault'
    BY <1>2, <1>7, <2>3 DEF SignCallback, AllocatesReading
  <2>5. DraftInv'
    BY <2>1 DEF DraftInv, Closing
  <2>6. heap' = heap \cup {} /\ Working' = Working \cup {}
    BY <2>1, <2>2
  <2>7. QED
    BY <1>1, <2>1, <2>4, <2>5, <2>6, SignKeeps
<1>8. CASE AllocateArrays
  <2>1. /\ pc = "arrays" /\ pc' = "proofs" /\ k' = 0 /\ ~fault'
        /\ heap' = heap \cup {<<"proofs">>, <<"proof_lens">>}
        /\ UNCHANGED <<signer, sig, num_msgs>>
        /\ draft' = [root_signature |-> draft.root_signature, proofs |-> NoCells,
                     proof_lens |-> NoCells]
    BY <1>2, <1>8 DEF AllocateArrays, Allocates, signer
  <2>2. Working' = Working \cup {<<"proofs">>, <<"proof_lens">>}
    <3>1. ProofBlocks(0)' = {}
      BY DEF ProofBlocks, Slots
    <3>2. QED
      BY <2>1, <3>1 DEF Working, Closing, Copied, LeafBlocks
  <2>3. DraftInv'
    <3>1. Slots(0) = {}
      BY DEF Slots
    <3>2. draft'.proof_lens = [j \in Slots(0) |-> Depth(Cap)']
      BY <2>1, <3>1 DEF NoCells
    <3>3. QED
      BY <2>1, <3>2 DEF DraftInv, Closing, DraftLens
  <2>4. QED
    BY <1>1, <2>1, <2>2, <2>3, SignKeeps
<1>9. CASE TakeProof
  <2>1. /\ pc = "proofs" /\ pc' = "proofs" /\ k' = k + 1 /\ k < num_msgs
        /\ heap' = heap \cup (ProofBlocks(k + 1) \ ProofBlocks(k))
        /\ UNCHANGED <<signer, sig, num_msgs>>
    BY <1>9 DEF TakeProof, AllocatesReading, signer
  <2>2. Working' = Working \cup (ProofBlocks(k + 1) \ ProofBlocks(k))
    <3>1. \A n : ProofBlocks(n)' = ProofBlocks(n)
      BY <2>1 DEF ProofBlocks, Cap
    <3>2. ProofBlocks(k + 1) = ProofBlocks(k) \cup (ProofBlocks(k + 1) \ ProofBlocks(k))
      BY <1>1, BlocksGrow
    <3>3. Working' = {<<"leaf_hashes">>} \cup LeafBlocks(num_msgs) \cup {<<"tree">>}
                     \cup {<<"root_sig">>} \cup {<<"proofs">>, <<"proof_lens">>}
                     \cup ProofBlocks(k + 1)
      BY <2>1, <3>1 DEF Working, Closing, Copied, LeafBlocks
    <3>4. Working = {<<"leaf_hashes">>} \cup LeafBlocks(num_msgs) \cup {<<"tree">>}
                    \cup {<<"root_sig">>} \cup {<<"proofs">>, <<"proof_lens">>}
                    \cup ProofBlocks(k)
      BY <2>1 DEF Working, Closing, Copied
    <3>5. QED
      BY <3>2, <3>3, <3>4
  <2>3. ~fault'
    <3>1. {<<"tree">>} \subseteq Working
      BY <2>1 DEF Working, Closing, Copied
    <3>2. QED
      BY <1>2, <1>9, <3>1 DEF TakeProof, AllocatesReading
  <2>4. DraftInv'
    <3>1. /\ draft = [root_signature |-> draft.root_signature, proofs |-> draft.proofs,
                     proof_lens |-> draft.proof_lens]
          /\ draft.proof_lens = [j \in Slots(k) |-> Depth(Cap)]
      BY <2>1 DEF HeapInv, DraftInv, Closing, DraftLens
    <3>2. draft' = [root_signature |-> draft.root_signature, proofs |-> draft'.proofs,
                    proof_lens |-> [j \in Slots(k + 1) |-> IF j = k THEN Depth(Cap)
                                                           ELSE draft.proof_lens[j]]]
      BY <1>9, <3>1 DEF TakeProof
    <3>3. \A j \in Slots(k + 1) : j = k \/ j \in Slots(k)
      BY <1>1 DEF Slots
    <3>4. draft'.proof_lens = [j \in Slots(k + 1) |-> Depth(Cap)]
      BY <3>1, <3>2, <3>3
    <3>5. Cap' = Cap
      BY <2>1 DEF Cap
    <3>6. QED
      BY <2>1, <3>2, <3>4, <3>5 DEF DraftInv, Closing, DraftLens
  <2>5. QED
    BY <1>1, <2>1, <2>2, <2>3, <2>4, SignKeeps
<1>10. CASE AllocateSignature
  <2>1. /\ pc = "proofs" /\ pc' = "root_hash" /\ k = num_msgs /\ heap' = heap \cup {<<"sig">>}
        /\ UNCHANGED <<signer, sig, num_msgs, k, draft>> /\ ~fault'
    BY <1>2, <1>10 DEF AllocateSignature, Allocates, signer, locals
  <2>2. Working' = Working \cup {<<"sig">>}
    <3>1. ProofBlocks(num_msgs)' = ProofBlocks(num_msgs) /\ LeafBlocks(num_msgs)' = LeafBlocks(num_msgs)
      BY <2>1 DEF ProofBlocks, Cap, LeafBlocks
    <3>2. QED
      BY <2>1, <3>1 DEF Working, Closing, Copied, LeafBlocks, ProofBlocks, Cap
  <2>3. DraftInv'
    BY <2>1 DEF HeapInv, DraftInv, Closing, DraftLens, Cap
  <2>4. QED
    BY <1>1, <2>1, <2>2, <2>3, SignKeeps
<1>11. CASE CopyRoot
  <2>1. /\ pc = "root_hash" /\ pc' = "destroy" /\ heap' = heap \cup {<<"root_hash">>}
        /\ UNCHANGED <<signer, sig, num_msgs>> /\ draft'.proof_lens = draft.proof_lens
    BY <1>11 DEF CopyRoot, AllocatesReading, signer
  <2>2. Working' = Working \cup {<<"root_hash">>}
    <3>1. ProofBlocks(num_msgs)' = ProofBlocks(num_msgs) /\ LeafBlocks(num_msgs)' = LeafBlocks(num_msgs)
      BY <2>1 DEF ProofBlocks, Cap, LeafBlocks
    <3>2. QED
      BY <2>1, <3>1 DEF Working, Closing, Copied
  <2>3. {<<"tree">>} \subseteq Working
    BY <2>1 DEF Working
  <2>4. ~fault'
    BY <1>2, <1>11, <2>3 DEF CopyRoot, AllocatesReading
  <2>5. DraftInv'
    BY <2>1 DEF HeapInv, DraftInv, DraftLens, Closing, Cap
  <2>6. QED
    BY <1>1, <2>1, <2>2, <2>4, <2>5, SignKeeps
<1>12. CASE DestroyTree
  <2>1. /\ pc = "destroy" /\ pc' = "free_leaves" /\ heap' = heap \ {<<"tree">>}
        /\ UNCHANGED <<signer, sig, num_msgs, draft>>
    BY <1>12 DEF DestroyTree, Frees, signer, locals
  <2>2. Working' = Working \ {<<"tree">>} /\ <<"tree">> \in Working
    <3>1. ProofBlocks(num_msgs)' = ProofBlocks(num_msgs) /\ LeafBlocks(num_msgs)' = LeafBlocks(num_msgs)
      BY <2>1 DEF ProofBlocks, Cap, LeafBlocks
    <3>2. <<"tree">> \notin ProofBlocks(num_msgs) \cup LeafBlocks(num_msgs)
      <4>1. \A b \in ProofBlocks(num_msgs) \cup LeafBlocks(num_msgs) : b[1] \in {"proof", "leaf"}
        BY DEF ProofBlocks, LeafBlocks
      <4>2. <<"tree">>[1] = "tree"
        OBVIOUS
      <4>3. QED
        BY <4>1, <4>2
    <3>3. Working = {<<"leaf_hashes">>, <<"tree">>, <<"root_sig">>, <<"proofs">>, <<"proof_lens">>,
                     <<"sig">>, <<"root_hash">>} \cup LeafBlocks(num_msgs) \cup ProofBlocks(num_msgs)
      BY <2>1 DEF Working, Closing, Copied
    <3>4. Working' = {<<"leaf_hashes">>, <<"root_sig">>, <<"proofs">>, <<"proof_lens">>,
                      <<"sig">>, <<"root_hash">>} \cup LeafBlocks(num_msgs) \cup ProofBlocks(num_msgs)
      BY <2>1, <3>1 DEF Working, Closing, Copied
    <3>5. QED
      BY <3>2, <3>3, <3>4
  <2>3. ~fault'
    BY <1>2, <1>12, <2>2 DEF DestroyTree, Frees
  <2>4. /\ SignerBlocks' = SignerBlocks /\ SigOwned' = {} /\ CellsOwned'
        /\ <<"tree">> \notin SignerBlocks
    BY <1>1, <2>1, <2>2, Disjoint DEF SignerBlocks, Copies, SigOwned, HeapInv, CellsOwned, signer
  <2>5. DraftInv'
    BY <2>1 DEF HeapInv, DraftInv, DraftLens, Closing, Cap
  <2>6. QED
    BY <1>2, <2>1, <2>2, <2>3, <2>4, <2>5 DEF HeapInv
<1>13. CASE SignDone
  <2>1. /\ pc = "free_leaves" /\ pc' = "idle" /\ UNCHANGED signer
        /\ sig' = [root_hash |-> draft.root_hash, root_signature |-> draft.root_signature,
                   proofs |-> draft.proofs, proof_lens |-> draft.proof_lens,
                   num_proofs |-> num_msgs]
        /\ heap' = heap \ Leaves /\ fault' = (fault \/ ~(Leaves \subseteq heap))
    BY <1>13 DEF SignDone, Return, Frees
  <2>2. Working = Leaves \cup {<<"root_sig">>, <<"proofs">>, <<"proof_lens">>, <<"sig">>, <<"root_hash">>}
                  \cup ProofBlocks(num_msgs)
    BY <2>1 DEF Working, Leaves, Closing, Copied
  <2>3. ~fault'
    BY <1>2, <2>1, <2>2
  <2>4. SigBlocks' = {<<"sig">>, <<"root_hash">>, <<"root_sig">>, <<"proofs">>, <<"proof_lens">>}
                     \cup ProofBlocks(num_msgs)
    <3>1. draft.proof_lens = [j \in Slots(num_msgs) |-> Depth(Cap)]
      BY <2>1 DEF HeapInv, DraftInv, DraftLens, Closing
    <3>2. sig'.num_proofs = num_msgs /\ sig'.proof_lens = [j \in Slots(num_msgs) |-> Depth(Cap)]
      BY <2>1, <3>1
    <3>3. QED
      BY <3>2 DEF SigBlocks, ProofBlocks
  <2>5. Leaves \cap
          ({<<"sig">>, <<"root_hash">>, <<"root_sig">>, <<"proofs">>, <<"proof_lens">>}
             \cup ProofBlocks(num_msgs)) = {}
    <3>1. \A b \in Leaves : b[1] \in {"leaf_hashes", "leaf"}
      BY DEF Leaves, LeafBlocks
    <3>2. \A b \in {<<"sig">>, <<"root_hash">>, <<"root_sig">>, <<"proofs">>, <<"proof_lens">>}
                     \cup ProofBlocks(num_msgs) :
            b[1] \in {"sig", "root_hash", "root_sig", "proofs", "proof_lens", "proof"}
      BY DEF ProofBlocks
    <3>3. QED
      BY <3>1, <3>2
  <2>6. SignerBlocks' = SignerBlocks
    BY <2>1 DEF SignerBlocks, Copies, signer
  <2>7. heap' = SignerBlocks \cup SigBlocks'
    BY <1>2, <2>1, <2>2, <2>4, <2>5, Disjoint
  <2>8. Working' = {} /\ DraftInv' /\ CellsOwned'
    BY <2>1 DEF Working, Closing, Copied, DraftInv, HeapInv, CellsOwned, signer
  <2>9. SigOwned' = SigBlocks' \/ SigOwned' = {}
    BY DEF SigOwned
  <2>10. sig' # NoSignature
    BY <1>1, <2>1 DEF NoSignature, TypeOK
  <2>11. QED
    BY <2>3, <2>6, <2>7, <2>8, <2>10 DEF HeapInv, SigOwned
<1>14. CASE SignFails
  <2>1. PICK got \in SUBSET {<<"proofs">>, <<"proof_lens">>} :
          /\ pc # "arrays" => got = {}
          /\ heap' = (heap \cup got) \ Cleanup(got)
          /\ fault' = (fault \/ ~(Cleanup(got) \subseteq heap \cup got))
    BY <1>14 DEF SignFails, FailsFreeing
  <2>2. Cleanup(got) = Working \cup got
    <3>1. pc \notin {"idle"} \cup Copied
      BY <1>14 DEF SignFails, Copied
    <3>2. QED
      BY <2>1, <3>1, CleanupIsWorking
  <2>3. heap' = SignerBlocks
    BY <1>2, <2>1, <2>2, Disjoint
  <2>4. ~fault'
    BY <1>2, <2>1, <2>2
  <2>5. pc' = "idle" /\ UNCHANGED <<signer, sig>>
    BY <1>14 DEF SignFails, Return
  <2>6. SignerBlocks' = SignerBlocks /\ SigOwned' = {} /\ Working' = {} /\ CellsOwned' /\ DraftInv'
    BY <1>1, <2>5 DEF SignerBlocks, Copies, SigOwned, Working, HeapInv, CellsOwned, DraftInv,
         Closing, signer
  <2>7. QED
    BY <2>3, <2>4, <2>6 DEF HeapInv
<1>15. QED
  BY <1>3, <1>4, <1>5, <1>6, <1>7, <1>8, <1>9, <1>10, <1>11, <1>12, <1>13, <1>14 DEF SignStep

\* Between calls only the signer and its copies can change.
LEMMA IdleKeeps ==
  ASSUME pc = "idle", pc' = "idle", ~fault', CellsOwned',
         heap' = SignerBlocks' \cup SigOwned'
  PROVE  HeapInv'
<1>1. Working' = {}
  BY DEF Working
<1>2. DraftInv'
  BY DEF DraftInv, Closing
<1>3. QED
  BY <1>1, <1>2 DEF HeapInv

\* The growth of a buffer that holds n messages changes no cell in use.
LEMMA WidenKeeps ==
  ASSUME TypeOK, CellsOwned, capacity > 0, GrowthFits, NEW i \in Slots(GrownCapacity)
  PROVE  /\ i < num_msgs => /\ i \in Slots(capacity)
                            /\ Widen(messages, NULL)[i] = messages[i]
                            /\ Widen(msg_lens, 0)[i] = msg_lens[i]
         /\ i >= num_msgs => Widen(messages, NULL)[i] = NULL
<1>1. capacity \in Nat /\ num_msgs \in 0..capacity /\ i \in Nat
  BY DEF TypeOK, Slots
<1>2. i < capacity => i \in Slots(capacity)
  BY <1>1 DEF Slots
<1>3. /\ Widen(messages, NULL)[i] = IF i < capacity THEN messages[i] ELSE NULL
      /\ Widen(msg_lens, 0)[i] = IF i < capacity THEN msg_lens[i] ELSE 0
  BY DEF Widen
<1>4. CASE i < num_msgs
  BY <1>1, <1>2, <1>3, <1>4
<1>5. CASE i >= num_msgs
  BY <1>1, <1>2, <1>3, <1>5 DEF CellsOwned
<1>6. QED
  BY <1>1, <1>4, <1>5

LEMMA HeapAddMessage ==
  ASSUME TypeOK, HeapInv, NEW m \in Messages, AddMessage(m)
  PROVE  HeapInv'
<1> DEFINE G == GrownCapacity
           W == Widen(messages, NULL)
           L == Widen(msg_lens, 0)
           cell == IF m = Empty THEN NULL ELSE m
<1>1. /\ pc = "idle" /\ pc' = "idle" /\ capacity > 0 /\ GrowthFits /\ UNCHANGED sig
      /\ capacity' = G /\ num_msgs' = num_msgs + 1
      /\ messages' = [W EXCEPT ![num_msgs] = cell]
      /\ msg_lens' = [L EXCEPT ![num_msgs] = MsgLen(m)]
      /\ heap' = (heap \ OldArrays) \cup Arrays(G)
                   \cup (IF m = Empty THEN {} ELSE {<<"msg", num_msgs>>})
      /\ fault' = (fault \/ ~(OldArrays \subseteq heap))
  BY DEF AddMessage
<1>2. /\ G \in Nat /\ G > num_msgs /\ G >= capacity /\ num_msgs \in Nat /\ num_msgs <= capacity
      /\ W \in [Slots(G) -> Messages \cup {NULL}] /\ L \in [Slots(G) -> {0, 1}]
      /\ capacity \in Nat
  BY <1>1, WidenType DEF TypeOK
<1>3. /\ num_msgs \in Slots(G)
      /\ \A i \in Slots(G) : i \in Nat
  BY <1>2 DEF Slots
<1>4. CellsOwned /\ heap = SignerBlocks \cup SigOwned /\ ~fault
  BY <1>1 DEF HeapInv, Working
<1>5. \A i \in Slots(G) :
        /\ i < num_msgs => i \in Slots(capacity) /\ W[i] = messages[i] /\ L[i] = msg_lens[i]
        /\ i >= num_msgs => W[i] = NULL
  BY <1>1, <1>4, WidenKeeps
<1>6. cell = NULL <=> MsgLen(m) = 0
  BY DEF MsgLen
<1> HIDE DEF G, W, L
<1>7. CellsOwned'
  <2> SUFFICES ASSUME NEW i \in Slots(G)
               PROVE  IF i < num_msgs + 1 THEN messages'[i] = NULL <=> msg_lens'[i] = 0
                      ELSE messages'[i] = NULL
    BY <1>1 DEF CellsOwned, Slots
  <2>1. CASE i = num_msgs
    BY <1>1, <1>2, <1>3, <1>6, <2>1
  <2>2. CASE i # num_msgs
    <3>1. messages'[i] = W[i] /\ msg_lens'[i] = L[i]
      BY <1>1, <1>2, <2>2
    <3>2. i < num_msgs + 1 <=> i < num_msgs
      BY <1>2, <1>3, <2>2
    <3>3. i < num_msgs \/ i >= num_msgs
      BY <1>2, <1>3
    <3>4. QED
      BY <1>4, <1>5, <3>1, <3>2, <3>3 DEF CellsOwned
  <2>3. QED
    BY <2>1, <2>2
<1>8. Copies(num_msgs)' = Copies(num_msgs) \cup (IF m = Empty THEN {} ELSE {<<"msg", num_msgs>>})
  <2>1. Slots(num_msgs + 1) = Slots(num_msgs) \cup {num_msgs}
    BY <1>2 DEF Slots
  <2>2. \A i \in Slots(num_msgs) : i \in Slots(G) /\ i < num_msgs /\ i # num_msgs
    BY <1>2 DEF Slots
  <2>3. \A i \in Slots(num_msgs) : messages'[i] = messages[i]
    BY <1>1, <1>2, <1>5, <2>2
  <2>4. messages'[num_msgs] = cell
    BY <1>1, <1>2, <1>3
  <2>5. messages'[num_msgs] # NULL <=> m # Empty
    BY <2>4
  <2>6. QED
    BY <1>1, <2>1, <2>3, <2>5 DEF Copies
<1>9. /\ OldArrays \subseteq Arrays(capacity)
      /\ Arrays(capacity) \ OldArrays \subseteq Arrays(G)
      /\ Arrays(capacity) \subseteq heap
  BY <1>1, <1>4 DEF OldArrays, SignerBlocks, G, GrownCapacity
<1>10. \A b \in Arrays(capacity) : b \notin Copies(num_msgs) /\ b # <<"ctx">> /\ b \notin SigOwned
  BY <1>1 DEF Arrays, Copies, SigOwned, SigBlocks
<1>11. SigOwned' = SigOwned /\ SignerBlocks' = {<<"ctx">>} \cup Arrays(G) \cup Copies(num_msgs)'
  BY <1>1, <1>2 DEF SigOwned, SigBlocks, SignerBlocks, Arrays
<1>12. heap = {<<"ctx">>} \cup Arrays(capacity) \cup Copies(num_msgs) \cup SigOwned
  BY <1>1, <1>4 DEF SignerBlocks
<1>13. heap' = SignerBlocks' \cup SigOwned'
  BY <1>1, <1>8, <1>9, <1>10, <1>11, <1>12
<1>14. ~fault'
  BY <1>1, <1>4, <1>9
<1>15. QED
  BY <1>1, <1>7, <1>13, <1>14, IdleKeeps

LEMMA HeapAddCopyFails ==
  ASSUME TypeOK, HeapInv, NEW m \in Messages, AddCopyFails(m)
  PROVE  HeapInv'
<1> DEFINE G == GrownCapacity
           W == Widen(messages, NULL)
           L == Widen(msg_lens, 0)
<1>1. /\ pc = "idle" /\ pc' = "idle" /\ capacity > 0 /\ GrowthFits /\ UNCHANGED sig
      /\ capacity' = G /\ num_msgs' = num_msgs /\ messages' = W /\ msg_lens' = L
      /\ heap' = (heap \ OldArrays) \cup Arrays(G)
      /\ fault' = (fault \/ ~(OldArrays \subseteq heap))
  BY DEF AddCopyFails
<1>2. G \in Nat /\ G > num_msgs /\ num_msgs \in Nat
  BY <1>1, WidenType DEF TypeOK
<1>4. CellsOwned /\ heap = SignerBlocks \cup SigOwned /\ ~fault
  BY <1>1 DEF HeapInv, Working
<1>5. \A i \in Slots(G) :
        /\ i < num_msgs => i \in Slots(capacity) /\ W[i] = messages[i] /\ L[i] = msg_lens[i]
        /\ i >= num_msgs => W[i] = NULL
  BY <1>1, <1>4, WidenKeeps
<1> HIDE DEF G, W, L
<1>6. \A i \in Slots(G) : i < num_msgs \/ i >= num_msgs
  BY <1>2 DEF Slots
<1>7. CellsOwned'
  BY <1>1, <1>4, <1>5, <1>6 DEF CellsOwned, Slots
<1>8. Copies(num_msgs)' = Copies(num_msgs)
  <2>1. \A i \in Slots(num_msgs) : i \in Slots(G) /\ i < num_msgs
    BY <1>2 DEF Slots
  <2>2. QED
    BY <1>1, <1>5, <2>1 DEF Copies
<1>9. /\ OldArrays \subseteq Arrays(capacity)
      /\ Arrays(capacity) \ OldArrays \subseteq Arrays(G)
      /\ Arrays(capacity) \subseteq heap
  BY <1>1, <1>4 DEF OldArrays, SignerBlocks, G, GrownCapacity
<1>10. \A b \in Arrays(capacity) : b \notin Copies(num_msgs) /\ b # <<"ctx">> /\ b \notin SigOwned
  BY <1>1 DEF Arrays, Copies, SigOwned, SigBlocks
<1>11. SigOwned' = SigOwned /\ SignerBlocks' = {<<"ctx">>} \cup Arrays(G) \cup Copies(num_msgs)'
  BY <1>1, <1>2 DEF SigOwned, SigBlocks, SignerBlocks, Arrays
<1>12. heap = {<<"ctx">>} \cup Arrays(capacity) \cup Copies(num_msgs) \cup SigOwned
  BY <1>1, <1>4 DEF SignerBlocks
<1>13. heap' = SignerBlocks' \cup SigOwned'
  BY <1>1, <1>8, <1>9, <1>10, <1>11, <1>12
<1>14. ~fault'
  BY <1>1, <1>4, <1>9
<1>15. QED
  BY <1>1, <1>7, <1>13, <1>14, IdleKeeps

LEMMA HeapNext == TypeOK /\ TypeOK' /\ HeapInv /\ [Next]_vars => HeapInv'
<1> SUFFICES ASSUME TypeOK, TypeOK', HeapInv, [Next]_vars PROVE HeapInv'
  OBVIOUS
<1>1. ~fault /\ CellsOwned /\ heap = SignerBlocks \cup SigOwned \cup Working
  BY DEF HeapInv
<1>2. pc = "idle" => Working = {}
  BY DEF Working
<1>3. CASE Create
  <2>1. /\ pc = "idle" /\ pc' = "idle" /\ capacity = 0 /\ capacity' = InitCap /\ num_msgs' = 0
        /\ messages' = [i \in Slots(InitCap) |-> NULL] /\ UNCHANGED <<sig, fault>>
        /\ heap' = heap \cup {<<"ctx">>} \cup Arrays(InitCap)
    BY <1>3 DEF Create, Allocates
  <2>2. SigOwned' = SigOwned /\ SignerBlocks = {}
    BY <2>1 DEF SigOwned, SigBlocks, SignerBlocks
  <2>3. Copies(num_msgs)' = {}
    <3>1. Slots(0) = {}
      BY DEF Slots
    <3>2. QED
      BY <2>1, <3>1 DEF Copies
  <2>4. SignerBlocks' = {<<"ctx">>} \cup Arrays(InitCap)
    BY <2>1, <2>3 DEF SignerBlocks, Arrays
  <2>5. CellsOwned'
    BY <2>1 DEF CellsOwned, Slots
  <2>6. QED
    BY <1>1, <1>2, <2>1, <2>2, <2>4, <2>5, IdleKeeps
<1>4. CASE Reset
  <2>1. /\ pc = "idle" /\ pc' = "idle" /\ capacity > 0 /\ num_msgs' = 0
        /\ messages' = [i \in Slots(capacity) |-> IF i < num_msgs THEN NULL ELSE messages[i]]
        /\ UNCHANGED <<capacity, sig>>
        /\ heap' = heap \ Copies(num_msgs)
        /\ fault' = (fault \/ ~(Copies(num_msgs) \subseteq heap))
    BY <1>4 DEF Reset, Frees
  <2>2. heap = {<<"ctx">>} \cup Arrays(capacity) \cup Copies(num_msgs) \cup SigOwned
    BY <1>1, <1>2, <2>1 DEF SignerBlocks
  <2>3. \A b \in Copies(num_msgs) : b \notin Arrays(capacity) /\ b # <<"ctx">> /\ b \notin SigOwned
    BY DEF Arrays, Copies, SigOwned, SigBlocks
  <2>4. Copies(num_msgs)' = {}
    <3>1. Slots(0) = {}
      BY DEF Slots
    <3>2. QED
      BY <2>1, <3>1 DEF Copies
  <2>5. SignerBlocks' = {<<"ctx">>} \cup Arrays(capacity) /\ SigOwned' = SigOwned
    BY <2>1, <2>4 DEF SignerBlocks, Arrays, SigOwned, SigBlocks
  <2>6. CellsOwned'
    <3>1. \A i \in Slots(capacity) : ~(i < 0) /\ messages'[i] = NULL
      BY <1>1, <2>1 DEF CellsOwned, Slots
    <3>2. QED
      BY <2>1, <3>1 DEF CellsOwned, Slots
  <2>7. heap' = SignerBlocks' \cup SigOwned' /\ ~fault'
    BY <1>1, <2>1, <2>2, <2>3, <2>5
  <2>8. QED
    BY <2>1, <2>6, <2>7, IdleKeeps
<1>5. CASE Free
  <2>1. /\ pc = "idle" /\ pc' = "idle" /\ capacity > 0 /\ capacity' = 0 /\ UNCHANGED sig
        /\ heap' = heap \ (Copies(num_msgs) \cup Arrays(capacity) \cup {<<"ctx">>})
        /\ fault' = (fault \/ ~(Copies(num_msgs) \cup Arrays(capacity) \cup {<<"ctx">>} \subseteq heap))
    BY <1>5 DEF Free, Frees
  <2>2. SignerBlocks = Copies(num_msgs) \cup Arrays(capacity) \cup {<<"ctx">>}
    BY <2>1 DEF SignerBlocks
  <2>3. SignerBlocks' = {} /\ SigOwned' = SigOwned /\ CellsOwned'
    BY <2>1 DEF SignerBlocks, SigOwned, SigBlocks, CellsOwned, Slots
  <2>4. heap' = SignerBlocks' \cup SigOwned' /\ ~fault'
    BY <1>1, <1>2, <2>1, <2>2, <2>3, Disjoint
  <2>5. QED
    BY <2>1, <2>3, <2>4, IdleKeeps
<1>6. CASE Sign
  <2>1. /\ pc = "idle" /\ pc' = "hash" /\ k' = 0 /\ sig = NoSignature
        /\ UNCHANGED <<signer, sig, fault>> /\ heap' = heap \cup {<<"leaf_hashes">>}
    BY <1>6 DEF Sign, Allocates
  <2>2. Working' = {<<"leaf_hashes">>}
    <3>1. LeafBlocks(0)' = {}
      BY DEF LeafBlocks, Slots
    <3>2. QED
      BY <2>1, <3>1 DEF Working, Closing, Copied
  <2>3. SignerBlocks' = SignerBlocks /\ SigOwned' = SigOwned /\ CellsOwned' /\ DraftInv'
    BY <1>1, <2>1 DEF SignerBlocks, Copies, SigOwned, SigBlocks, CellsOwned, DraftInv, Closing,
         signer
  <2>4. QED
    BY <1>1, <1>2, <2>1, <2>2, <2>3 DEF HeapInv
<1>7. CASE FreeSignature
  <2>1. /\ pc = "idle" /\ pc' = "idle" /\ sig # NoSignature /\ sig' = NoSignature
        /\ UNCHANGED signer /\ heap' = heap \ SigBlocks
        /\ fault' = (fault \/ ~(SigBlocks \subseteq heap))
    BY <1>7 DEF FreeSignature, Frees
  <2>2. SigOwned = SigBlocks /\ SigOwned' = {} /\ SignerBlocks' = SignerBlocks /\ CellsOwned'
    BY <1>1, <2>1 DEF SigOwned, SignerBlocks, Copies, CellsOwned, signer
  <2>3. heap' = SignerBlocks' \cup SigOwned' /\ ~fault'
    BY <1>1, <1>2, <2>1, <2>2, Disjoint
  <2>4. QED
    BY <2>1, <2>2, <2>3, IdleKeeps
<1>8. CASE \E m \in Messages : AddMessage(m) \/ AddCopyFails(m)
  BY <1>8, HeapAddMessage, HeapAddCopyFails
<1>9. CASE SignStep
  BY <1>9, HeapSignNext
<1>10. CASE CreateFails
  <2>1. PICK got : /\ ~(Arrays(InitCap) \subseteq got)
                   /\ got = {} \/ \E a \in SUBSET Arrays(InitCap) : got = {<<"ctx">>} \cup a
                   /\ heap' = (heap \cup got) \ got
                   /\ fault' = (fault \/ ~(got \subseteq heap \cup got))
    BY <1>10 DEF CreateFails, CreateFrees, FailsFreeing
  <2>2. got \cap SigOwned = {}
    <3>1. \A b \in got : b[1] \in {"ctx", "messages", "msg_lens"}
      BY <2>1 DEF Arrays
    <3>2. \A b \in SigOwned :
            b[1] \in {"sig", "root_hash", "root_sig", "proofs", "proof_lens", "proof"}
      BY DEF SigOwned, SigBlocks
    <3>3. QED
      BY <3>1, <3>2
  <2>3. pc = "idle" /\ pc' = "idle" /\ capacity = 0 /\ UNCHANGED <<signer, sig>>
    BY <1>10 DEF CreateFails
  <2>4. SignerBlocks = {} /\ heap = SigOwned
    BY <1>1, <1>2, <2>3 DEF SignerBlocks
  <2>5. heap' = heap /\ ~fault'
    BY <1>1, <2>1, <2>2, <2>4
  <2>6. CellsOwned' /\ SignerBlocks' = SignerBlocks /\ SigOwned' = SigOwned
    BY <1>1, <2>3 DEF CellsOwned, SignerBlocks, Copies, SigOwned, SigBlocks, signer
  <2>7. QED
    BY <2>3, <2>4, <2>5, <2>6, IdleKeeps
<1>11. CASE GrowFails
  <2>1. PICK got \in SUBSET {<<"messages", GrownCapacity>>} :
                   /\ heap' = (heap \cup got) \ got
                   /\ fault' = (fault \/ ~(got \subseteq heap \cup got))
    BY <1>11 DEF GrowFails, NewArray, FailsFreeing
  <2>2. /\ pc = "idle" /\ pc' = "idle" /\ capacity > 0 /\ num_msgs >= capacity
        /\ UNCHANGED <<signer, sig>>
    BY <1>11 DEF GrowFails
  <2>3. GrownCapacity # capacity
    BY <2>2 DEF GrownCapacity, TypeOK
  <2>4. <<"messages", GrownCapacity>> \notin SignerBlocks
    BY <2>3 DEF SignerBlocks, Arrays, Copies
  <2>5. <<"messages", GrownCapacity>> \notin SigOwned
    BY DEF SigOwned, SigBlocks
  <2>6. heap = SignerBlocks \cup SigOwned
    BY <1>1, <1>2, <2>2
  <2>7. heap' = heap /\ ~fault'
    BY <1>1, <2>1, <2>4, <2>5, <2>6
  <2>8. CellsOwned' /\ SignerBlocks' = SignerBlocks /\ SigOwned' = SigOwned
    BY <1>1, <2>2 DEF CellsOwned, SignerBlocks, Copies, SigOwned, SigBlocks, signer
  <2>9. QED
    BY <2>2, <2>6, <2>7, <2>8, IdleKeeps
<1>12. CASE UNCHANGED vars
  BY <1>12 DEF vars, signer, locals, HeapInv, SignerBlocks, Copies, SigOwned, SigBlocks,
               Working, LeafBlocks, ProofBlocks, Cap, CellsOwned, DraftInv, DraftLens
<1>13. QED
  BY <1>3, <1>4, <1>5, <1>6, <1>7, <1>8, <1>9, <1>10, <1>11, <1>12 DEF Next

LEMMA HeapInit == Init => HeapInv
<1> SUFFICES ASSUME Init PROVE HeapInv
  OBVIOUS
<1>1. capacity = 0 /\ pc = "idle" /\ sig = NoSignature /\ heap = {} /\ ~fault
  BY DEF Init
<1>2. CellsOwned
  BY <1>1 DEF CellsOwned, Slots
<1>3. QED
  BY <1>1, <1>2 DEF HeapInv, SignerBlocks, SigOwned, Working, DraftInv, Closing

LEMMA HeapAlways == Spec => []HeapInv
BY TypeInit, TypeNext, HeapInit, HeapNext, PTL DEF Spec

\* None of the failure paths of batch_signer_create, batch_signer_add_message and
\* batch_signer_sign leaks: whichever array of a new or a growing buffer, copy, block
\* of sign or callback fails, and for any size of batch.
THEOREM NoLeakCorrect == Spec => []NoLeak
<1>1. HeapInv => NoLeak
  BY DEF HeapInv, NoLeak, SigOwned, Working
<1>2. QED
  BY <1>1, HeapAlways, PTL

\* No path frees a block twice or reads a freed one.
THEOREM NoFaultCorrect == Spec => []NoFault
<1>1. HeapInv => NoFault
  BY DEF HeapInv, NoFault
<1>2. QED
  BY <1>1, HeapAlways, PTL

\* A cell in use is NULL exactly when its length is zero, a free cell is NULL.
THEOREM CellsCorrect == Spec => []CellsOwned
<1>1. HeapInv => CellsOwned
  BY DEF HeapInv
<1>2. QED
  BY <1>1, HeapAlways, PTL

------------------------------------------------------------------------------
\* The batch in the cells, and the one signature that sign makes of a batch.
Batch == [i \in 1..num_msgs |-> Cell(i - 1)]
LeafHashesOf(b) == [i \in Slots(Len(b)) |-> Hash(b[i + 1])]
TreeOf(b) == BuiltTree(LeafHashesOf(b), LeafCapacity(Len(b)))
PathsOf(b, n) == [i \in Slots(n) |-> ProofPath(TreeOf(b), LeafCapacity(Len(b)), i)]
SignatureOf(b) ==
  [root_hash |-> TreeOf(b)[1], root_signature |-> SignRoot(TreeOf(b)[1]),
   proofs |-> PathsOf(b, Len(b)),
   proof_lens |-> [i \in Slots(Len(b)) |-> Depth(LeafCapacity(Len(b)))],
   num_proofs |-> Len(b)]

\* That signature is accepted for the batch it was made of and for no other.
LEMMA SignatureIsExact ==
  ASSUME NEW b \in Seq(Messages), b # <<>>, NEW v \in Seq(Messages)
  PROVE  BatchVerify(v, SignatureOf(b)) <=> v = b
<1>. DEFINE n == Len(b)
            d == Depth(n)
            cap == LeafCapacity(n)
            Accepts(i) == VerifyPath(Hash(v[i + 1]), ProofPath(TreeOf(b), cap, i), d, i, TreeOf(b)[1])
<1>1. n \in Nat \ {0} /\ Len(v) \in Nat
  BY EmptySeq, LenProperties
<1>2. d \in Nat /\ cap = Power[d] /\ n <= cap /\ Depth(cap) = d /\ cap \in Nat
  BY <1>1, DepthDef, DepthOfPower, PowerDef DEF LeafCapacity
<1>3. BatchVerify(v, SignatureOf(b)) <=> Len(v) = n /\ \A i \in Slots(n) : Accepts(i)
  <2>1. /\ SignatureOf(b).num_proofs = n /\ SignatureOf(b).root_hash = TreeOf(b)[1]
        /\ SignatureOf(b).root_signature = SignRoot(TreeOf(b)[1])
        /\ \A i \in Slots(n) : /\ SignatureOf(b).proofs[i] = ProofPath(TreeOf(b), cap, i)
                               /\ SignatureOf(b).proof_lens[i] = Depth(cap)
    BY DEF SignatureOf, PathsOf
  <2>. HIDE DEF n, d, cap
  <2>. QED  BY <1>2, <2>1 DEF BatchVerify, Proved
<1>4. ASSUME NEW i \in Slots(n)
      PROVE  Accepts(i) <=> v[i + 1] = b[i + 1]
  <2>1. i \in 0..(Power[d] - 1)
    BY <1>1, <1>2, <1>4 DEF Slots
  <2>2. Accepts(i) <=> Hash(v[i + 1]) = Leaf(LeafHashesOf(b), i)
    BY <1>2, <2>1, PathIsExact DEF TreeOf
  <2>3. Leaf(LeafHashesOf(b), i) = Hash(b[i + 1])
    BY <1>4 DEF Leaf, LeafHashesOf
  <2>. QED  BY <2>2, <2>3 DEF Hash
<1>5. v = b <=> Len(v) = n /\ \A i \in Slots(n) : v[i + 1] = b[i + 1]
  <2>1. ASSUME Len(v) = n, \A i \in Slots(n) : v[i + 1] = b[i + 1]
        PROVE  \A j \in 1..n : v[j] = b[j]
    <3>1. \A j \in 1..n : j - 1 \in Slots(n) /\ (j - 1) + 1 = j
      BY <1>1 DEF Slots
    <3>. QED  BY <2>1, <3>1
  <2>. QED  BY <2>1, SeqEqual
<1>. QED  BY <1>3, <1>4, <1>5

LEMMA BatchType ==
  ASSUME TypeOK, CellsOwned
  PROVE  Batch \in Seq(Messages) /\ Len(Batch) = num_msgs
<1>1. num_msgs \in Nat /\ capacity \in Nat /\ num_msgs <= capacity
  BY DEF TypeOK
<1>2. ASSUME NEW i \in 1..num_msgs
      PROVE  Cell(i - 1) \in Messages
  <2>1. i - 1 \in Slots(capacity) /\ i - 1 < num_msgs
    BY <1>1, <1>2 DEF Slots
  <2>2. messages[i - 1] \in Messages \cup {NULL} /\ (messages[i - 1] = NULL <=> msg_lens[i - 1] = 0)
    BY <2>1 DEF TypeOK, CellsOwned
  <2>. QED  BY <2>2 DEF Cell
<1>. QED  BY <1>1, <1>2 DEF Batch
------------------------------------------------------------------------------
\* What sign has computed so far is a part of the signature of the batch.
WorkInv ==
  /\ pc = "idle" => leaf_hashes = NoCells
  /\ pc = "hash" => leaf_hashes = [i \in Slots(k) |-> Hash(Cell(i))]
  /\ pc \notin {"idle", "hash"} => leaf_hashes = LeafHashesOf(Batch)
  /\ pc \notin {"idle", "hash", "build"} \cup Copied => tree = TreeOf(Batch)
  /\ pc \in Copied => draft.root_hash = TreeOf(Batch)[1]
  /\ pc \in {"arrays", "proofs"} \cup Closing =>
       draft.root_signature = SignRoot(TreeOf(Batch)[1])
  /\ pc = "proofs" => draft.proofs = PathsOf(Batch, k)
  /\ pc \in Closing => draft.proofs = PathsOf(Batch, num_msgs)

LEMMA WorkStarts ==
  ASSUME TypeOK, WorkInv, Sign
  PROVE  WorkInv'
<1>1. pc = "idle" /\ pc' = "hash" /\ k' = 0 /\ leaf_hashes' = NoCells
  BY DEF Sign, WorkInv, Closing, Copied
<1>2. Slots(0) = {}
  BY DEF Slots
<1>. QED  BY <1>1, <1>2 DEF WorkInv, Closing, Copied, NoCells

LEMMA WorkGoesOn ==
  ASSUME TypeOK, CellsOwned, DraftInv, WorkInv, SignStep
  PROVE  WorkInv'
<1>1. UNCHANGED signer /\ pc # "idle"
  BY DEF SignStep, HashLeaf, CreateTree, BuildTree, AllocateRootSig, SignCallback,
         AllocateArrays, TakeProof, AllocateSignature, CopyRoot, DestroyTree, SignDone, SignFails
<1>2. Batch' = Batch /\ \A i : Cell(i)' = Cell(i)
  BY <1>1 DEF Batch, Cell, signer
<1>3. Batch \in Seq(Messages) /\ Len(Batch) = num_msgs /\ num_msgs \in Nat /\ k \in 0..num_msgs
  BY BatchType DEF TypeOK
<1>4. Cap = LeafCapacity(Len(Batch))
  BY <1>3 DEF Cap
<1>5. CASE HashLeaf
  <2>1. /\ pc = "hash" /\ pc' = "hash" /\ k' = k + 1
        /\ leaf_hashes' = [i \in Slots(k + 1) |-> IF i = k THEN Hash(Cell(k)) ELSE leaf_hashes[i]]
    BY <1>5 DEF HashLeaf
  <2>2. \A i \in Slots(k + 1) : i = k \/ i \in Slots(k)
    BY <1>3 DEF Slots
  <2>3. leaf_hashes' = [i \in Slots(k + 1) |-> Hash(Cell(i))]
    BY <2>1, <2>2 DEF WorkInv, Closing, Copied
  <2>. QED  BY <1>2, <2>1, <2>3 DEF WorkInv, Closing, Copied
<1>6. CASE CreateTree
  <2>1. pc = "hash" /\ pc' = "build" /\ k = num_msgs /\ leaf_hashes' = leaf_hashes
    BY <1>6 DEF CreateTree, locals
  <2>2. LeafHashesOf(Batch) = [i \in Slots(num_msgs) |-> Hash(Cell(i))]
    <3>1. \A i \in Slots(num_msgs) : i + 1 \in 1..num_msgs /\ (i + 1) - 1 = i
      BY <1>3 DEF Slots
    <3>. QED  BY <1>3, <3>1 DEF LeafHashesOf, Batch
  <2>. QED  BY <1>2, <2>1, <2>2 DEF WorkInv, Closing, Copied
<1>7. CASE BuildTree
  <2>1. pc = "build" /\ pc' = "root_sig" /\ leaf_hashes' = leaf_hashes /\ tree' = BuiltTree(leaf_hashes, Cap)
    BY <1>7 DEF BuildTree
  <2>. QED  BY <1>2, <1>4, <2>1 DEF WorkInv, Closing, Copied, TreeOf
<1>8. CASE AllocateRootSig
  <2>1. pc = "root_sig" /\ pc' = "callback" /\ UNCHANGED <<leaf_hashes, tree>>
    BY <1>8 DEF AllocateRootSig, locals
  <2>. QED  BY <1>2, <2>1 DEF WorkInv, Closing, Copied
<1>9. CASE SignCallback
  <2>1. /\ pc = "callback" /\ pc' = "arrays" /\ UNCHANGED <<leaf_hashes, tree>>
        /\ draft'.root_signature = SignRoot(tree[1])
    BY <1>9 DEF SignCallback
  <2>. QED  BY <1>2, <2>1 DEF WorkInv, Closing, Copied
<1>10. CASE AllocateArrays
  <2>1. /\ pc = "arrays" /\ pc' = "proofs" /\ k' = 0 /\ UNCHANGED <<leaf_hashes, tree>>
        /\ draft'.root_signature = draft.root_signature /\ draft'.proofs = NoCells
    BY <1>10 DEF AllocateArrays
  <2>2. PathsOf(Batch, 0) = NoCells
    BY DEF PathsOf, Slots, NoCells
  <2>. QED  BY <1>2, <2>1, <2>2 DEF WorkInv, Closing, Copied
<1>11. CASE TakeProof
  <2>1. pc = "proofs" /\ pc' = "proofs" /\ k' = k + 1 /\ UNCHANGED <<leaf_hashes, tree>>
    BY <1>11 DEF TakeProof
  <2>2. draft = [root_signature |-> draft.root_signature, proofs |-> draft.proofs,
                 proof_lens |-> draft.proof_lens]
    BY <2>1 DEF DraftInv
  <2>3. /\ draft'.root_signature = draft.root_signature
        /\ draft'.proofs = [i \in Slots(k + 1) |-> IF i = k THEN ProofPath(tree, Cap, k) ELSE draft.proofs[i]]
    BY <1>11, <2>2 DEF TakeProof
  <2>4. \A i \in Slots(k + 1) : i = k \/ i \in Slots(k)
    BY <1>3 DEF Slots
  <2>5. draft'.proofs = PathsOf(Batch, k + 1)
    BY <1>4, <2>1, <2>3, <2>4 DEF WorkInv, Closing, Copied, PathsOf
  <2>. QED  BY <1>2, <2>1, <2>3, <2>5 DEF WorkInv, Closing, Copied
<1>12. CASE AllocateSignature
  <2>1. pc = "proofs" /\ pc' = "root_hash" /\ k = num_msgs /\ UNCHANGED <<leaf_hashes, tree, draft>>
        /\ UNCHANGED num_msgs
    BY <1>1, <1>12 DEF AllocateSignature, locals, signer
  <2>. QED  BY <1>2, <2>1 DEF WorkInv, Closing, Copied
<1>13. CASE CopyRoot
  <2>1. /\ pc = "root_hash" /\ pc' = "destroy" /\ UNCHANGED <<leaf_hashes, num_msgs>>
        /\ draft'.root_hash = tree[1] /\ draft'.root_signature = draft.root_signature
        /\ draft'.proofs = draft.proofs
    BY <1>1, <1>13 DEF CopyRoot, signer
  <2>. QED  BY <1>2, <2>1 DEF WorkInv, Closing, Copied
<1>14. CASE DestroyTree
  <2>1. pc = "destroy" /\ pc' = "free_leaves" /\ UNCHANGED <<leaf_hashes, draft, num_msgs>>
    BY <1>1, <1>14 DEF DestroyTree, locals, signer
  <2>. QED  BY <1>2, <2>1 DEF WorkInv, Closing, Copied
<1>15. CASE SignDone \/ SignFails
  <2>1. pc' = "idle" /\ leaf_hashes' = NoCells
    BY <1>15 DEF SignDone, SignFails, Return
  <2>. QED  BY <2>1 DEF WorkInv, Closing, Copied
<1>. QED  BY <1>5, <1>6, <1>7, <1>8, <1>9, <1>10, <1>11, <1>12, <1>13,
            <1>14, <1>15 DEF SignStep

LEMMA WorkNext == TypeOK /\ HeapInv /\ WorkInv /\ [Next]_vars => WorkInv'
<1>. SUFFICES ASSUME TypeOK, HeapInv, WorkInv, [Next]_vars PROVE WorkInv'
  OBVIOUS
<1>1. CASE \/ Create \/ CreateFails \/ GrowFails \/ Reset \/ Free \/ FreeSignature
           \/ \E m \in Messages : AddMessage(m) \/ AddCopyFails(m)
  <2>1. pc = "idle" /\ pc' = "idle" /\ leaf_hashes' = leaf_hashes
    BY <1>1 DEF Create, CreateFails, GrowFails, Reset, Free, FreeSignature, AddMessage, AddCopyFails, locals
  <2>. QED  BY <2>1 DEF WorkInv, Closing, Copied
<1>2. CASE UNCHANGED vars
  <2>1. UNCHANGED <<signer, pc, locals>>
    BY <1>2 DEF vars
  <2>2. Batch' = Batch /\ \A i : Cell(i)' = Cell(i)
    BY <2>1 DEF Batch, Cell, signer
  <2>. QED  BY <2>1, <2>2 DEF WorkInv, Closing, Copied, locals, signer
<1>. QED  BY <1>1, <1>2, WorkStarts, WorkGoesOn DEF Next, HeapInv

LEMMA WorkInit == Init => WorkInv
  BY DEF Init, WorkInv, Closing, Copied

\* What sign returns is the signature of the batch in the cells.
LEMMA SignDoneReturns ==
  ASSUME TypeOK, HeapInv, WorkInv, SignDone
  PROVE  sig' = SignatureOf(Batch)
<1>1. pc = "free_leaves" /\ Len(Batch) = num_msgs
  BY BatchType DEF SignDone, HeapInv
<1>2. draft.proof_lens = [i \in Slots(num_msgs) |-> Depth(LeafCapacity(num_msgs))]
  BY <1>1 DEF HeapInv, DraftInv, DraftLens, Closing, Cap
<1>3. /\ draft.root_hash = TreeOf(Batch)[1] /\ draft.root_signature = SignRoot(TreeOf(Batch)[1])
      /\ draft.proofs = PathsOf(Batch, num_msgs)
  BY <1>1 DEF WorkInv, Closing, Copied
<1>. QED  BY <1>1, <1>2, <1>3 DEF SignDone, SignatureOf

------------------------------------------------------------------------------
\* The refinement: what the notary has accepted depends on the signature only.
Accepted(s) ==
  IF s = NoSignature THEN NULL ELSE {v \in Batches(s.num_proofs + 1) : BatchVerify(v, s)}

LEMMA MappedNotary ==
  /\ Notary!Init <=> Batch = <<>> /\ Accepted(sig) = NULL
  /\ Notary!Sign <=> Batch # <<>> /\ Accepted(sig) = NULL /\ Accepted(sig)' = {Batch} /\ Batch' = Batch
  /\ Notary!Clear <=> Batch' = <<>> /\ Accepted(sig)' = Accepted(sig)
  /\ Notary!Drop <=> Accepted(sig)' = NULL /\ Batch' = Batch
  /\ \A m : Notary!Add(m) <=> Batch' = Append(Batch, m) /\ Accepted(sig)' = Accepted(sig)
  /\ Batch' = Batch /\ Accepted(sig)' = Accepted(sig) => UNCHANGED Notary!vars
  BY DEF Notary!Init, Notary!Sign, Notary!Clear, Notary!Drop, Notary!Add, Notary!vars, Batch, Accepted

\* Among the batches of at most one message more, one is accepted.
LEMMA AcceptedIsBatch ==
  ASSUME NEW b \in Seq(Messages), b # <<>>
  PROVE  Accepted(SignatureOf(b)) = {b}
<1>1. SignatureOf(b).num_proofs = Len(b) /\ Len(b) \in Nat \ {0}
  BY EmptySeq DEF SignatureOf
<1>2. SignatureOf(b) # NoSignature
  BY <1>1 DEF NoSignature
<1>3. \A v \in Batches(Len(b) + 1) : v \in Seq(Messages)
  BY <1>1, SeqDef DEF Batches
<1>4. b \in Batches(Len(b) + 1)
  BY <1>1, LenProperties DEF Batches
<1>. QED  BY <1>1, <1>2, <1>3, <1>4, SignatureIsExact DEF Accepted

\* A cell in use is the same in the wider arrays, and the new one is the message.
LEMMA BatchGrows ==
  ASSUME TypeOK, CellsOwned, NEW m \in Messages, AddMessage(m)
  PROVE  Batch' = Append(Batch, m)
<1>. DEFINE W == Widen(messages, NULL)
            L == Widen(msg_lens, 0)
<1>1. /\ capacity > 0 /\ GrowthFits /\ num_msgs' = num_msgs + 1
      /\ messages' = [W EXCEPT ![num_msgs] = IF m = Empty THEN NULL ELSE m]
      /\ msg_lens' = [L EXCEPT ![num_msgs] = MsgLen(m)]
  BY DEF AddMessage
<1>2. /\ GrownCapacity \in Nat /\ GrownCapacity > num_msgs /\ num_msgs \in Nat
      /\ W \in [Slots(GrownCapacity) -> Messages \cup {NULL}] /\ L \in [Slots(GrownCapacity) -> {0, 1}]
  BY <1>1, WidenType DEF TypeOK
<1>3. \A i \in Slots(GrownCapacity) : i < num_msgs => W[i] = messages[i] /\ L[i] = msg_lens[i]
  BY <1>1, WidenKeeps
<1>4. num_msgs \in Slots(GrownCapacity) /\ \A i \in Slots(num_msgs) :
        i \in Slots(GrownCapacity) /\ i < num_msgs /\ i # num_msgs
  BY <1>2 DEF Slots
<1>. HIDE DEF W, L
<1>. PICK n \in Nat : n = num_msgs
  BY <1>2
<1>5. Cell(n)' = m
  <2>1. messages'[n] = (IF m = Empty THEN NULL ELSE m) /\ msg_lens'[n] = MsgLen(m)
    BY <1>1, <1>2, <1>4
  <2>. QED  BY <2>1 DEF Cell, MsgLen
<1>6. \A i \in Slots(num_msgs) : Cell(i)' = Cell(i)
  <2>1. \A i \in Slots(num_msgs) : messages'[i] = messages[i] /\ msg_lens'[i] = msg_lens[i]
    BY <1>1, <1>2, <1>3, <1>4
  <2>. QED  BY <2>1 DEF Cell
<1>7. Batch' = [i \in 1..(n + 1) |-> IF i = n + 1 THEN m ELSE Batch[i]]
  <2>1. \A i \in 1..(n + 1) : i # n + 1 => i - 1 \in Slots(num_msgs) /\ i \in 1..num_msgs
    BY DEF Slots
  <2>2. Batch' = [i \in 1..(n + 1) |-> Cell(i - 1)']
    BY <1>1 DEF Batch
  <2>3. \A i \in 1..(n + 1) : Cell(i - 1)' = IF i = n + 1 THEN m ELSE Batch[i]
    BY <1>5, <1>6, <2>1 DEF Batch
  <2>. QED  BY <2>2, <2>3
<1>8. Batch \in Seq(Messages) /\ Len(Batch) = n
  BY BatchType
<1>9. \A b \in Seq(Messages) :
        Append(b, m) = [i \in 1..(Len(b) + 1) |-> IF i = Len(b) + 1 THEN m ELSE b[i]]
  <2>. TAKE b \in Seq(Messages)
  <2>. DEFINE g == [i \in 1..(Len(b) + 1) |-> IF i = Len(b) + 1 THEN m ELSE b[i]]
  <2>1. Len(b) \in Nat /\ \A i \in 1..Len(b) : b[i] \in Messages
    BY LenProperties, ElementOfSeq
  <2>2. g \in Seq(Messages) /\ Len(g) = Len(b) + 1
    BY <2>1
  <2>3. /\ Append(b, m) \in Seq(Messages) /\ Len(Append(b, m)) = Len(b) + 1
        /\ \A i \in 1..(Len(b) + 1) : Append(b, m)[i] = IF i = Len(b) + 1 THEN m ELSE b[i]
    BY <2>1, AppendProperties
  <2>4. \A i \in 1..Len(g) : Append(b, m)[i] = g[i]
    BY <2>2, <2>3
  <2>. HIDE DEF g
  <2>. QED  BY <2>2, <2>3, <2>4, SeqEqual DEF g
<1>. QED  BY <1>7, <1>8, <1>9

LEMMA RefinesInit == Init => Notary!Init
<1>1. Init => num_msgs = 0 /\ sig = NoSignature
  BY DEF Init
<1>2. num_msgs = 0 => Batch = <<>>
  BY DEF Batch
<1>. QED  BY <1>1, <1>2, MappedNotary DEF Accepted

LEMMA RefinesStep ==
  TypeOK /\ TypeOK' /\ HeapInv /\ WorkInv /\ [Next]_vars => [Notary!Next]_(Notary!vars)
<1>. SUFFICES ASSUME TypeOK, TypeOK', HeapInv, WorkInv, [Next]_vars
              PROVE  [Notary!Next]_(Notary!vars)
  OBVIOUS
<1>1. sig' = sig => Accepted(sig)' = Accepted(sig)
  BY DEF Accepted, NoSignature
<1>2. UNCHANGED signer => Batch' = Batch
  BY DEF Batch, Cell, signer
<1>3. num_msgs' = 0 => Batch' = <<>>
  BY DEF Batch
<1>4. CellsOwned
  BY DEF HeapInv
<1>5. CASE Create
  <2>1. num_msgs = 0 /\ num_msgs' = 0 /\ sig' = sig
    BY <1>5 DEF Create, TypeOK
  <2>. QED  BY <1>1, <1>3, <2>1, MappedNotary DEF Notary!Next
<1>6. CASE Reset \/ Free
  BY <1>1, <1>3, <1>6, MappedNotary DEF Reset, Free, Notary!Next
<1>7. CASE Sign
  BY <1>1, <1>2, <1>7, MappedNotary DEF Sign
<1>8. CASE FreeSignature
  <2>1. UNCHANGED signer /\ sig' = NoSignature
    BY <1>8 DEF FreeSignature
  <2>2. Accepted(sig)' = NULL
    BY <2>1 DEF Accepted
  <2>. QED  BY <1>2, <2>1, <2>2, MappedNotary DEF Notary!Next
<1>9. ASSUME NEW m \in Messages, AddMessage(m)
      PROVE  Notary!Next
  <2>1. sig' = sig
    BY <1>9 DEF AddMessage
  <2>. QED  BY <1>1, <1>4, <1>9, <2>1, BatchGrows, MappedNotary DEF Notary!Next
<1>10. ASSUME NEW m \in Messages, AddCopyFails(m)
       PROVE  UNCHANGED Notary!vars
  <2>1. /\ sig' = sig /\ num_msgs' = num_msgs /\ capacity > 0 /\ GrowthFits
        /\ messages' = Widen(messages, NULL) /\ msg_lens' = Widen(msg_lens, 0)
    BY <1>10 DEF AddCopyFails
  <2>2. \A i \in Slots(num_msgs) : i \in Slots(GrownCapacity) /\ i < num_msgs
    BY <2>1, WidenType DEF Slots, TypeOK
  <2>3. \A i \in Slots(num_msgs) : Cell(i)' = Cell(i)
    BY <1>4, <2>1, <2>2, WidenKeeps DEF Cell
  <2>4. Batch' = Batch
    BY <2>1, <2>3 DEF Batch, Slots, TypeOK
  <2>. QED  BY <1>1, <2>1, <2>4, MappedNotary
<1>11. CASE SignStep
  <2>1. UNCHANGED signer
    BY <1>11 DEF SignStep, HashLeaf, CreateTree, BuildTree, AllocateRootSig, SignCallback,
           AllocateArrays, TakeProof, AllocateSignature, CopyRoot, DestroyTree, SignDone, SignFails
  <2>2. CASE SignDone
    <3>1. sig' = SignatureOf(Batch) /\ sig = NoSignature /\ num_msgs \in Nat \ {0}
      BY <2>2, SignDoneReturns DEF SignDone, TypeOK
    <3>2. Batch \in Seq(Messages) /\ Batch # <<>>
      BY <1>4, <3>1, BatchType
    <3>3. Accepted(sig)' = {Batch}
      BY <3>1, <3>2, AcceptedIsBatch DEF Accepted
    <3>4. Accepted(sig) = NULL
      BY <3>1 DEF Accepted
    <3>. QED  BY <1>2, <2>1, <3>2, <3>3, <3>4, MappedNotary DEF Notary!Next
  <2>3. CASE ~SignDone
    <3>1. sig' = sig
      BY <1>11, <2>3 DEF SignStep, HashLeaf, CreateTree, BuildTree, AllocateRootSig, SignCallback,
             AllocateArrays, TakeProof, AllocateSignature, CopyRoot, DestroyTree, SignFails
    <3>. QED  BY <1>1, <1>2, <2>1, <3>1, MappedNotary
  <2>. QED  BY <2>2, <2>3
<1>12. CASE UNCHANGED vars
  BY <1>1, <1>2, <1>12, MappedNotary DEF vars
<1>13. CASE CreateFails \/ GrowFails
  <2>1. UNCHANGED signer /\ sig' = sig
    BY <1>13 DEF CreateFails, GrowFails
  <2>. QED  BY <1>1, <1>2, <2>1, MappedNotary
<1>. QED  BY <1>5, <1>6, <1>7, <1>8, <1>9, <1>10, <1>11, <1>12, <1>13 DEF Next

\* The signer is a notary: whatever batches it is given, whatever fails, however its
\* buffer grows, is reset and filled again or goes away, the signature that is out is
\* accepted for the batch it was made of and for no other of any length up to one more.
THEOREM SignerIsNotary == Spec => ImplementsNotary
<1>1. Init /\ [][Next]_vars => [](TypeOK /\ HeapInv /\ WorkInv)
  BY TypeInit, TypeNext, HeapInit, HeapNext, WorkInit, WorkNext, PTL
<1>2. TypeOK /\ HeapInv /\ WorkInv /\ TypeOK' /\ [Next]_vars => [Notary!Next]_(Notary!vars)
  BY RefinesStep
<1>. QED  BY <1>1, <1>2, RefinesInit, PTL DEF Spec, ImplementsNotary, Notary!Spec

------------------------------------------------------------------------------
\* How many more steps batch_signer_sign can take at most: what is left of its two
\* loops and of what it does once.
SignLeft ==
  CASE pc = "hash" -> (num_msgs - k) + num_msgs + 9
    [] pc = "build" -> num_msgs + 8
    [] pc = "root_sig" -> num_msgs + 7
    [] pc = "callback" -> num_msgs + 6
    [] pc = "arrays" -> num_msgs + 5
    [] pc = "proofs" -> (num_msgs - k) + 4
    [] pc = "root_hash" -> 3
    [] pc = "destroy" -> 2
    [] pc = "free_leaves" -> 1
    [] OTHER -> 0

\* Every step of sign, whatever fails in it, brings its end nearer.
LEMMA SignIsCloser ==
  TypeOK /\ pc # "idle" /\ Next => SignLeft' \in Nat /\ SignLeft' < SignLeft
<1> SUFFICES ASSUME TypeOK, pc # "idle", Next PROVE SignLeft' \in Nat /\ SignLeft' < SignLeft
  OBVIOUS
<1>1. num_msgs \in Nat /\ k \in 0..num_msgs
  BY DEF TypeOK
<1>2. SignStep
  BY DEF Next, Create, Reset, Free, Sign, FreeSignature, AddMessage, AddCopyFails, CreateFails,
         GrowFails
<1>3. num_msgs' = num_msgs
  BY <1>2 DEF SignStep, HashLeaf, CreateTree, BuildTree, AllocateRootSig, SignCallback,
       AllocateArrays, TakeProof, AllocateSignature, CopyRoot, DestroyTree, SignDone,
       SignFails, signer
<1>4. CASE HashLeaf
  <2>1. pc = "hash" /\ pc' = "hash" /\ k < num_msgs /\ k' = k + 1
    BY <1>4 DEF HashLeaf
  <2>2. SignLeft = (num_msgs - k) + num_msgs + 9 /\ SignLeft' = (num_msgs - (k + 1)) + num_msgs + 9
    BY <1>3, <2>1 DEF SignLeft
  <2>. QED  BY <1>1, <2>1, <2>2
<1>5. CASE TakeProof
  <2>1. pc = "proofs" /\ pc' = "proofs" /\ k < num_msgs /\ k' = k + 1
    BY <1>5 DEF TakeProof
  <2>2. SignLeft = (num_msgs - k) + 4 /\ SignLeft' = (num_msgs - (k + 1)) + 4
    BY <1>3, <2>1 DEF SignLeft
  <2>. QED  BY <1>1, <2>1, <2>2
<1>6. CASE CreateTree
  BY <1>1, <1>3, <1>6 DEF CreateTree, SignLeft
<1>7. CASE BuildTree
  BY <1>1, <1>3, <1>7 DEF BuildTree, SignLeft
<1>8. CASE AllocateRootSig
  BY <1>1, <1>3, <1>8 DEF AllocateRootSig, SignLeft
<1>9. CASE SignCallback
  BY <1>1, <1>3, <1>9 DEF SignCallback, SignLeft
<1>10. CASE AllocateArrays
  BY <1>1, <1>3, <1>10 DEF AllocateArrays, SignLeft
<1>11. CASE AllocateSignature
  BY <1>1, <1>3, <1>11 DEF AllocateSignature, SignLeft
<1>12. CASE CopyRoot
  BY <1>12 DEF CopyRoot, SignLeft
<1>13. CASE DestroyTree
  BY <1>13 DEF DestroyTree, SignLeft
<1>14. CASE SignDone \/ SignFails
  <2>1. pc' = "idle"
    BY <1>14 DEF SignDone, SignFails, Return
  <2>2. SignLeft' = 0
    BY <2>1 DEF SignLeft
  <2>3. SignLeft \in Nat /\ SignLeft >= 1
    <3>1. pc \in {"hash", "build", "root_sig", "callback", "arrays", "proofs", "root_hash",
                "destroy", "free_leaves"}
      BY DEF TypeOK
    <3>2. num_msgs - k >= 0
      BY <1>1
    <3>3. CASE pc = "hash"
      BY <1>1, <3>2, <3>3 DEF SignLeft
    <3>4. CASE pc = "proofs"
      BY <1>1, <3>2, <3>4 DEF SignLeft
    <3>5. CASE pc \in {"build", "root_sig"}
      BY <1>1, <3>5 DEF SignLeft
    <3>6. CASE pc \in {"callback", "arrays"}
      BY <1>1, <3>6 DEF SignLeft
    <3>7. CASE pc \in {"root_hash", "destroy", "free_leaves"}
      BY <3>7 DEF SignLeft
    <3>. QED  BY <3>1, <3>3, <3>4, <3>5, <3>6, <3>7
  <2>. QED  BY <2>2, <2>3
<1>. QED  BY <1>2, <1>4, <1>5, <1>6, <1>7, <1>8, <1>9, <1>10, <1>11, <1>12, <1>13,
            <1>14 DEF SignStep

\* sign of n messages returns after at most 2n + 9 steps, whichever of its allocations
\* fails and whatever the callback answers: it retries nothing, and nothing else happens
\* to the signer while it runs.
THEOREM SignEnds ==
  Spec => [][/\ Sign => SignLeft' = 2 * num_msgs + 9
             /\ pc # "idle" => SignLeft' \in Nat /\ SignLeft' < SignLeft]_vars
<1>1. TypeOK /\ Sign => SignLeft' = 2 * num_msgs + 9
  BY DEF Sign, SignLeft, signer, TypeOK
<1>2. TypeOK /\ [Next]_vars =>
        [/\ Sign => SignLeft' = 2 * num_msgs + 9
         /\ pc # "idle" => SignLeft' \in Nat /\ SignLeft' < SignLeft]_vars
  BY <1>1, SignIsCloser
<1>. QED  BY <1>2, TypeCorrect, PTL DEF Spec
==============================================================================
