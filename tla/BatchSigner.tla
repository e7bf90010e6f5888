----------------------------- MODULE BatchSigner -----------------------------
(***************************************************************************)
(* src/batch_signing.c: the message buffer of a signer (create, add, grow, *)
(* reset, free), batch_signer_sign with every allocation and the callback  *)
(* able to fail, the signature it hands out and batch_verify on it.  The   *)
(* tree is used through the functions of MerkleOps, which MerkleTree shows *)
(* to be what its loops compute.  heap holds the live blocks, named by     *)
(* their role; fault records a double free or a read of a freed block.     *)
(***************************************************************************)
EXTENDS Integers, Sequences, MerkleOps

CONSTANTS
  Messages,   \* the messages a caller may add
  Empty,      \* the message of length zero, a member of Messages
  InitCap,    \* first capacity of the buffer (16 in the code)
  PtrSize,    \* sizeof(uint8_t*) = sizeof(size_t)
  SizeMax,    \* SIZE_MAX
  NULL

ASSUME BufferAssumption ==
  /\ InitCap \in Nat \ {0} /\ PtrSize \in Nat \ {0} /\ SizeMax \in Nat
  /\ 2 * InitCap * PtrSize <= SizeMax
ASSUME MessageAssumption == Empty \in Messages /\ NULL \notin Messages

VARIABLES
  capacity,     \* struct batch_signer; capacity = 0: there is no signer
  num_msgs,
  messages,     \* cell i: the copied message, NULL for one of length zero
  msg_lens,
  pc,           \* where batch_signer_sign is, or "idle"
  k,            \* its loop counter
  leaf_hashes,  \* its local arrays, and the signature it is filling
  tree,
  draft,
  sig,          \* the signature handed out last, or NoSignature
  heap,
  fault

signer == <<capacity, num_msgs, messages, msg_lens>>
locals == <<k, leaf_hashes, tree, draft>>
vars == <<signer, pc, locals, sig, heap, fault>>

MsgLen(m) == IF m = Empty THEN 0 ELSE 1
Slots(n) == 0..(n - 1)
NoCells == [i \in {} |-> NULL]
NoSignature == [num_proofs |-> 0]
Arrays(cap) == {<<"messages", cap>>, <<"msg_lens", cap>>}
LeafBlocks(n) == {<<"leaf", i>> : i \in Slots(n)}
Cap == LeafCapacity(num_msgs)   \* capacity of the tree of this batch
ProofBlocks(n) == {<<"proof", i>> : i \in {j \in Slots(n) : Depth(Cap) > 0}}

\* free() of each block in S, and a read of each block in R: both need it live.
Frees(S) == heap' = heap \ S /\ fault' = (fault \/ ~(S \subseteq heap))
Allocates(S) == heap' = heap \cup S /\ UNCHANGED fault
AllocatesReading(S, R) ==
  heap' = heap \cup S /\ fault' = (fault \/ ~(R \subseteq heap))

\* A failure path: of what it asks for it gets the blocks got, then it frees.
FailsFreeing(got, freed) ==
  heap' = (heap \cup got) \ freed /\ fault' = (fault \/ ~(freed \subseteq heap \cup got))

Init ==
  /\ capacity = 0 /\ num_msgs = 0 /\ messages = NoCells /\ msg_lens = NoCells
  /\ pc = "idle" /\ k = 0 /\ leaf_hashes = NoCells /\ tree = NoCells /\ draft = NoCells
  /\ sig = NoSignature /\ heap = {} /\ fault = FALSE
------------------------------------------------------------------------------
\* batch_signer_create.
Create ==
  /\ pc = "idle" /\ capacity = 0
  /\ capacity' = InitCap /\ num_msgs' = 0
  /\ messages' = [i \in Slots(InitCap) |-> NULL]
  /\ msg_lens' = [i \in Slots(InitCap) |-> 0]
  /\ Allocates({<<"ctx">>} \cup Arrays(InitCap))
  /\ UNCHANGED <<pc, locals, sig>>

\* The struct, or one of its arrays (both are asked for), is not to be had.  What
\* was is freed.
CreateFrees(got) == got
CreateFails ==
  /\ pc = "idle" /\ capacity = 0
  /\ \E got \in {{}} \cup {{<<"ctx">>} \cup arrays : arrays \in SUBSET Arrays(InitCap)} :
       /\ ~(Arrays(InitCap) \subseteq got)
       /\ FailsFreeing(got, CreateFrees(got))
  /\ UNCHANGED <<signer, pc, locals, sig>>

GrownCapacity == IF num_msgs < capacity THEN capacity ELSE 2 * capacity

\* Seeded fault: only the doubling itself is checked.
GrowthFitsCells == num_msgs < capacity \/ capacity <= SizeMax \div 2

\* The checks of batch_signer_grow: doubling and both array sizes fit size_t.
GrowthFits ==
  \/ num_msgs < capacity
  \/ capacity <= SizeMax \div 2 /\ 2 * capacity <= SizeMax \div PtrSize

\* The arrays after batch_signer_grow: old cells copied, new cells zeroed.
Widen(cells, zero) ==
  [i \in Slots(GrownCapacity) |-> IF i < capacity THEN cells[i] ELSE zero]

OldArrays == IF num_msgs < capacity THEN {} ELSE Arrays(capacity)

\* batch_signer_add_message, with the growth when the buffer is full.
AddMessage(m) ==
  /\ pc = "idle" /\ capacity > 0 /\ GrowthFits
  /\ capacity' = GrownCapacity /\ num_msgs' = num_msgs + 1
  /\ messages' = [Widen(messages, NULL) EXCEPT ![num_msgs] = IF m = Empty THEN NULL ELSE m]
  /\ msg_lens' = [Widen(msg_lens, 0) EXCEPT ![num_msgs] = MsgLen(m)]
  /\ heap' = (heap \ OldArrays) \cup Arrays(GrownCapacity)
       \cup (IF m = Empty THEN {} ELSE {<<"msg", num_msgs>>})
  /\ fault' = (fault \/ ~(OldArrays \subseteq heap))
  /\ UNCHANGED <<pc, locals, sig>>

\* Seeded fault: a new array is left allocated when the other is not to be had.
NewArrayKept(got) == {}
NewArray(got) == got

\* The buffer is full and one of its two wider arrays, asked for in this order, is
\* not to be had.  (When a size does not fit, nothing is done at all.)
GrowFails ==
  /\ pc = "idle" /\ capacity > 0 /\ num_msgs >= capacity /\ GrowthFits
  /\ \E got \in SUBSET {<<"messages", GrownCapacity>>} : FailsFreeing(got, NewArray(got))
  /\ UNCHANGED <<signer, pc, locals, sig>>

\* The growth, if any, succeeds and the malloc of the copy fails: the buffer stays
\* grown.
AddCopyFails(m) ==
  /\ pc = "idle" /\ capacity > 0 /\ GrowthFits /\ m # Empty
  /\ capacity' = GrownCapacity
  /\ messages' = Widen(messages, NULL) /\ msg_lens' = Widen(msg_lens, 0)
  /\ heap' = (heap \ OldArrays) \cup Arrays(GrownCapacity)
  /\ fault' = (fault \/ ~(OldArrays \subseteq heap))
  /\ UNCHANGED <<num_msgs, pc, locals, sig>>

\* The copies held in the cells: free(NULL) is allowed.
Copies(n) == {<<"msg", i>> : i \in {j \in Slots(n) : messages[j] # NULL}}

\* Seeded fault: the copies are freed and the cells keep pointing at them.
ResetKeepsCells ==
  /\ pc = "idle" /\ capacity > 0
  /\ num_msgs' = 0
  /\ Frees(Copies(num_msgs))
  /\ UNCHANGED <<capacity, messages, msg_lens, pc, locals, sig>>

\* batch_signer_reset: the cells are cleared, the lengths are not.
Reset ==
  /\ pc = "idle" /\ capacity > 0
  /\ messages' = [i \in Slots(capacity) |-> IF i < num_msgs THEN NULL ELSE messages[i]]
  /\ num_msgs' = 0
  /\ Frees(Copies(num_msgs))
  /\ UNCHANGED <<capacity, msg_lens, pc, locals, sig>>

Free ==
  /\ pc = "idle" /\ capacity > 0
  /\ capacity' = 0 /\ num_msgs' = 0
  /\ messages' = NoCells /\ msg_lens' = NoCells
  /\ Frees(Copies(num_msgs) \cup Arrays(capacity) \cup {<<"ctx">>})
  /\ UNCHANGED <<pc, locals, sig>>
------------------------------------------------------------------------------
\* batch_signer_sign.  One signature is outstanding at a time (a bound).
Sign ==
  /\ pc = "idle" /\ capacity > 0 /\ num_msgs > 0 /\ sig = NoSignature
  /\ pc' = "hash" /\ k' = 0
  /\ Allocates({<<"leaf_hashes">>})
  /\ UNCHANGED <<signer, leaf_hashes, tree, draft, sig>>

\* msg_lens[i] bytes at messages[i]: what the callback hashes.
Cell(i) == IF msg_lens[i] = 0 THEN Empty ELSE messages[i]

HashLeaf ==
  /\ pc = "hash" /\ k < num_msgs
  /\ leaf_hashes' = [i \in Slots(k + 1) |-> IF i = k THEN Hash(Cell(k)) ELSE leaf_hashes[i]]
  /\ k' = k + 1
  /\ AllocatesReading({<<"leaf", k>>}, IF msg_lens[k] = 0 THEN {} ELSE {<<"msg", k>>})
  /\ UNCHANGED <<signer, pc, tree, draft, sig>>

CreateTree ==
  /\ pc = "hash" /\ k = num_msgs
  /\ pc' = "build"
  /\ Allocates({<<"tree">>})
  /\ UNCHANGED <<signer, locals, sig>>

BuildTree ==
  /\ pc = "build"
  /\ tree' = BuiltTree(leaf_hashes, Cap)
  /\ pc' = "root_sig"
  /\ AllocatesReading({}, LeafBlocks(num_msgs) \cup {<<"tree">>})
  /\ UNCHANGED <<signer, k, leaf_hashes, draft, sig>>

AllocateRootSig ==
  /\ pc = "root_sig"
  /\ pc' = "callback"
  /\ Allocates({<<"root_sig">>})
  /\ UNCHANGED <<signer, locals, sig>>

\* What the signing callback makes of a root, and what verifies it (external:
\* an ideal signature scheme).
SignRoot(root) == <<"signed", root>>

\* Seeded fault: a callback that does not fit the buffer is retried for ever.
SignCallbackRetries ==
  /\ pc = "callback"
  /\ draft' = [root_signature |-> SignRoot(tree[1])]
  /\ pc' \in {"arrays", "root_sig"}
  /\ AllocatesReading({}, {<<"tree">>, <<"root_sig">>})
  /\ UNCHANGED <<signer, k, leaf_hashes, tree, sig>>

SignCallback ==
  /\ pc = "callback"
  /\ draft' = [root_signature |-> SignRoot(tree[1])]
  /\ pc' = "arrays"
  /\ AllocatesReading({}, {<<"tree">>, <<"root_sig">>})
  /\ UNCHANGED <<signer, k, leaf_hashes, tree, sig>>

AllocateArrays ==
  /\ pc = "arrays"
  /\ pc' = "proofs" /\ k' = 0
  /\ draft' = [root_signature |-> draft.root_signature, proofs |-> NoCells,
               proof_lens |-> NoCells]
  /\ Allocates({<<"proofs">>, <<"proof_lens">>})
  /\ UNCHANGED <<signer, leaf_hashes, tree, sig>>

TakeProof ==
  /\ pc = "proofs" /\ k < num_msgs
  /\ draft' = [draft EXCEPT
       !.proofs = [i \in Slots(k + 1) |-> IF i = k THEN ProofPath(tree, Cap, k) ELSE @[i]],
       !.proof_lens = [i \in Slots(k + 1) |-> IF i = k THEN Depth(Cap) ELSE @[i]]]
  /\ k' = k + 1
  /\ AllocatesReading(ProofBlocks(k + 1) \ ProofBlocks(k), {<<"tree">>})
  /\ UNCHANGED <<signer, pc, leaf_hashes, tree, sig>>

AllocateSignature ==
  /\ pc = "proofs" /\ k = num_msgs
  /\ pc' = "root_hash"
  /\ Allocates({<<"sig">>})
  /\ UNCHANGED <<signer, locals, sig>>

Leaves == {<<"leaf_hashes">>} \cup LeafBlocks(num_msgs)

Return ==
  /\ pc' = "idle" /\ k' = 0
  /\ leaf_hashes' = NoCells /\ tree' = NoCells /\ draft' = NoCells

\* The root is copied out of the tree, which is then destroyed, and the leaf
\* hashes with it.
CopyRoot ==
  /\ pc = "root_hash"
  /\ pc' = "destroy"
  /\ draft' = [root_hash |-> tree[1], root_signature |-> draft.root_signature,
               proofs |-> draft.proofs, proof_lens |-> draft.proof_lens]
  /\ AllocatesReading({<<"root_hash">>}, {<<"tree">>})
  /\ UNCHANGED <<signer, k, leaf_hashes, tree, sig>>

DestroyTree ==
  /\ pc = "destroy"
  /\ pc' = "free_leaves"
  /\ Frees({<<"tree">>})
  /\ UNCHANGED <<signer, locals, sig>>

SignDone ==
  /\ pc = "free_leaves"
  /\ sig' = [root_hash |-> draft.root_hash, root_signature |-> draft.root_signature,
             proofs |-> draft.proofs, proof_lens |-> draft.proof_lens,
             num_proofs |-> num_msgs]
  /\ Frees(Leaves)
  /\ Return
  /\ UNCHANGED signer

\* Seeded fault: for (j = 0; j <= i; ++j).
HashedThrough == LeafBlocks(k + 1)

\* The leaf hashes freed when the malloc for leaf k fails: for (j = 0; j < i; ++j).
HashedBefore == LeafBlocks(k)

\* What each failure path of sign frees.  got: which of the two arrays exists.
Cleanup(got) ==
  CASE pc = "hash" /\ k < num_msgs -> {<<"leaf_hashes">>} \cup HashedBefore
    [] pc = "hash" /\ k = num_msgs -> Leaves
    [] pc \in {"build", "root_sig"} -> Leaves \cup {<<"tree">>}
    [] pc = "callback" -> Leaves \cup {<<"tree">>, <<"root_sig">>}
    [] pc = "arrays" -> Leaves \cup {<<"tree">>, <<"root_sig">>} \cup got
    [] pc = "proofs" ->
         Leaves \cup {<<"tree">>, <<"root_sig">>, <<"proofs">>, <<"proof_lens">>}
                \cup ProofBlocks(k)
    [] pc = "root_hash" ->
         Leaves \cup {<<"tree">>, <<"root_sig">>, <<"proofs">>, <<"proof_lens">>, <<"sig">>}
                \cup ProofBlocks(num_msgs)

\* The allocation of the current step fails, or the callback does (or returns a
\* length of 0 or beyond root_sig_capacity).  An empty proof cannot fail.
SignFails ==
  /\ pc \notin {"idle", "destroy", "free_leaves"}
  /\ pc = "proofs" /\ k < num_msgs => Cap > 1
  /\ \E got \in SUBSET {<<"proofs">>, <<"proof_lens">>} :
       /\ got # {<<"proofs">>, <<"proof_lens">>} /\ (pc # "arrays" => got = {})
       /\ FailsFreeing(got, Cleanup(got))
  /\ Return
  /\ UNCHANGED <<signer, sig>>

\* batch_signature_free.
SigBlocks ==
  {<<"sig">>, <<"root_hash">>, <<"root_sig">>, <<"proofs">>, <<"proof_lens">>}
    \cup {<<"proof", i>> : i \in {j \in Slots(sig.num_proofs) : sig.proof_lens[j] > 0}}

FreeSignature ==
  /\ pc = "idle" /\ sig # NoSignature
  /\ sig' = NoSignature
  /\ Frees(SigBlocks)
  /\ UNCHANGED <<signer, pc, locals>>

SignStep ==
  \/ HashLeaf \/ CreateTree \/ BuildTree \/ AllocateRootSig \/ SignCallback
  \/ AllocateArrays \/ TakeProof \/ AllocateSignature \/ CopyRoot \/ DestroyTree
  \/ SignDone \/ SignFails

Next ==
  \/ Create \/ CreateFails \/ GrowFails \/ Reset \/ Free \/ Sign \/ FreeSignature
  \/ \E m \in Messages : AddMessage(m) \/ AddCopyFails(m)
  \/ SignStep

\* The thread inside batch_signer_sign keeps running.
Spec == Init /\ [][Next]_vars /\ WF_vars(SignStep)
------------------------------------------------------------------------------
\* The path of message i leads from its hash to the root.
Proved(msgs, s, i) ==
  VerifyPath(Hash(msgs[i + 1]), s.proofs[i], s.proof_lens[i], i, s.root_hash)

\* Seeded fault: a signature of more messages is accepted for the first ones.
BatchVerifyPrefix(msgs, s) ==
  /\ Len(msgs) <= s.num_proofs
  /\ \A i \in Slots(Len(msgs)) : Proved(msgs, s, i)
  /\ s.root_signature = SignRoot(s.root_hash)

\* batch_verify(msgs, sig): msgs is a sequence of messages, none a NULL pointer,
\* and no allocation fails (BenchBatch has the steps of a call that is made).
BatchVerify(msgs, s) ==
  /\ Len(msgs) = s.num_proofs
  /\ \A i \in Slots(Len(msgs)) : Proved(msgs, s, i)
  /\ s.root_signature = SignRoot(s.root_hash)

\* The variables have their types, and the buffer never outgrows size_t.
TypeOK ==
  /\ capacity \in Nat /\ num_msgs \in 0..capacity /\ capacity * PtrSize <= SizeMax
  /\ messages \in [Slots(capacity) -> Messages \cup {NULL}]
  /\ msg_lens \in [Slots(capacity) -> {0, 1}]
  /\ pc \in {"idle", "hash", "build", "root_sig", "callback", "arrays", "proofs", "root_hash",
            "destroy", "free_leaves"}
  /\ k \in 0..num_msgs
  /\ IF pc = "idle" THEN k = 0 ELSE num_msgs > 0 /\ sig = NoSignature
  /\ fault \in BOOLEAN

\* add, grow and reset together: a cell in use holds NULL exactly when its
\* length is zero, so sign never hashes a NULL pointer with a length left over
\* from before a reset; a cell not in use holds NULL, so nothing is freed twice.
CellsOwned ==
  \A i \in Slots(capacity) :
    IF i < num_msgs THEN messages[i] = NULL <=> msg_lens[i] = 0 ELSE messages[i] = NULL

\* The blocks of the signer and those of the outstanding signature.
SignerBlocks ==
  IF capacity = 0 THEN {} ELSE {<<"ctx">>} \cup Arrays(capacity) \cup Copies(num_msgs)

\* Between calls every live block belongs to the signer or to the signature:
\* none of the failure paths of create, add (the second array of a growth, the
\* copy after a growth) and sign leaks.
NoLeak ==
  pc = "idle" => heap = SignerBlocks \cup (IF sig = NoSignature THEN {} ELSE SigBlocks)

\* No path frees a block twice, and nothing freed is read: the root is signed,
\* walked from and copied before the tree goes, the copies live while they are
\* hashed, and a growth frees its own new array, never one in use.
NoFault == ~fault

\* The signer implements BatchNotary: through growth, failed allocations, resets
\* with stale lengths and the end of the signer, batch_verify accepts the
\* outstanding signature for exactly the batch it was made of, among the batches
\* of at most one message more: none shorter, longer, reordered or altered.
Batches(n) == UNION {[1..len -> Messages] : len \in 0..n}
Notary == INSTANCE BatchNotary WITH
  batch <- [i \in 1..num_msgs |-> Cell(i - 1)],
  accepted <- IF sig = NoSignature THEN NULL
              ELSE {v \in Batches(sig.num_proofs + 1) : BatchVerify(v, sig)}

ImplementsNotary == Notary!Spec

\* batch_signer_sign returns, with a signature or without.
SignReturns == pc # "idle" ~> pc = "idle"
==============================================================================
