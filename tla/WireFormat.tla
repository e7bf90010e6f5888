----------------------------- MODULE WireFormat -----------------------------
(***************************************************************************)
(* batch_signature_serialize and batch_signature_deserialize, with the     *)
(* widths as parameters: a byte has Base values and a uint32_t WordSize    *)
(* bytes.  deserialize reads a file of data_len bytes that may hold        *)
(* anything: a byte is chosen when it is first read, so that every file is *)
(* covered and none is built.  Any malloc may fail.                        *)
(***************************************************************************)
EXTENDS Integers, SequencesExt

CONSTANTS
  Base,       \* values of a byte (256 in the code)
  WordSize,   \* sizeof(uint32_t) (4)
  PtrSize,    \* sizeof(uint8_t*) = sizeof(size_t) (8)
  SizeMax,    \* SIZE_MAX
  HashSize,   \* hash_size
  DataLens,   \* bound: lengths of the files given to deserialize
  Values,     \* bound: the numbers such a file holds as uint32_t
  Payload,    \* bound: the bytes of its digests and root signature
  Signed,     \* signatures as batch_signer_sign returns them
  NoRoom      \* the NULL given to serialize as its buffer

\* What the byte with b less significant ones below it counts: 1 << (8 * b).
Place[b \in Nat] == IF b = 0 THEN 1 ELSE Base * Place[b - 1]

U32Max == Place[WordSize] - 1
ASSUME WidthAssumption ==
  /\ Base \in Nat \ {0, 1} /\ WordSize \in Nat \ {0} /\ PtrSize \in Nat \ {0}
  /\ HashSize \in Nat \ {0} /\ SizeMax \in Nat
ASSUME FileAssumption ==
  /\ DataLens \subseteq 0..SizeMax /\ NoRoom \notin Int
  /\ Values \subseteq 0..U32Max /\ Payload \subseteq 0..(Base - 1)

VARIABLES
  pc,        \* where batch_signature_deserialize is
  data_len,
  data,      \* the bytes read so far; ptr is past the last one
  n,         \* num_proofs
  root_hash, root_signature, proofs,   \* struct batch_signature so far
  siblings,  \* proofs[i] so far, for the next i
  proof_len, \* its length
  heap,      \* the live blocks, named by their role
  fault,     \* a block was freed that was not live
  oom,       \* ghost: a malloc of this call failed
  reply      \* what the last serialize of the decoded signature returned

sig == <<n, root_hash, root_signature, proofs, siblings, proof_len>>
vars == <<pc, data_len, data, sig, heap, fault, oom, reply>>

Slots(m) == 0..(m - 1)
MulFits(lhs, rhs) == lhs * rhs <= SizeMax      \* checked_mul_size
Left == data_len - Len(data)                   \* end - ptr
Decoded == [root_hash |-> root_hash, root_signature |-> root_signature, proofs |-> proofs]
------------------------------------------------------------------------------
\* write_u32 and read_u32: little endian.
WordBytes(value) == [b \in 1..WordSize |-> (value \div Place[b - 1]) % Base]
WordOf(bytes) ==
  LET value[b \in 0..WordSize] ==
        IF b = 0 THEN 0 ELSE value[b - 1] + bytes[b] * Place[b - 1]
  IN  value[WordSize]

Words == {WordBytes(value) : value \in Values}
Bytes(len) == [1..len -> Payload]

Version == 1

ProofBytes(proof) == WordBytes(Len(proof)) \o FlattenSeq(proof)

\* The second pass of serialize.
Encode(s) ==
  WordBytes(Version) \o WordBytes(HashSize) \o WordBytes(Len(s.proofs))
    \o WordBytes(HashSize) \o s.root_hash
    \o WordBytes(Len(s.root_signature)) \o s.root_signature
    \o FlattenSeq([i \in 1..Len(s.proofs) |-> ProofBytes(s.proofs[i])])

\* The first pass: five words and the payload, then the proofs.
Needed(s) ==
  LET size[i \in 0..Len(s.proofs)] ==
        IF i = 0 THEN 5 * WordSize + HashSize + Len(s.root_signature)
        ELSE size[i - 1] + WordSize + Len(s.proofs[i]) * HashSize
  IN  size[Len(s.proofs)]

\* An empty root signature is a NULL pointer.
Serializable(s) ==
  /\ s.root_signature # <<>>
  /\ HashSize <= U32Max /\ Len(s.proofs) <= U32Max /\ Len(s.root_signature) <= U32Max
  /\ \A i \in DOMAIN s.proofs : Len(s.proofs[i]) <= U32Max
  /\ Needed(s) <= SizeMax

\* batch_signature_serialize(s, out, &room); NoRoom: out is NULL.
SerializeReply(s, room) ==
  IF ~Serializable(s) THEN [rc |-> -1]
  ELSE IF room = NoRoom THEN [rc |-> 0, out_len |-> Needed(s)]
  ELSE IF room < Needed(s) THEN [rc |-> -1]
  ELSE [rc |-> 0, out_len |-> Needed(s), out |-> Encode(s)]
------------------------------------------------------------------------------
Clear ==
  /\ n' = 0 /\ root_hash' = <<>> /\ root_signature' = <<>> /\ proofs' = <<>>
  /\ siblings' = <<>> /\ proof_len' = 0

Init ==
  /\ pc = "idle" /\ data_len = 0 /\ data = <<>>
  /\ n = 0 /\ root_hash = <<>> /\ root_signature = <<>> /\ proofs = <<>>
  /\ siblings = <<>> /\ proof_len = 0
  /\ heap = {} /\ fault = FALSE /\ oom = FALSE /\ reply = <<>>

RootSigBlocks == IF root_signature = <<>> THEN {} ELSE {<<"root_signature">>}
PathBlocks(i, len) ==
  IF len = 0 THEN {} ELSE {<<"proof", i>>} \cup {<<"sibling", i, j>> : j \in Slots(len)}
Arrays == {<<"proofs">>, <<"proof_lens">>}
Struct == {<<"sig">>, <<"root_hash">>} \cup RootSigBlocks

\* The struct, its arrays and the proofs read so far: what batch_signature_free
\* frees, and most failure paths of deserialize line by line.
Built ==
  Struct \cup (IF n = 0 THEN {} ELSE Arrays)
    \cup UNION {PathBlocks(i - 1, Len(proofs[i])) : i \in DOMAIN proofs}

Frees(S) == heap' = heap \ S /\ fault' = (fault \/ ~(S \subseteq heap))
Allocates(S) == heap' = heap \cup S /\ UNCHANGED fault

\* Free S and return NULL.
Rejects(S) == pc' = "rejected" /\ Frees(S) /\ Clear /\ UNCHANGED <<data_len, reply>>
RejectsRead(S, bytes) == Rejects(S) /\ data' = data \o bytes /\ UNCHANGED oom
RunsOut(S) == Rejects(S) /\ oom' = TRUE /\ UNCHANGED data

\* The cursor moves over bytes and the next step is at next.
Reads(bytes, next) ==
  /\ data' = data \o bytes /\ pc' = next
  /\ UNCHANGED <<data_len, oom, reply>>
------------------------------------------------------------------------------
Deserialize(len) ==
  /\ pc = "idle"
  /\ pc' = "header" /\ data_len' = len
  /\ UNCHANGED <<data, sig, heap, fault, oom, reply>>

\* The quotient is cast to uint32_t before it is compared.
CountFits(count, left) == count <= (left \div WordSize) % (U32Max + 1)

HeaderFits(version, hash_size, count, root_hash_len) ==
  LET left == data_len - 4 * WordSize
  IN  /\ version = Version
      /\ hash_size = HashSize % (U32Max + 1) /\ root_hash_len = HashSize % (U32Max + 1)
      /\ left >= HashSize /\ CountFits(count, left)

Header ==
  /\ pc = "header" /\ Left >= 4 * WordSize
  /\ \E w \in [1..4 -> Words] :
       LET read == w[1] \o w[2] \o w[3] \o w[4]
       IN  IF HeaderFits(WordOf(w[1]), WordOf(w[2]), WordOf(w[3]), WordOf(w[4]))
           THEN /\ Reads(read, "sig") /\ n' = WordOf(w[3])
                /\ UNCHANGED <<root_hash, root_signature, proofs, siblings, proof_len,
                               heap, fault>>
           ELSE RejectsRead({}, read)

HeaderShort == pc = "header" /\ Left < 4 * WordSize /\ RejectsRead({}, <<>>)

AllocateSig ==
  /\ pc = "sig"
  /\ Reads(<<>>, "root_hash") /\ Allocates({<<"sig">>})
  /\ UNCHANGED sig

AllocateSigFails == pc = "sig" /\ RunsOut({})

RootHash ==
  /\ pc = "root_hash"
  /\ \E bytes \in Bytes(HashSize) : Reads(bytes, "root_sig") /\ root_hash' = bytes
  /\ Allocates({<<"root_hash">>})
  /\ UNCHANGED <<n, root_signature, proofs, siblings, proof_len>>

RootHashFails == pc = "root_hash" /\ RunsOut({<<"sig">>})

\* The word is there and what follows it holds as many bytes.
RootSigFits(word) == Left >= WordSize + WordOf(word)

RootSig ==
  /\ pc = "root_sig"
  /\ \E word \in Words :
       /\ RootSigFits(word)
       /\ \E bytes \in Bytes(WordOf(word)) :
            Reads(word \o bytes, "arrays") /\ root_signature' = bytes
       /\ Allocates(IF WordOf(word) = 0 THEN {} ELSE {<<"root_signature">>})
  /\ UNCHANGED <<n, root_hash, proofs, siblings, proof_len>>

RootSigShort ==
  /\ pc = "root_sig"
  /\ \/ Left < WordSize /\ RejectsRead(Struct, <<>>)
     \/ Left >= WordSize /\ \E word \in Words :
          ~RootSigFits(word) /\ RejectsRead(Struct, word)

RootSigFails ==
  /\ pc = "root_sig"
  /\ \E word \in Words : WordOf(word) > 0 /\ RootSigFits(word)
  /\ RunsOut(Struct)

\* Two callocs, each of which may fail, and then one test for both.
AllocateArrays ==
  /\ pc = "arrays" /\ MulFits(n, PtrSize)
  /\ \E got \in SUBSET Arrays : (n = 0 => got = {}) /\ Allocates(got)
  /\ Reads(<<>>, "arrays_done")
  /\ UNCHANGED sig

ArraysTooLarge == pc = "arrays" /\ ~MulFits(n, PtrSize) /\ RejectsRead(Struct, <<>>)

ArraysDone ==
  /\ pc = "arrays_done" /\ (n > 0 => Arrays \subseteq heap)
  /\ Reads(<<>>, "proof_len")
  /\ UNCHANGED <<sig, heap, fault>>

\* free(NULL) does nothing for the one that is missing.
AllocateArraysFails ==
  /\ pc = "arrays_done" /\ n > 0 /\ ~(Arrays \subseteq heap)
  /\ RunsOut(Struct \cup (Arrays \cap heap))
------------------------------------------------------------------------------
\* The loop over the proofs.
\* Seeded fault: the digests are counted and not their bytes.
PathFitsDigests(word) == Left >= WordSize + WordOf(word)

\* Seeded fault: the last path must not end with the file.
PathFitsStrictly(word) == Left > WordSize + WordOf(word) * HashSize

PathFits(word) ==
  /\ MulFits(WordOf(word), HashSize) /\ MulFits(WordOf(word), PtrSize)
  /\ Left >= WordSize + WordOf(word) * HashSize

AllocateProof ==
  /\ pc = "proof_len" /\ Len(proofs) < n /\ Left >= WordSize
  /\ \E word \in Words :
       /\ PathFits(word)
       /\ Reads(word, "sibling") /\ proof_len' = WordOf(word)
       /\ Allocates(IF WordOf(word) = 0 THEN {} ELSE {<<"proof", Len(proofs)>>})
  /\ UNCHANGED <<n, root_hash, root_signature, proofs, siblings>>

ProofShort ==
  /\ pc = "proof_len" /\ Len(proofs) < n
  /\ \/ Left < WordSize /\ RejectsRead(Built, <<>>)
     \/ Left >= WordSize /\ \E word \in Words :
          ~PathFits(word) /\ RejectsRead(Built, word)

AllocateProofFails ==
  /\ pc = "proof_len" /\ Len(proofs) < n /\ Left >= WordSize
  /\ \E word \in Words : WordOf(word) > 0 /\ PathFits(word)
  /\ RunsOut(Built)

TakeSibling ==
  /\ pc = "sibling" /\ Len(siblings) < proof_len
  /\ \E bytes \in Bytes(HashSize) :
       Reads(bytes, "sibling") /\ siblings' = Append(siblings, bytes)
  /\ Allocates({<<"sibling", Len(proofs), Len(siblings)>>})
  /\ UNCHANGED <<n, root_hash, root_signature, proofs, proof_len>>

\* Seeded faults: k < j - 1, and k <= j.
TakenButLast == {<<"sibling", Len(proofs), j>> : j \in Slots(Len(siblings) - 1)}
TakenThrough == {<<"sibling", Len(proofs), j>> : j \in Slots(Len(siblings) + 1)}

\* The siblings of this path before the one that failed: k < j.
Taken == {<<"sibling", Len(proofs), j>> : j \in Slots(Len(siblings))}

TakeSiblingFails ==
  /\ pc = "sibling" /\ Len(siblings) < proof_len
  /\ RunsOut(Built \cup {<<"proof", Len(proofs)>>} \cup Taken)

ProofDone ==
  /\ pc = "sibling" /\ Len(siblings) = proof_len
  /\ Reads(<<>>, "proof_len")
  /\ proofs' = Append(proofs, siblings) /\ siblings' = <<>> /\ proof_len' = 0
  /\ UNCHANGED <<n, root_hash, root_signature, heap, fault>>

\* Seeded fault: bytes left over are ignored.
AcceptTrailing ==
  /\ pc = "proof_len" /\ Len(proofs) = n
  /\ Reads(<<>>, "decoded")
  /\ UNCHANGED <<sig, heap, fault>>

Accept ==
  /\ pc = "proof_len" /\ Len(proofs) = n /\ Left = 0
  /\ Reads(<<>>, "decoded")
  /\ UNCHANGED <<sig, heap, fault>>

Trailing ==
  /\ pc = "proof_len" /\ Len(proofs) = n /\ Left # 0
  /\ RejectsRead(Built, <<>>)
------------------------------------------------------------------------------
\* The caller serializes what it got: to learn the size, or into a buffer of
\* room bytes.
Serialize(room) ==
  /\ pc = "decoded"
  /\ reply' = <<room, SerializeReply(Decoded, room)>>
  /\ UNCHANGED <<pc, data_len, data, sig, heap, fault, oom>>

Forget == pc' = "idle" /\ data_len' = 0 /\ data' = <<>> /\ oom' = FALSE /\ reply' = <<>>

\* batch_signature_free.
Free == pc = "decoded" /\ Frees(Built) /\ Clear /\ Forget

Again == pc = "rejected" /\ Forget /\ UNCHANGED <<sig, heap, fault>>

Next ==
  \/ \E len \in DataLens : Deserialize(len)
  \/ Header \/ HeaderShort \/ AllocateSig \/ AllocateSigFails \/ RootHash \/ RootHashFails
  \/ RootSig \/ RootSigShort \/ RootSigFails
  \/ AllocateArrays \/ ArraysTooLarge \/ ArraysDone \/ AllocateArraysFails
  \/ AllocateProof \/ ProofShort \/ AllocateProofFails
  \/ TakeSibling \/ TakeSiblingFails \/ ProofDone \/ Accept \/ Trailing
  \/ \E room \in {NoRoom, data_len - 1, data_len} : Serialize(room)
  \/ Free \/ Again

Spec == Init /\ [][Next]_vars
------------------------------------------------------------------------------
Fresh == siblings = <<>> /\ proof_len = 0
Owed == (proof_len - Len(siblings)) * HashSize   \* what the path being read still takes

\* The variables have their types; in particular the cursor never passes the
\* end of the file, whatever lengths the file claims, and what was promised of
\* the digests still to come is still there.
TypeOK ==
  /\ pc \in {"idle", "header", "sig", "root_hash", "root_sig", "arrays", "arrays_done",
             "proof_len", "sibling", "decoded", "rejected"}
  /\ data_len \in Nat /\ data \in Seq(0..(Base - 1)) /\ Left >= 0
  /\ n \in Nat /\ root_signature \in Seq(Payload) /\ proof_len \in Nat
  /\ siblings \in Seq(Bytes(HashSize)) /\ proofs \in Seq(Seq(Bytes(HashSize)))
  /\ Len(proofs) <= n /\ Len(siblings) <= proof_len
  /\ Left >= Owed
  /\ pc \in {"sig", "root_hash"} => Left >= HashSize
  /\ pc # "sibling" => Fresh
  /\ pc \in {"idle", "header"} => data = <<>>
  /\ pc \in {"idle", "header", "rejected"} => n = 0
  /\ pc \notin {"proof_len", "sibling", "decoded"} => proofs = <<>>
  /\ pc \in {"idle", "header", "sig", "root_hash", "root_sig", "rejected"} =>
       root_signature = <<>>
  /\ pc = "sibling" => Len(proofs) < n
  /\ fault \in BOOLEAN /\ oom \in BOOLEAN

\* serialize and deserialize are inverse to each other.  One way: a file that is
\* accepted is the one file serialize makes of the result, so that no other
\* file, no longer and no shorter one decodes to it; the size query and the
\* write agree on its length; and only a signature without a root signature, or
\* one of digests longer than a uint32_t says, cannot be written again.
Canonical ==
  pc = "decoded" =>
    /\ Encode(Decoded) = data /\ Needed(Decoded) = data_len
    /\ reply # <<>> =>
         reply[2] =
           IF root_signature = <<>> \/ HashSize > U32Max \/ reply[1] = data_len - 1
           THEN [rc |-> -1]
           ELSE IF reply[1] = NoRoom THEN [rc |-> 0, out_len |-> data_len]
           ELSE [rc |-> 0, out_len |-> data_len, out |-> data]

SignedFiles == {Encode(s) : s \in Signed}

\* The other way: as long as no malloc fails, nothing serialize writes of a
\* signature that sign returned is rejected.
RoundTrip ==
  pc = "rejected" /\ ~oom =>
    \A file \in SignedFiles : ~(Len(file) = data_len /\ IsPrefix(data, file))

\* What RoundTrip needs of a signature: its arrays fit size_t, serialize writes it,
\* and the cast of CountFits loses nothing.
Uncut(s) == (Needed(s) - 4 * WordSize) \div WordSize <= U32Max
Readable(s) ==
  /\ s.root_hash \in Bytes(HashSize) /\ s.root_signature \in Seq(Payload)
  /\ s.proofs \in Seq(Seq(Bytes(HashSize)))
  /\ MulFits(Len(s.proofs), PtrSize)
  /\ \A i \in DOMAIN s.proofs : MulFits(Len(s.proofs[i]), PtrSize)
  /\ Serializable(s) /\ Uncut(s)

\* After a rejection nothing is left allocated, after an acceptance just what
\* batch_signature_free frees: none of the ten failure paths leaks.
NoLeak ==
  /\ pc \in {"idle", "rejected"} => heap = {}
  /\ pc = "decoded" => heap = Built

\* No failure path of deserialize frees a block twice.
NoFault == ~fault
==============================================================================
