---------------------------- MODULE BenchBatchProofs ---------------------------
(***************************************************************************)
(* Theorems about BenchBatch, for any batches, command lines and sizes,    *)
(* over the invariant of the signer in BatchSignerProofs.                  *)
(***************************************************************************)
EXTENDS BenchBatch, BatchSignerProofs

\* What parse_args lets through fits a size_t, and no size is zero.
ConfigOK ==
  /\ cfg.batch_size \in 1..SizeMax /\ cfg.iters \in 1..SizeMax /\ cfg.warmup \in 0..SizeMax

\* What is wrapped fits, and a number that fits does not wrap.
LEMMA NoWrap ==
  /\ \A n \in Int : n % (SizeMax + 1) \in 0..SizeMax
  /\ \A n \in 0..SizeMax : n % (SizeMax + 1) = n
<1>1. \A b \in Nat : /\ \A n \in Int : n % (b + 1) \in 0..b
                    /\ \A n \in 0..b : n % (b + 1) = n
  OBVIOUS
<1>. QED  BY <1>1, BufferAssumption

LEMMA ConfigsAre == cfg \in Args!ConfigsOf(Typed) => ConfigOK
<1>. SUFFICES ASSUME NEW t, Args!Accepts(t), cfg = Args!Parsed(t)
              PROVE  ConfigOK
  BY DEF Args!ConfigsOf
<1>1. /\ t.batch_size \in Int /\ t.iters \in Int /\ t.warmup \in Int
  BY BufferAssumption DEF Args!Accepts, Args!SizeParses
<1>2. \A n \in Int : Args!ParseSize(n) \in 0..SizeMax
  BY NoWrap DEF Args!ParseSize
<1>3. cfg.batch_size # 0 /\ cfg.iters # 0
  BY DEF Args!Accepts
<1>4. /\ cfg.batch_size = Args!ParseSize(t.batch_size)
      /\ cfg.iters = Args!ParseSize(t.iters) /\ cfg.warmup = Args!ParseSize(t.warmup)
  BY DEF Args!Parsed
<1>. QED  BY <1>1, <1>2, <1>3, <1>4, BufferAssumption DEF ConfigOK
------------------------------------------------------------------------------
RunPlaces ==
  {"allocate", "keygen", "create", "loop", "release", "fill", "signing", "serialize",
   "verify", "check", "fail", "free_signature", "free_signer", "free_buffers", "returned"}
InBatch == {"fill", "signing", "serialize", "verify", "check"}

\* What the place of run_one says of the signer: there is none before it is created
\* and after it is freed, sign runs only where it was called, the batch is the
\* signer's, and at the end the last signature goes before the signer does.
Together ==
  /\ at \in {"allocate", "keygen", "create"} => capacity = 0 /\ sig = NoSignature
  /\ at \in {"loop", "release"} \cup InBatch => capacity > 0
  /\ at \in {"keygen", "create", "loop", "release"} \cup InBatch => Buffers \subseteq held
  /\ at = "release" => num_msgs = 0 /\ batch = <<>>
  /\ at \in InBatch => batch \in Seq(Messages \ {Empty}) /\ Len(batch) = num_msgs
  /\ pc # "idle" => at = "signing"
  /\ at \in {"fill", "free_signer", "free_buffers", "returned"} => sig = NoSignature
  /\ at \in {"free_buffers", "returned"} => capacity = 0
  /\ at \in {"serialize", "verify", "check"} => sig # NoSignature
  /\ at = "check" => checked \in 0..cfg.batch_size

\* The iterations measured are those from warmup on.
Timed ==
  /\ iteration \in 0..total_iters
  /\ timed = IF iteration <= cfg.warmup THEN 0 ELSE iteration - cfg.warmup
  /\ at \in {"release"} \cup InBatch => iteration < total_iters
  /\ status = "ok" => iteration = total_iters
  /\ status # "running" => at \in {"free_signature", "free_signer", "free_buffers", "returned"}

\* run_one's own blocks.
Holding ==
  /\ held \subseteq Buffers \cup {"serialized"}
  /\ serialized \in BOOLEAN
  /\ at # "returned" => (serialized <=> "serialized" \in held)
  /\ at = "allocate" => ~serialized
  /\ at = "returned" => held = {}

RunIInv ==
  /\ ConfigOK /\ TypeOK /\ HeapInv /\ at \in RunPlaces
  /\ Together /\ Timed /\ Holding
------------------------------------------------------------------------------
\* What a step of the signer does to what run_one depends on.
SameSigner == capacity' = capacity /\ num_msgs' = num_msgs /\ pc' = pc /\ sig' = sig

LEMMA SignerDoes ==
  ASSUME TypeOK
  PROVE  /\ UNCHANGED vars => SameSigner
         /\ Create => capacity' > 0 /\ num_msgs' = 0 /\ pc' = pc /\ sig' = sig
         /\ CreateFails \/ GrowFails => SameSigner
         /\ Reset => capacity' = capacity /\ num_msgs' = 0 /\ pc' = pc /\ sig' = sig
         /\ \A m \in Messages :
              /\ AddMessage(m) => capacity' > 0 /\ num_msgs' = num_msgs + 1 /\ pc' = pc /\ sig' = sig
              /\ AddCopyFails(m) => capacity' > 0 /\ num_msgs' = num_msgs /\ pc' = pc /\ sig' = sig
         /\ Sign => capacity' = capacity /\ num_msgs' = num_msgs
         /\ SignStep => capacity' = capacity /\ num_msgs' = num_msgs
         /\ FreeSignature => capacity' = capacity /\ num_msgs' = num_msgs /\ pc' = pc /\ sig' = NoSignature
         /\ Free => capacity' = 0 /\ num_msgs' = 0 /\ pc' = pc /\ sig' = sig
<1>1. UNCHANGED vars => SameSigner
  BY DEF vars, signer, SameSigner
<1>2. /\ Create => capacity' > 0 /\ num_msgs' = 0 /\ pc' = pc /\ sig' = sig
      /\ Reset => capacity' = capacity /\ num_msgs' = 0 /\ pc' = pc /\ sig' = sig
      /\ Free => capacity' = 0 /\ num_msgs' = 0 /\ pc' = pc /\ sig' = sig
  BY BufferAssumption DEF Create, Reset, Free
<1>3. capacity \in Nat /\ num_msgs \in Nat
  BY DEF TypeOK
<1>4. \A m \in Messages :
        /\ AddMessage(m) => capacity' > 0 /\ num_msgs' = num_msgs + 1 /\ pc' = pc /\ sig' = sig
        /\ AddCopyFails(m) => capacity' > 0 /\ num_msgs' = num_msgs /\ pc' = pc /\ sig' = sig
  BY <1>3 DEF AddMessage, AddCopyFails, GrownCapacity
<1>8. CreateFails \/ GrowFails => SameSigner
  BY DEF CreateFails, GrowFails, signer, SameSigner
<1>5. Sign => capacity' = capacity /\ num_msgs' = num_msgs
  BY DEF Sign, signer
<1>6. SignStep => capacity' = capacity /\ num_msgs' = num_msgs
  BY DEF SignStep, HashLeaf, CreateTree, BuildTree, AllocateRootSig, SignCallback,
         AllocateArrays, TakeProof, AllocateSignature, CopyRoot, DestroyTree,
         SignDone, SignFails, signer
<1>7. FreeSignature => capacity' = capacity /\ num_msgs' = num_msgs /\ pc' = pc /\ sig' = NoSignature
  BY DEF FreeSignature, signer
<1>. QED  BY <1>1, <1>2, <1>4, <1>5, <1>6, <1>7, <1>8

\* A call of batch_verify leaves the heap as it was: what it allocates for a message
\* is its own, and the signature it reads is there.
LEMMA VerifyLeavesHeap ==
  ASSUME RunIInv, VerifyMessage
  PROVE  UNCHANGED vars
<1>1. PICK got \in SUBSET Scratch :
        /\ heap' = (heap \cup got) \ got
        /\ fault' = (fault \/ ~(got \cup SigBlocks \subseteq heap \cup got))
  BY DEF VerifyMessage, ScratchFreed
<1>2. sig # NoSignature /\ pc = "idle"
  BY DEF VerifyMessage, RunIInv, Together
<1>3. heap = SignerBlocks \cup SigBlocks /\ ~fault
  BY <1>2 DEF RunIInv, HeapInv, SigOwned, Working
<1>4. got \cap heap = {}
  <2>1. \A b \in got : b[1] \in {"leaf_hash", "current", "buf"}
    BY <1>1 DEF Scratch
  <2>2. \A b \in SignerBlocks : b[1] \in {"ctx", "messages", "msg_lens", "msg"}
    BY DEF SignerBlocks, Arrays, Copies
  <2>3. \A b \in SigBlocks :
          b[1] \in {"sig", "root_hash", "root_sig", "proofs", "proof_lens", "proof"}
    BY DEF SigBlocks
  <2>. QED  BY <1>3, <2>1, <2>2, <2>3
<1>5. heap' = heap /\ fault' = fault
  <2>1. heap' = heap
    BY <1>1, <1>4
  <2>2. got \cup SigBlocks \subseteq heap \cup got
    BY <1>3
  <2>3. fault = FALSE
    BY <1>3 DEF RunIInv, TypeOK
  <2>4. fault' = (fault \/ FALSE)
    BY <1>1, <2>2
  <2>. QED  BY <2>1, <2>3, <2>4
<1>. QED  BY <1>5 DEF VerifyMessage, vars

\* run_one uses the signer only through its functions.
LEMMA SignerSteps == RunIInv /\ RunStep => [Next]_vars
<1>1. FreeLast => [Next]_vars
  BY DEF FreeLast, Next
<1>2. \A m \in Messages : Fill(m) => [Next]_vars
  BY DEF Fill, AddFails, Next
<1>3. RunIInv /\ VerifyMessage => [Next]_vars
  BY VerifyLeavesHeap
<1>. QED  BY <1>1, <1>2, <1>3 DEF RunStep, Allocate, Keygen, CreateSigner, StartIteration,
       ReleaseLast, CallSign, Signing, Signed, Serialize, Verify, VerifyRoot, Finish, FreeResult,
       FreeSigner, FreeBuffers, Next

LEMMA SignerInv == RunIInv /\ RunStep => TypeOK' /\ HeapInv'
  BY SignerSteps, TypeNext, HeapNext DEF RunIInv

LEMMA Sizes ==
  ASSUME RunIInv
  PROVE  /\ cfg.batch_size \in Nat \ {0} /\ SizeMax \in Nat /\ cfg.warmup \in Nat
         /\ cfg.iters \in Nat \ {0} /\ total_iters \in 0..SizeMax
         /\ iteration \in 0..total_iters /\ num_msgs \in Nat /\ capacity \in Nat
<1>1. ConfigOK /\ TypeOK /\ iteration \in 0..total_iters
  BY DEF RunIInv, Timed
<1>2. total_iters \in 0..SizeMax
  <2>1. cfg.warmup + cfg.iters \in Int
    BY <1>1, BufferAssumption DEF ConfigOK
  <2>. QED  BY <2>1, NoWrap DEF total_iters
<1>. QED  BY <1>1, <1>2, BufferAssumption DEF ConfigOK, TypeOK

\* A step that leaves the counts alone, to a place from which more is asked only when
\* it was asked already.
LEMMA CountsStay ==
  ASSUME Timed, UNCHANGED <<cfg, iteration, timed, status>>,
         at' \in {"release"} \cup InBatch => iteration < total_iters,
         status # "running" => at' \in {"free_signature", "free_signer", "free_buffers", "returned"}
  PROVE  Timed'
  BY DEF Timed, total_iters

LEMMA HoldingStays ==
  ASSUME Holding, UNCHANGED buffers, at # "returned", at' \notin {"allocate", "returned"}
  PROVE  Holding'
  BY DEF Holding, buffers

Parts == at' \in RunPlaces /\ Together' /\ Timed' /\ Holding' /\ ConfigOK'

LEMMA AllocateKeeps == RunIInv /\ Allocate => Parts
<1>. SUFFICES ASSUME RunIInv, Allocate PROVE Parts
  OBVIOUS
<1>1. PICK got \in SUBSET Buffers :
        held' = got /\ at' = IF got = Buffers THEN "keygen" ELSE "fail"
  BY DEF Allocate
<1>2. at = "allocate" /\ at' \in {"keygen", "fail"} /\ UNCHANGED <<vars, cfg, loop, serialized, status>>
  BY <1>1 DEF Allocate
<1>3. SameSigner
  BY <1>2, SignerDoes DEF RunIInv
<1>4. Together'
  BY <1>1, <1>2, <1>3 DEF RunIInv, Together, SameSigner, InBatch
<1>5. Timed'
  BY <1>2, CountsStay DEF RunIInv, Timed, loop, InBatch
<1>6. Holding'
  <2>1. held' \subseteq Buffers /\ "serialized" \notin Buffers /\ serialized' = serialized /\ ~serialized
    BY <1>1, <1>2 DEF RunIInv, Holding, Buffers
  <2>. QED  BY <1>2, <2>1 DEF RunIInv, Holding
<1>. QED  BY <1>2, <1>4, <1>5, <1>6 DEF RunIInv, Parts, ConfigOK, RunPlaces

LEMMA KeygenKeeps == RunIInv /\ Keygen => Parts
<1>. SUFFICES ASSUME RunIInv, Keygen PROVE Parts
  OBVIOUS
<1>1. at = "keygen" /\ at' \in {"create", "fail"} /\ UNCHANGED <<vars, cfg, loop, buffers, status>>
  BY DEF Keygen
<1>2. SameSigner
  BY <1>1, SignerDoes DEF RunIInv
<1>3. Together'
  BY <1>1, <1>2 DEF RunIInv, Together, SameSigner, InBatch, buffers
<1>4. Timed'
  BY <1>1, CountsStay DEF RunIInv, Timed, loop, InBatch
<1>5. Holding'
  BY <1>1, HoldingStays DEF RunIInv
<1>. QED  BY <1>1, <1>3, <1>4, <1>5 DEF RunIInv, Parts, ConfigOK, RunPlaces

\* The signer is created inside an empty heap, or it is not.
LEMMA CreateSignerKeeps == RunIInv /\ CreateSigner => Parts
<1>. SUFFICES ASSUME RunIInv, CreateSigner PROVE Parts
  OBVIOUS
<1>1. at = "create" /\ at' \in {"loop", "fail"} /\ UNCHANGED <<cfg, loop, buffers, status>>
  BY DEF CreateSigner
<1>2. Together'
  <2>1. CASE Create /\ at' = "loop"
    <3>1. capacity' > 0 /\ pc' = pc /\ sig' = sig
      BY <2>1, SignerDoes DEF RunIInv
    <3>. QED  BY <1>1, <2>1, <3>1 DEF RunIInv, Together, InBatch, buffers
  <2>2. CASE CreateFails /\ at' = "fail"
    <3>1. SameSigner
      BY <2>2, SignerDoes DEF RunIInv
    <3>. QED  BY <1>1, <2>2, <3>1 DEF RunIInv, Together, SameSigner, InBatch, buffers
  <2>. QED  BY <2>1, <2>2 DEF CreateSigner
<1>3. Timed'
  BY <1>1, CountsStay DEF RunIInv, Timed, loop, InBatch
<1>4. Holding'
  BY <1>1, HoldingStays DEF RunIInv
<1>. QED  BY <1>1, <1>2, <1>3, <1>4 DEF RunIInv, Parts, ConfigOK, RunPlaces

LEMMA NewIterationKeeps == RunIInv /\ StartIteration => Parts
<1>. SUFFICES ASSUME RunIInv, StartIteration PROVE Parts
  OBVIOUS
<1>1. /\ at = "loop" /\ at' = "release" /\ iteration < total_iters /\ batch' = <<>> /\ Reset
      /\ UNCHANGED <<cfg, iteration, timed, buffers, status>>
  BY DEF StartIteration
<1>2. capacity' = capacity /\ num_msgs' = 0 /\ pc' = pc
  BY <1>1, SignerDoes DEF RunIInv
<1>3. Together'
  BY <1>1, <1>2 DEF RunIInv, Together, InBatch, buffers
<1>4. Timed'
  BY <1>1, CountsStay DEF RunIInv, Timed, InBatch
<1>5. Holding'
  BY <1>1, HoldingStays DEF RunIInv
<1>. QED  BY <1>1, <1>3, <1>4, <1>5 DEF RunIInv, Parts, ConfigOK, RunPlaces

\* After the last signature was freed, or there was none, there is none.
LEMMA FreeLastDoes ==
  ASSUME TypeOK, FreeLast
  PROVE  capacity' = capacity /\ num_msgs' = num_msgs /\ pc' = pc /\ sig' = NoSignature
  BY SignerDoes DEF FreeLast, SameSigner

LEMMA ReleaseLastKeeps == RunIInv /\ ReleaseLast => Parts
<1>. SUFFICES ASSUME RunIInv, ReleaseLast PROVE Parts
  OBVIOUS
<1>1. at = "release" /\ at' = "fill" /\ FreeLast /\ UNCHANGED <<cfg, loop, buffers, status>>
  BY DEF ReleaseLast
<1>2. capacity' = capacity /\ num_msgs' = num_msgs /\ pc' = pc /\ sig' = NoSignature
  BY <1>1, FreeLastDoes DEF RunIInv
<1>3. Together'
  <2>1. batch' = <<>> /\ num_msgs' = 0 /\ <<>> \in Seq(Messages \ {Empty}) /\ Len(<<>>) = 0
    BY <1>1, <1>2 DEF RunIInv, Together, loop
  <2>. QED  BY <1>1, <1>2, <2>1 DEF RunIInv, Together, InBatch, buffers
<1>4. Timed'
  BY <1>1, CountsStay DEF RunIInv, Timed, loop, InBatch
<1>5. Holding'
  BY <1>1, HoldingStays DEF RunIInv
<1>. QED  BY <1>1, <1>3, <1>4, <1>5 DEF RunIInv, Parts, ConfigOK, RunPlaces

LEMMA FillKeeps ==
  ASSUME RunIInv, NEW m \in Messages \ {Empty}, Fill(m)
  PROVE  Parts
<1>1. /\ at = "fill" /\ at' \in {"fill", "fail"} /\ batch' = Append(batch, m)
      /\ UNCHANGED <<cfg, iteration, timed, buffers, status>>
  BY DEF Fill
<1>2. Together'
  <2>1. CASE AddMessage(m) /\ at' = "fill"
    <3>1. capacity' > 0 /\ num_msgs' = num_msgs + 1 /\ pc' = pc /\ sig' = sig
      BY <2>1, SignerDoes DEF RunIInv
    <3>2. batch' \in Seq(Messages \ {Empty}) /\ Len(batch') = num_msgs'
      BY <1>1, <3>1 DEF RunIInv, Together, InBatch
    <3>. QED  BY <1>1, <2>1, <3>1, <3>2 DEF RunIInv, Together, InBatch, buffers
  <2>2. CASE AddFails(m) /\ at' = "fail"
    <3>1. pc' = pc
      BY <2>2, SignerDoes DEF RunIInv, SameSigner, AddFails
    <3>. QED  BY <1>1, <2>2, <3>1 DEF RunIInv, Together, InBatch
  <2>. QED  BY <2>1, <2>2 DEF Fill
<1>3. Timed'
  BY <1>1, CountsStay DEF RunIInv, Timed, InBatch
<1>4. Holding'
  BY <1>1, HoldingStays DEF RunIInv
<1>. QED  BY <1>1, <1>2, <1>3, <1>4 DEF RunIInv, Parts, ConfigOK, RunPlaces

LEMMA CallSignKeeps == RunIInv /\ CallSign => Parts
<1>. SUFFICES ASSUME RunIInv, CallSign PROVE Parts
  OBVIOUS
<1>1. at = "fill" /\ at' \in {"signing", "fail"} /\ UNCHANGED <<cfg, loop, buffers, status>>
  BY DEF CallSign
<1>2. Together'
  <2>1. CASE Sign /\ at' = "signing"
    <3>1. capacity' = capacity /\ num_msgs' = num_msgs
      BY <2>1, SignerDoes DEF RunIInv
    <3>. QED  BY <1>1, <2>1, <3>1 DEF RunIInv, Together, InBatch, buffers, loop
  <2>2. CASE at' = "fail" /\ UNCHANGED vars
    <3>1. SameSigner
      BY <2>2, SignerDoes DEF RunIInv
    <3>. QED  BY <1>1, <2>2, <3>1 DEF RunIInv, Together, SameSigner, InBatch
  <2>. QED  BY <2>1, <2>2 DEF CallSign
<1>3. Timed'
  BY <1>1, CountsStay DEF RunIInv, Timed, loop, InBatch
<1>4. Holding'
  BY <1>1, HoldingStays DEF RunIInv
<1>. QED  BY <1>1, <1>2, <1>3, <1>4 DEF RunIInv, Parts, ConfigOK, RunPlaces

LEMMA SigningKeeps == RunIInv /\ Signing => Parts
<1>. SUFFICES ASSUME RunIInv, Signing PROVE Parts
  OBVIOUS
<1>1. at = "signing" /\ SignStep /\ UNCHANGED <<cfg, at, iteration, batch, timed, buffers, status>>
  BY DEF Signing, bench, loop
<1>2. capacity' = capacity /\ num_msgs' = num_msgs
  BY <1>1, SignerDoes DEF RunIInv
<1>3. Together'
  BY <1>1, <1>2 DEF RunIInv, Together, InBatch, buffers
<1>4. Timed'
  BY <1>1, CountsStay DEF RunIInv, Timed, InBatch
<1>5. Holding'
  BY <1>1, HoldingStays DEF RunIInv
<1>. QED  BY <1>1, <1>3, <1>4, <1>5 DEF RunIInv, Parts, ConfigOK, RunPlaces

LEMMA SignedKeeps == RunIInv /\ Signed => Parts
<1>. SUFFICES ASSUME RunIInv, Signed PROVE Parts
  OBVIOUS
<1>1. /\ at = "signing" /\ pc = "idle" /\ at' \in {"serialize", "verify", "fail"}
      /\ UNCHANGED <<vars, cfg, loop, buffers, status>>
      /\ at' \in {"serialize", "verify"} => sig # NoSignature
  BY DEF Signed
<1>2. SameSigner
  BY <1>1, SignerDoes DEF RunIInv
<1>3. Together'
  BY <1>1, <1>2 DEF RunIInv, Together, SameSigner, InBatch, buffers, loop
<1>4. Timed'
  BY <1>1, CountsStay DEF RunIInv, Timed, loop, InBatch
<1>5. Holding'
  BY <1>1, HoldingStays DEF RunIInv
<1>. QED  BY <1>1, <1>3, <1>4, <1>5 DEF RunIInv, Parts, ConfigOK, RunPlaces

LEMMA SerializeKeeps == RunIInv /\ Serialize => Parts
<1>. SUFFICES ASSUME RunIInv, Serialize PROVE Parts
  OBVIOUS
<1>1. /\ at = "serialize" /\ at' \in {"verify", "fail"}
      /\ UNCHANGED <<vars, cfg, loop, status>>
      /\ \/ held' = held \cup {"serialized"} /\ serialized' = TRUE
         \/ at' = "fail" /\ UNCHANGED buffers
  BY DEF Serialize
<1>2. SameSigner
  BY <1>1, SignerDoes DEF RunIInv
<1>3. Together'
  BY <1>1, <1>2 DEF RunIInv, Together, SameSigner, InBatch, loop, buffers
<1>4. Timed'
  BY <1>1, CountsStay DEF RunIInv, Timed, loop, InBatch
<1>5. Holding'
  <2>1. CASE held' = held \cup {"serialized"} /\ serialized' = TRUE
    BY <1>1, <2>1 DEF RunIInv, Holding
  <2>2. CASE UNCHANGED buffers
    BY <1>1, <2>2, HoldingStays DEF RunIInv
  <2>. QED  BY <1>1, <2>1, <2>2
<1>. QED  BY <1>1, <1>3, <1>4, <1>5 DEF RunIInv, Parts, ConfigOK, RunPlaces

\* The iteration ends, or its signature is rejected.
LEMMA VerdictKeeps ==
  ASSUME RunIInv, at \in {"verify", "check"}, NextIteration \/ Rejected, UNCHANGED vars,
         UNCHANGED <<cfg, batch, buffers, status>>
  PROVE  Parts
<1>1. /\ at' \in {"loop", "fail"}
      /\ \/ /\ at' = "loop" /\ iteration' = iteration + 1
            /\ timed' = IF iteration >= cfg.warmup THEN timed + 1 ELSE timed
         \/ at' = "fail" /\ UNCHANGED <<iteration, timed>>
  BY DEF NextIteration, Rejected, measured
<1>2. SameSigner
  BY SignerDoes DEF RunIInv
<1>3. Together'
  BY <1>1, <1>2 DEF RunIInv, Together, SameSigner, InBatch, buffers
<1>4. Timed'
  <2>1. iteration < total_iters /\ status = "running"
        /\ timed = IF iteration <= cfg.warmup THEN 0 ELSE iteration - cfg.warmup
    BY DEF RunIInv, Timed, InBatch
  <2>2. CASE at' = "loop" /\ iteration' = iteration + 1
             /\ timed' = IF iteration >= cfg.warmup THEN timed + 1 ELSE timed
    <3>1. /\ iteration' \in 0..total_iters
          /\ timed' = IF iteration' <= cfg.warmup THEN 0 ELSE iteration' - cfg.warmup
      BY <2>1, <2>2, Sizes
    <3>. QED  BY <2>1, <2>2, <3>1 DEF Timed, total_iters, InBatch
  <2>3. CASE at' = "fail" /\ UNCHANGED <<iteration, timed>>
    BY <2>3, <2>1, CountsStay DEF RunIInv, InBatch
  <2>. QED  BY <1>1, <2>2, <2>3
<1>5. Holding'
  BY <1>1, HoldingStays DEF RunIInv
<1>. QED  BY <1>1, <1>3, <1>4, <1>5 DEF RunIInv, Parts, ConfigOK, RunPlaces

\* batch_verify is called, or finds one more message proved.
LEMMA CheckingKeeps ==
  ASSUME RunIInv, at \in {"verify", "check"}, at' = "check", checked' \in 0..cfg.batch_size,
         UNCHANGED vars, UNCHANGED <<cfg, batch, iteration, timed, buffers, status>>
  PROVE  Parts
<1>1. SameSigner
  BY SignerDoes DEF RunIInv
<1>2. Together'
  BY <1>1 DEF RunIInv, Together, SameSigner, InBatch, buffers
<1>3. Timed'
  BY CountsStay DEF RunIInv, Timed, InBatch
<1>4. Holding'
  BY HoldingStays DEF RunIInv
<1>. QED  BY <1>2, <1>3, <1>4 DEF RunIInv, Parts, ConfigOK, RunPlaces

\* What a step of batch_verify does: it goes on with a message less to check, ends the
\* iteration or rejects.
LEMMA VerifyDoes ==
  ASSUME RunIInv, Verify \/ VerifyMessage \/ VerifyRoot
  PROVE  /\ UNCHANGED vars /\ UNCHANGED <<cfg, batch, buffers, status>>
         /\ at \in {"verify", "check"}
         /\ \/ /\ at' = "check" /\ checked' \in 0..cfg.batch_size /\ UNCHANGED <<iteration, timed>>
               /\ at = "check" => checked < cfg.batch_size /\ checked' = checked + 1
            \/ NextIteration
            \/ Rejected
<1>0. cfg.batch_size \in Nat
  BY Sizes
<1>1. CASE Verify
  <2>1. CASE at' = "check"
    BY <1>1, <2>1, <1>0 DEF Verify, NextIteration, Rejected
  <2>. QED  BY <1>1, <2>1 DEF Verify
<1>2. CASE VerifyMessage
  <2>1. UNCHANGED vars
    BY <1>2, VerifyLeavesHeap
  <2>2. at = "check" /\ checked < cfg.batch_size /\ checked \in 0..cfg.batch_size
    BY <1>2 DEF VerifyMessage, RunIInv, Together
  <2>. QED  BY <1>0, <1>2, <2>1, <2>2 DEF VerifyMessage
<1>3. CASE VerifyRoot
  BY <1>3 DEF VerifyRoot
<1>. QED  BY <1>1, <1>2, <1>3

LEMMA VerifyKeeps == RunIInv /\ (Verify \/ VerifyMessage \/ VerifyRoot) => Parts
  BY VerifyDoes, VerdictKeeps, CheckingKeeps

LEMMA FinishKeeps == RunIInv /\ Finish => Parts
<1>. SUFFICES ASSUME RunIInv, Finish PROVE Parts
  OBVIOUS
<1>1. /\ at \in {"loop", "fail"} /\ at' = "free_signature" /\ UNCHANGED <<vars, cfg, loop, buffers>>
      /\ status' = "ok" => iteration >= total_iters
  BY DEF Finish
<1>2. SameSigner
  BY <1>1, SignerDoes DEF RunIInv
<1>3. Together'
  BY <1>1, <1>2 DEF RunIInv, Together, SameSigner, InBatch
<1>4. Timed'
  <2>1. status' = "ok" => iteration = total_iters
    BY <1>1, Sizes
  <2>. QED  BY <1>1, <2>1 DEF RunIInv, Timed, loop, total_iters, InBatch
<1>5. Holding'
  BY <1>1, HoldingStays DEF RunIInv
<1>. QED  BY <1>1, <1>3, <1>4, <1>5 DEF RunIInv, Parts, ConfigOK, RunPlaces

LEMMA FreeResultKeeps == RunIInv /\ FreeResult => Parts
<1>. SUFFICES ASSUME RunIInv, FreeResult PROVE Parts
  OBVIOUS
<1>1. at = "free_signature" /\ at' = "free_signer" /\ FreeLast /\ UNCHANGED <<cfg, loop, buffers, status>>
  BY DEF FreeResult
<1>2. pc' = pc /\ sig' = NoSignature
  BY <1>1, FreeLastDoes DEF RunIInv
<1>3. Together'
  BY <1>1, <1>2 DEF RunIInv, Together, InBatch
<1>4. Timed'
  BY <1>1, CountsStay DEF RunIInv, Timed, loop, InBatch
<1>5. Holding'
  BY <1>1, HoldingStays DEF RunIInv
<1>. QED  BY <1>1, <1>3, <1>4, <1>5 DEF RunIInv, Parts, ConfigOK, RunPlaces

LEMMA FreeSignerKeeps == RunIInv /\ FreeSigner => Parts
<1>. SUFFICES ASSUME RunIInv, FreeSigner PROVE Parts
  OBVIOUS
<1>1. /\ at = "free_signer" /\ at' = "free_buffers" /\ UNCHANGED <<cfg, loop, buffers, status>>
      /\ IF capacity = 0 THEN UNCHANGED vars ELSE Free
  BY DEF FreeSigner
<1>2. capacity' = 0 /\ pc' = pc /\ sig' = sig
  BY <1>1, SignerDoes DEF RunIInv, SameSigner
<1>3. Together'
  BY <1>1, <1>2 DEF RunIInv, Together, InBatch
<1>4. Timed'
  BY <1>1, CountsStay DEF RunIInv, Timed, loop, InBatch
<1>5. Holding'
  BY <1>1, HoldingStays DEF RunIInv
<1>. QED  BY <1>1, <1>3, <1>4, <1>5 DEF RunIInv, Parts, ConfigOK, RunPlaces

LEMMA FreeBuffersKeeps == RunIInv /\ FreeBuffers => Parts
<1>. SUFFICES ASSUME RunIInv, FreeBuffers PROVE Parts
  OBVIOUS
<1>1. /\ at = "free_buffers" /\ at' = "returned"
      /\ held' = held \ (Buffers \cup IF serialized THEN {"serialized"} ELSE {})
      /\ UNCHANGED <<vars, cfg, loop, serialized, status>>
  BY DEF FreeBuffers
<1>2. SameSigner
  BY <1>1, SignerDoes DEF RunIInv
<1>3. Together'
  BY <1>1, <1>2 DEF RunIInv, Together, SameSigner, InBatch
<1>4. Timed'
  BY <1>1, CountsStay DEF RunIInv, Timed, loop, InBatch
<1>5. Holding'
  <2>1. /\ held \subseteq Buffers \cup {"serialized"} /\ serialized \in BOOLEAN
        /\ serialized <=> "serialized" \in held
    BY <1>1 DEF RunIInv, Holding
  <2>2. held' = {}
    <3>1. CASE serialized
      BY <1>1, <2>1, <3>1
    <3>2. CASE ~serialized
      BY <1>1, <2>1, <3>2
    <3>. QED  BY <3>1, <3>2
  <2>. QED  BY <1>1, <2>1, <2>2 DEF Holding
<1>. QED  BY <1>1, <1>3, <1>4, <1>5 DEF RunIInv, Parts, ConfigOK, RunPlaces
------------------------------------------------------------------------------
LEMMA RunInitEstablishes == RunInit => RunIInv
<1>. SUFFICES ASSUME RunInit PROVE RunIInv
  OBVIOUS
<1>1. /\ Init /\ cfg \in Args!ConfigsOf(Typed)
      /\ at = "allocate" /\ iteration = 0 /\ batch = <<>> /\ timed = 0 /\ checked = 0
      /\ held = {} /\ serialized = FALSE /\ status = "running"
  BY DEF RunInit
<1>2. ConfigOK /\ TypeOK /\ HeapInv
  BY <1>1, ConfigsAre, TypeInit, HeapInit
<1>3. Together
  BY <1>1 DEF Init, Together, InBatch
<1>4. Timed
  <2>1. cfg.warmup \in Nat /\ cfg.warmup + cfg.iters \in Int
    BY <1>2, BufferAssumption DEF ConfigOK
  <2>2. total_iters \in Nat
    BY <2>1, NoWrap, BufferAssumption DEF total_iters
  <2>. QED  BY <1>1, <2>1, <2>2 DEF Timed, InBatch
<1>5. Holding
  BY <1>1 DEF Holding
<1>. QED  BY <1>1, <1>2, <1>3, <1>4, <1>5 DEF RunIInv, RunPlaces

LEMMA RunInductive == RunIInv /\ [RunStep]_<<vars, bench>> => RunIInv'
<1>. SUFFICES ASSUME RunIInv, [RunStep]_<<vars, bench>> PROVE RunIInv'
  OBVIOUS
<1>1. CASE RunStep
  <2>1. TypeOK' /\ HeapInv'
    BY <1>1, SignerInv DEF RunIInv
  <2>2. Parts
    BY <1>1, AllocateKeeps, KeygenKeeps, CreateSignerKeeps, NewIterationKeeps, ReleaseLastKeeps,
       FillKeeps, CallSignKeeps, SigningKeeps, SignedKeeps, SerializeKeeps, VerifyKeeps,
       FinishKeeps, FreeResultKeeps, FreeSignerKeeps, FreeBuffersKeeps DEF RunStep
  <2>. QED  BY <2>1, <2>2 DEF RunIInv, Parts
<1>2. CASE UNCHANGED <<vars, bench>>
  <2>1. UNCHANGED vars /\ UNCHANGED <<cfg, at, iteration, batch, timed, checked, held, serialized, status>>
    BY <1>2 DEF bench, loop, buffers
  <2>2. TypeOK' /\ HeapInv'
    BY <2>1, TypeNext, HeapNext DEF RunIInv
  <2>3. SameSigner
    BY <2>1, SignerDoes DEF RunIInv
  <2>4. Together' /\ Timed' /\ Holding' /\ ConfigOK' /\ at' \in RunPlaces
    BY <2>1, <2>3 DEF RunIInv, Together, Timed, Holding, ConfigOK, SameSigner, total_iters, InBatch
  <2>. QED  BY <2>2, <2>4 DEF RunIInv
<1>. QED  BY <1>1, <1>2
------------------------------------------------------------------------------
\* The signer and the harness agree on the batch, for batches and iterations without
\* a bound.
THEOREM RunTypeCorrect == RunSpec => []RunTypeOK
<1>1. RunInit => RunIInv
  BY RunInitEstablishes
<1>2. RunIInv => RunTypeOK
  <2>. SUFFICES ASSUME RunIInv PROVE RunTypeOK
    OBVIOUS
  <2>1. iteration \in 0..total_iters /\ timed \in 0..iteration
    BY Sizes DEF RunIInv, Timed
  <2>. QED  BY <2>1 DEF RunIInv, Together, Holding, RunTypeOK, RunPlaces, InBatch
<1>. QED  BY <1>1, <1>2, RunInductive, PTL DEF RunSpec

\* Whichever allocation of run_one, of batch_signer_create (the struct or an array),
\* of batch_signer_add_message (an array of the growth or the copy), of sign or of
\* batch_verify fails, in whichever iteration, run_one returns with nothing allocated
\* by it or by the signer, and no block was freed twice, or read by sign or by verify
\* after it was freed.
THEOREM NothingIsLeft == RunSpec => []NothingLeft
<1>1. RunInit => RunIInv
  BY RunInitEstablishes
<1>2. RunIInv => NothingLeft
  <2>. SUFFICES ASSUME RunIInv, at = "returned" PROVE heap = {} /\ held = {} /\ ~fault
    BY DEF NothingLeft
  <2>1. capacity = 0 /\ sig = NoSignature /\ pc = "idle" /\ held = {}
    BY DEF RunIInv, Together, Holding, InBatch
  <2>2. SignerBlocks = {} /\ SigOwned = {} /\ Working = {}
    BY <2>1 DEF SignerBlocks, SigOwned, Working
  <2>. QED  BY <2>1, <2>2 DEF RunIInv, HeapInv
<1>. QED  BY <1>1, <1>2, RunInductive, PTL DEF RunSpec

\* A run that is reported measured every iteration it was asked for or, when
\* warmup + iters wraps, none, for any numbers on the command line.
THEOREM AllOrNoneMeasured == RunSpec => []MeasuredAllOrNone
<1>1. RunInit => RunIInv
  BY RunInitEstablishes
<1>2. RunIInv => MeasuredAllOrNone
  <2>. SUFFICES ASSUME RunIInv, status = "ok"
                PROVE  timed = IF cfg.warmup + cfg.iters <= SizeMax THEN cfg.iters ELSE 0
    BY DEF MeasuredAllOrNone
  <2>1. /\ timed = IF iteration <= cfg.warmup THEN 0 ELSE iteration - cfg.warmup
        /\ iteration = (cfg.warmup + cfg.iters) % (SizeMax + 1)
    BY DEF RunIInv, Timed, total_iters
  <2>2. /\ cfg.warmup \in 0..SizeMax /\ cfg.iters \in 1..SizeMax /\ SizeMax \in Nat
    BY BufferAssumption DEF RunIInv, ConfigOK
  <2>3. CASE cfg.warmup + cfg.iters <= SizeMax
    <3>1. cfg.warmup + cfg.iters \in 0..SizeMax
      BY <2>2, <2>3
    <3>2. iteration = cfg.warmup + cfg.iters
      BY <2>1, <3>1, NoWrap
    <3>. QED  BY <2>1, <2>2, <2>3, <3>2
  <2>4. CASE cfg.warmup + cfg.iters > SizeMax
    <3>1. \A b \in Nat : \A n \in (b + 1)..(2 * b) : n % (b + 1) = n - (b + 1)
      OBVIOUS
    <3>2. cfg.warmup + cfg.iters \in (SizeMax + 1)..(2 * SizeMax)
      BY <2>2, <2>4
    <3>3. iteration = cfg.warmup + cfg.iters - (SizeMax + 1)
      BY <2>1, <2>2, <3>1, <3>2
    <3>. QED  BY <2>1, <2>2, <2>4, <3>3
  <2>. QED  BY <2>2, <2>3, <2>4
<1>. QED  BY <1>1, <1>2, RunInductive, PTL DEF RunSpec
------------------------------------------------------------------------------
\* The messages the harness keeps are those in the signer's cells, and a signature
\* that sign has made since is the one of these messages.
SignedInv ==
  /\ WorkInv
  /\ at \in InBatch => batch = Batch
  /\ at \in {"signing", "serialize", "verify", "check"} => batch # <<>>
  /\ at = "signing" /\ pc = "idle" => sig \in {NoSignature, SignatureOf(batch)}
  /\ at \in {"serialize", "verify", "check"} => sig = SignatureOf(batch)

LEMMA BatchStays == UNCHANGED signer => Batch' = Batch
  BY DEF Batch, Cell, signer

LEMMA FillSigned ==
  ASSUME RunIInv, SignedInv, WorkInv', NEW m \in Messages \ {Empty}, Fill(m)
  PROVE  SignedInv'
<1>1. at = "fill" /\ at' \in {"fill", "fail"} /\ batch' = Append(batch, m) /\ batch = Batch
  BY DEF Fill, SignedInv, InBatch
<1>2. CASE AddMessage(m)
  <2>1. Batch' = Append(Batch, m)
    BY <1>2, BatchGrows DEF RunIInv, HeapInv
  <2>. QED  BY <1>1, <2>1 DEF SignedInv, InBatch
<1>3. CASE at' = "fail"
  BY <1>1, <1>3 DEF SignedInv, InBatch
<1>. QED  BY <1>2, <1>3 DEF Fill

LEMMA SigningSigned ==
  ASSUME RunIInv, SignedInv, WorkInv', Signing
  PROVE  SignedInv'
<1>1. at = "signing" /\ at' = "signing" /\ SignStep /\ batch' = batch
  BY DEF Signing, bench, loop
<1>2. UNCHANGED signer /\ pc # "idle"
  BY <1>1 DEF SignStep, HashLeaf, CreateTree, BuildTree, AllocateRootSig, SignCallback,
         AllocateArrays, TakeProof, AllocateSignature, CopyRoot, DestroyTree, SignDone, SignFails
<1>3. Batch' = Batch /\ batch = Batch /\ sig = NoSignature
  BY <1>1, <1>2, BatchStays DEF SignedInv, InBatch, RunIInv, TypeOK
<1>4. sig' \in {NoSignature, SignatureOf(batch)}
  <2>1. CASE SignDone
    <3>1. sig' = SignatureOf(Batch)
      BY <2>1, SignDoneReturns DEF RunIInv, SignedInv
    <3>. QED  BY <1>3, <3>1
  <2>2. CASE ~SignDone
    <3>1. sig' = sig
      BY <1>1, <2>2 DEF SignStep, HashLeaf, CreateTree, BuildTree, AllocateRootSig, SignCallback,
             AllocateArrays, TakeProof, AllocateSignature, CopyRoot, DestroyTree, SignFails
    <3>. QED  BY <1>3, <3>1
  <2>. QED  BY <2>1, <2>2
<1>5. SignatureOf(batch)' = SignatureOf(batch)
  BY <1>1
<1>. QED  BY <1>1, <1>3, <1>4, <1>5 DEF SignedInv, InBatch

LEMMA SignedNext == RunIInv /\ SignedInv /\ [RunStep]_<<vars, bench>> => SignedInv'
<1>. SUFFICES ASSUME RunIInv, SignedInv, [RunStep]_<<vars, bench>> PROVE SignedInv'
  OBVIOUS
<1>1. WorkInv'
  <2>1. [Next]_vars
    BY SignerSteps
  <2>. QED  BY <2>1, WorkNext DEF RunIInv, SignedInv
<1>2. UNCHANGED vars => Batch' = Batch /\ sig' = sig /\ pc' = pc
  BY BatchStays DEF vars
<1>3. batch' = batch => SignatureOf(batch)' = SignatureOf(batch)
  OBVIOUS
<1>4. CASE at' \notin InBatch
  BY <1>1, <1>4 DEF SignedInv, InBatch
<1>5. CASE ReleaseLast
  <2>1. at' = "fill" /\ batch' = <<>> /\ num_msgs' = 0
    BY <1>5, FreeLastDoes DEF ReleaseLast, RunIInv, Together, loop
  <2>2. Batch' = <<>>
    BY <2>1 DEF Batch
  <2>. QED  BY <1>1, <2>1, <2>2 DEF SignedInv
<1>6. ASSUME NEW m \in Messages \ {Empty}, Fill(m)
      PROVE  SignedInv'
  BY <1>1, <1>6, FillSigned
<1>7. CASE CallSign /\ Sign
  <2>1. /\ at = "fill" /\ at' \in {"signing", "fail"} /\ batch' = batch /\ Len(batch) = cfg.batch_size
        /\ UNCHANGED signer /\ pc' = "hash"
    BY <1>7 DEF CallSign, loop, Sign
  <2>2. batch # <<>>
    <3>1. batch = <<>> => Len(batch) = 0
      OBVIOUS
    <3>. QED  BY <2>1, <3>1, Sizes
  <2>. QED  BY <1>1, <2>1, <2>2, BatchStays DEF SignedInv, InBatch
<1>8. CASE Signing
  BY <1>1, <1>8, SigningSigned
<1>9. CASE Signed
  <2>1. /\ at = "signing" /\ pc = "idle" /\ UNCHANGED vars /\ batch' = batch
        /\ at' \in {"serialize", "verify"} => sig # NoSignature
        /\ at' \in {"serialize", "verify", "fail"}
    BY <1>9 DEF Signed, loop
  <2>. QED  BY <1>1, <1>2, <1>3, <2>1 DEF SignedInv, InBatch
<1>10. CASE Serialize
  <2>1. at = "serialize" /\ UNCHANGED vars /\ batch' = batch /\ at' \in {"verify", "fail"}
    BY <1>10 DEF Serialize, loop
  <2>. QED  BY <1>1, <1>2, <1>3, <2>1 DEF SignedInv, InBatch
<1>11. CASE UNCHANGED <<vars, bench>>
  <2>1. UNCHANGED vars /\ at' = at /\ batch' = batch
    BY <1>11 DEF bench, loop
  <2>. QED  BY <1>1, <1>2, <1>3, <2>1 DEF SignedInv, InBatch
<1>12. CASE \/ Allocate \/ Keygen \/ CreateSigner \/ StartIteration \/ (CallSign /\ ~Sign)
            \/ Finish \/ FreeResult \/ FreeSigner \/ FreeBuffers
  <2>1. at' \notin InBatch
    BY <1>12 DEF Allocate, Keygen, CreateSigner, StartIteration, CallSign,
           Finish, FreeResult, FreeSigner, FreeBuffers, InBatch
  <2>. QED  BY <1>4, <2>1
<1>13. CASE (Verify \/ VerifyMessage \/ VerifyRoot) /\ at' \in InBatch
  <2>1. UNCHANGED vars /\ batch' = batch /\ at \in {"verify", "check"} /\ at' = "check"
    BY <1>13, VerifyDoes DEF NextIteration, Rejected, InBatch
  <2>. QED  BY <1>1, <1>2, <1>3, <2>1 DEF SignedInv, InBatch
<1>14. CASE RunStep
  <2>1. CASE \E m \in Messages \ {Empty} : Fill(m)
    BY <1>6, <2>1
  <2>. QED  BY <1>4, <1>5, <1>7, <1>8, <1>9, <1>10, <1>12, <1>13, <1>14, <2>1 DEF RunStep
<1>. QED  BY <1>11, <1>14

\* The signature run_one verifies is the one of this iteration's messages, and it is
\* accepted: for batches, iterations and command lines without a bound, and whatever
\* failed before.
THEOREM VerifyIsAccepted == RunSpec => []VerifyAccepts
<1>1. RunInit => RunIInv /\ SignedInv
  <2>1. RunInit => WorkInv /\ at = "allocate"
    BY WorkInit DEF RunInit
  <2>. QED  BY <2>1, RunInitEstablishes DEF SignedInv, InBatch
<1>2. RunIInv /\ SignedInv => VerifyAccepts
  <2>. SUFFICES ASSUME RunIInv, SignedInv, at \in {"verify", "check"}
                PROVE  BatchVerify(batch, sig)
    BY DEF VerifyAccepts
  <2>1. batch # <<>> /\ sig = SignatureOf(batch) /\ batch = Batch
    BY DEF SignedInv, InBatch
  <2>2. batch \in Seq(Messages)
    BY <2>1, BatchType DEF RunIInv, HeapInv
  <2>. QED  BY <2>1, <2>2, SignatureIsExact
<1>. QED  BY <1>1, <1>2, RunInductive, SignedNext, PTL DEF RunSpec
------------------------------------------------------------------------------
\* How many more steps run_one can take at most: in an iteration what is left of it,
\* before and between them all the iterations still to come.
Round == 4 * cfg.batch_size + 16
RoundLeft ==
  CASE at = "release" -> 4 * cfg.batch_size + 15
    [] at = "fill" -> 3 * cfg.batch_size + 14 + (cfg.batch_size - Len(batch))
    [] at = "signing" -> cfg.batch_size + 4 + SignLeft
    [] at = "serialize" -> cfg.batch_size + 3
    [] at = "verify" -> cfg.batch_size + 2
    [] OTHER -> (cfg.batch_size - checked) + 1
RunLeft ==
  CASE at = "allocate" -> (total_iters - iteration) * Round + 8
    [] at = "keygen" -> (total_iters - iteration) * Round + 7
    [] at = "create" -> (total_iters - iteration) * Round + 6
    [] at = "loop" -> (total_iters - iteration) * Round + 5
    [] at \in {"release"} \cup InBatch -> (total_iters - (iteration + 1)) * Round + RoundLeft + 5
    [] at = "fail" -> 4
    [] at = "free_signature" -> 3
    [] at = "free_signer" -> 2
    [] at = "free_buffers" -> 1
    [] OTHER -> 0

LEMMA RoundsAre ==
  ASSUME RunIInv
  PROVE  /\ Round \in Nat /\ cfg.batch_size \in Nat /\ total_iters \in Nat /\ iteration \in Nat
         /\ (total_iters - iteration) * Round \in Nat
         /\ iteration < total_iters =>
              /\ (total_iters - (iteration + 1)) * Round \in Nat
              /\ (total_iters - iteration) * Round = (total_iters - (iteration + 1)) * Round + Round
<1>1. /\ cfg.batch_size \in Nat /\ total_iters \in Nat /\ iteration \in Nat /\ iteration <= total_iters
  <2>1. cfg.batch_size \in Nat \ {0} /\ SizeMax \in Nat /\ total_iters \in 0..SizeMax
        /\ iteration \in 0..total_iters
    BY Sizes
  <2>. QED  BY <2>1
<1>2. Round \in Nat
  BY <1>1 DEF Round
<1>3. \A n, r \in Nat : n * r \in Nat /\ (n > 0 => (n - 1) * r \in Nat /\ n * r = (n - 1) * r + r)
  <2>1. SUFFICES ASSUME NEW n \in Nat, NEW r \in Nat
                 PROVE  n * r \in Nat /\ (n > 0 => (n - 1) * r \in Nat /\ n * r = (n - 1) * r + r)
    OBVIOUS
  <2>2. n * r \in Nat
    OBVIOUS
  <2>3. n > 0 => (n - 1) \in Nat
    OBVIOUS
  <2>4. n * r = (n - 1) * r + r
    OBVIOUS
  <2>5. n > 0 => (n - 1) * r \in Nat
    BY <2>3
  <2>. QED  BY <2>2, <2>4, <2>5
<1>4. total_iters - iteration \in Nat
  BY <1>1
<1>5. (total_iters - iteration) * Round \in Nat
  BY <1>2, <1>3, <1>4
<1>6. iteration < total_iters => total_iters - iteration > 0
  BY <1>1
<1>7. (total_iters - iteration) - 1 = total_iters - (iteration + 1)
  BY <1>1
<1>8. iteration < total_iters =>
        /\ (total_iters - (iteration + 1)) * Round \in Nat
        /\ (total_iters - iteration) * Round = (total_iters - (iteration + 1)) * Round + Round
  <2>. SUFFICES ASSUME iteration < total_iters
       PROVE  /\ (total_iters - (iteration + 1)) * Round \in Nat
              /\ (total_iters - iteration) * Round = (total_iters - (iteration + 1)) * Round + Round
    OBVIOUS
  <2>1. PICK d \in Nat : d = total_iters - iteration
    BY <1>4
  <2>2. (d - 1) * Round \in Nat /\ d * Round = (d - 1) * Round + Round
    BY <1>2, <1>3, <1>6, <2>1
  <2>. QED  BY <1>7, <2>1, <2>2
<1>. QED  BY <1>1, <1>2, <1>5, <1>8

LEMMA RoundsStay == UNCHANGED cfg => total_iters' = total_iters /\ Round' = Round
  BY DEF total_iters, Round

\* How far along an iteration is, place by place.
LEMMA RoundLeftIs ==
  /\ at = "release" => RoundLeft = 4 * cfg.batch_size + 15
  /\ at = "fill" => RoundLeft = 3 * cfg.batch_size + 14 + (cfg.batch_size - Len(batch))
  /\ at = "signing" => RoundLeft = cfg.batch_size + 4 + SignLeft
  /\ at = "serialize" => RoundLeft = cfg.batch_size + 3
  /\ at = "verify" => RoundLeft = cfg.batch_size + 2
  /\ at = "check" => RoundLeft = (cfg.batch_size - checked) + 1
  BY DEF RoundLeft

\* What is left, place by place.
LeftByPlace ==
  /\ at = "allocate" => RunLeft = (total_iters - iteration) * Round + 8
  /\ at = "keygen" => RunLeft = (total_iters - iteration) * Round + 7
  /\ at = "create" => RunLeft = (total_iters - iteration) * Round + 6
  /\ at = "loop" => RunLeft = (total_iters - iteration) * Round + 5
  /\ at \in {"release"} \cup InBatch =>
       RunLeft = (total_iters - (iteration + 1)) * Round + RoundLeft + 5
  /\ at = "fail" => RunLeft = 4
  /\ at = "free_signature" => RunLeft = 3
  /\ at = "free_signer" => RunLeft = 2
  /\ at = "free_buffers" => RunLeft = 1
  /\ at = "returned" => RunLeft = 0

LEMMA LeftIs == LeftByPlace
<1>1. at \in {"release"} \cup InBatch =>
        RunLeft = (total_iters - (iteration + 1)) * Round + RoundLeft + 5
  BY DEF RunLeft, InBatch
<1>2. at = "allocate" => RunLeft = (total_iters - iteration) * Round + 8
  BY DEF RunLeft, InBatch
<1>3. at = "keygen" => RunLeft = (total_iters - iteration) * Round + 7
  BY DEF RunLeft, InBatch
<1>4. at = "create" => RunLeft = (total_iters - iteration) * Round + 6
  BY DEF RunLeft, InBatch
<1>5. at = "loop" => RunLeft = (total_iters - iteration) * Round + 5
  BY DEF RunLeft, InBatch
<1>6. /\ at = "fail" => RunLeft = 4
      /\ at = "free_signature" => RunLeft = 3
      /\ at = "free_signer" => RunLeft = 2
      /\ at = "free_buffers" => RunLeft = 1
      /\ at = "returned" => RunLeft = 0
  BY DEF RunLeft, InBatch
<1>. QED  BY <1>1, <1>2, <1>3, <1>4, <1>5, <1>6 DEF LeftByPlace

LEMMA LeftWillBe == LeftByPlace'
  BY LeftIs, PTL

\* A step within an iteration, to a later place of it or to "fail".
Nearer == RunLeft' \in Nat /\ RunLeft' < RunLeft
LEMMA WithinRound ==
  ASSUME RunIInv, at \in {"release"} \cup InBatch, UNCHANGED <<cfg, iteration>>,
         RoundLeft \in Nat \ {0},
         \/ at' = "fail"
         \/ at' \in {"release"} \cup InBatch /\ RoundLeft' \in Nat /\ RoundLeft' < RoundLeft
  PROVE  Nearer
<1>1. iteration < total_iters
  BY DEF RunIInv, Timed
<1>2. (total_iters - (iteration + 1)) * Round \in Nat
  BY <1>1, RoundsAre
<1>3. RunLeft = (total_iters - (iteration + 1)) * Round + RoundLeft + 5
  BY LeftIs DEF LeftByPlace
<1>4. PICK rest \in Nat : rest = (total_iters - (iteration + 1)) * Round
  BY <1>2
<1>5. CASE at' = "fail"
  <2>1. RunLeft' = 4
    BY <1>5, LeftWillBe DEF LeftByPlace
  <2>. QED  BY <1>3, <1>4, <2>1 DEF Nearer
<1>6. CASE at' \in {"release"} \cup InBatch /\ RoundLeft' \in Nat /\ RoundLeft' < RoundLeft
  <2>1. RunLeft' = (total_iters' - (iteration' + 1)) * Round' + RoundLeft' + 5
    BY <1>6, LeftWillBe DEF LeftByPlace
  <2>2. RunLeft' = rest + RoundLeft' + 5
    BY <1>4, <2>1, RoundsStay
  <2>. QED  BY <1>3, <1>4, <1>6, <2>2 DEF Nearer
<1>. QED  BY <1>5, <1>6

LEMMA BeforeRoundsCloser ==
  ASSUME RunIInv, UNCHANGED <<cfg, iteration>>,
         \/ at = "allocate" /\ at' \in {"keygen", "fail"}
         \/ at = "keygen" /\ at' \in {"create", "fail"}
         \/ at = "create" /\ at' \in {"loop", "fail"}
  PROVE  Nearer
<1>1. PICK rest \in Nat : rest = (total_iters - iteration) * Round
  BY RoundsAre
<1>2. (total_iters' - iteration') * Round' = rest
  BY <1>1, RoundsStay
<1>3. /\ at = "allocate" => RunLeft = rest + 8
      /\ at = "keygen" => RunLeft = rest + 7
      /\ at = "create" => RunLeft = rest + 6
  BY <1>1, LeftIs DEF LeftByPlace
<1>4. /\ at' = "keygen" => RunLeft' = rest + 7
      /\ at' = "create" => RunLeft' = rest + 6
      /\ at' = "loop" => RunLeft' = rest + 5
      /\ at' = "fail" => RunLeft' = 4
  BY <1>2, LeftWillBe DEF LeftByPlace
<1>. QED  BY <1>3, <1>4 DEF Nearer

LEMMA StartCloser == RunIInv /\ StartIteration => Nearer
<1>. SUFFICES ASSUME RunIInv, StartIteration PROVE Nearer
  OBVIOUS
<1>1. at = "loop" /\ at' = "release" /\ iteration < total_iters /\ UNCHANGED <<cfg, iteration>>
  BY DEF StartIteration
<1>2. PICK rest \in Nat : rest = (total_iters - (iteration + 1)) * Round
  BY <1>1, RoundsAre
<1>3. (total_iters - iteration) * Round = rest + Round
  BY <1>1, <1>2, RoundsAre
<1>4. RunLeft = (rest + Round) + 5
  BY <1>1, <1>3, LeftIs DEF LeftByPlace
<1>5. (total_iters' - (iteration' + 1)) * Round' = rest
  BY <1>1, <1>2, RoundsStay
<1>6. RoundLeft' = 4 * cfg.batch_size + 15
  BY <1>1 DEF RoundLeft
<1>7. RunLeft' = rest + (4 * cfg.batch_size + 15) + 5
  BY <1>1, <1>5, <1>6, LeftWillBe DEF LeftByPlace
<1>8. cfg.batch_size \in Nat /\ Round = 4 * cfg.batch_size + 16
  BY RoundsAre DEF Round
<1>. QED  BY <1>4, <1>7, <1>8 DEF Nearer

LEMMA ReleaseCloser == RunIInv /\ ReleaseLast => Nearer
<1>. SUFFICES ASSUME RunIInv, ReleaseLast PROVE Nearer
  OBVIOUS
<1>1. at = "release" /\ at' = "fill" /\ UNCHANGED <<cfg, iteration, batch>>
  BY DEF ReleaseLast, loop
<1>2. Len(batch') = 0
  BY <1>1 DEF RunIInv, Together
<1>3. RoundLeft = 4 * cfg.batch_size + 15
  BY <1>1 DEF RoundLeft
<1>4. RoundLeft' = 3 * cfg.batch_size + 14 + (cfg.batch_size - 0)
  BY <1>1, <1>2 DEF RoundLeft
<1>5. cfg.batch_size \in Nat
  BY RoundsAre
<1>6. RoundLeft \in Nat \ {0} /\ RoundLeft' \in Nat /\ RoundLeft' < RoundLeft
  BY <1>3, <1>4, <1>5
<1>. QED  BY <1>1, <1>6, WithinRound DEF InBatch

LEMMA FillCloser == ASSUME RunIInv, NEW m \in Messages \ {Empty}, Fill(m) PROVE Nearer
<1>1. /\ at = "fill" /\ at' \in {"fill", "fail"} /\ UNCHANGED <<cfg, iteration>>
      /\ Len(batch) < cfg.batch_size /\ batch' = Append(batch, m)
  BY DEF Fill
<1>2. Len(batch) \in Nat /\ Len(batch') = Len(batch) + 1
  BY <1>1 DEF RunIInv, Together, InBatch
<1>3. RoundLeft = 3 * cfg.batch_size + 14 + (cfg.batch_size - Len(batch))
  BY <1>1 DEF RoundLeft
<1>4. at' = "fill" => RoundLeft' = 3 * cfg.batch_size + 14 + (cfg.batch_size - (Len(batch) + 1))
  BY <1>1, <1>2 DEF RoundLeft
<1>5. cfg.batch_size \in Nat
  BY RoundsAre
<1>6. RoundLeft \in Nat \ {0}
  BY <1>1, <1>2, <1>3, <1>5
<1>7. at' = "fill" => RoundLeft' \in Nat /\ RoundLeft' < RoundLeft
  BY <1>1, <1>2, <1>3, <1>4, <1>5
<1>. QED  BY <1>1, <1>6, <1>7, WithinRound DEF InBatch

LEMMA CallSignCloser == RunIInv /\ CallSign => Nearer
<1>. SUFFICES ASSUME RunIInv, CallSign PROVE Nearer
  OBVIOUS
<1>1. /\ at = "fill" /\ at' \in {"signing", "fail"} /\ UNCHANGED <<cfg, iteration>>
      /\ Len(batch) = cfg.batch_size /\ (at' = "signing" => Sign)
  BY DEF CallSign, loop
<1>2. cfg.batch_size \in Nat /\ num_msgs = cfg.batch_size
  BY <1>1, RoundsAre DEF RunIInv, Together, InBatch
<1>3. RoundLeft = 3 * cfg.batch_size + 14 + (cfg.batch_size - cfg.batch_size)
  BY <1>1 DEF RoundLeft
<1>4. at' = "signing" => SignLeft' = (num_msgs - 0) + num_msgs + 9
  BY <1>1 DEF SignLeft, Sign, signer
<1>5. at' = "signing" => RoundLeft' = cfg.batch_size + 4 + SignLeft'
  BY <1>1 DEF RoundLeft
<1>6. RoundLeft \in Nat \ {0}
  BY <1>2, <1>3
<1>7. at' = "signing" => RoundLeft' \in Nat /\ RoundLeft' < RoundLeft
  BY <1>2, <1>3, <1>4, <1>5
<1>. QED  BY <1>1, <1>6, <1>7, WithinRound DEF InBatch

\* What is left of sign, while it runs and after.
LEMMA SignLeftIs == TypeOK => SignLeft \in Nat
<1>. SUFFICES ASSUME TypeOK PROVE SignLeft \in Nat
  OBVIOUS
<1>1. num_msgs \in Nat /\ num_msgs - k \in Nat
  BY DEF TypeOK
<1>2. CASE pc \in {"hash", "proofs"}
  BY <1>1, <1>2 DEF SignLeft
<1>3. CASE pc \in {"build", "root_sig", "callback", "arrays"}
  BY <1>1, <1>3 DEF SignLeft
<1>4. CASE pc \in {"root_hash", "destroy", "free_leaves", "idle"}
  BY <1>4 DEF SignLeft
<1>. QED  BY <1>2, <1>3, <1>4 DEF TypeOK

LEMMA SigningCloser == RunIInv /\ Signing => Nearer
<1>. SUFFICES ASSUME RunIInv, Signing PROVE Nearer
  OBVIOUS
<1>1. at = "signing" /\ at' = "signing" /\ SignStep /\ UNCHANGED <<cfg, iteration>>
  BY DEF Signing, bench, loop
<1>2. pc # "idle"
  BY <1>1 DEF SignStep, HashLeaf, CreateTree, BuildTree, AllocateRootSig, SignCallback,
     AllocateArrays, TakeProof, AllocateSignature, CopyRoot, DestroyTree, SignDone, SignFails
<1>3. SignLeft' \in Nat /\ SignLeft' < SignLeft
  BY <1>1, <1>2, SignIsCloser DEF RunIInv, Next
<1>4. SignLeft \in Nat
  BY SignLeftIs DEF RunIInv
<1>5. RoundLeft = cfg.batch_size + 4 + SignLeft /\ RoundLeft' = cfg.batch_size + 4 + SignLeft'
  BY <1>1 DEF RoundLeft
<1>6. \A n, a, b \in Nat :
        b < a => n + 4 + a \in Nat \ {0} /\ n + 4 + b \in Nat /\ n + 4 + b < n + 4 + a
  OBVIOUS
<1>7. /\ cfg.batch_size + 4 + SignLeft \in Nat \ {0} /\ cfg.batch_size + 4 + SignLeft' \in Nat
      /\ cfg.batch_size + 4 + SignLeft' < cfg.batch_size + 4 + SignLeft
  <2>1. cfg.batch_size \in Nat
    BY RoundsAre
  <2>. QED  BY <1>3, <1>4, <1>6, <2>1, Zenon
<1>8. RoundLeft \in Nat \ {0} /\ RoundLeft' \in Nat /\ RoundLeft' < RoundLeft
  BY <1>5, <1>7, Zenon
<1>. QED  BY <1>1, <1>8, WithinRound DEF InBatch

LEMMA AfterSignCloser ==
  ASSUME RunIInv, UNCHANGED <<cfg, iteration>>,
         \/ at = "signing" /\ at' \in {"serialize", "verify", "fail"}
         \/ at = "serialize" /\ at' \in {"verify", "fail"}
  PROVE  Nearer
<1>1. /\ at = "signing" => RoundLeft = cfg.batch_size + 4 + SignLeft
      /\ at = "serialize" => RoundLeft = cfg.batch_size + 3
      /\ at' = "serialize" => RoundLeft' = cfg.batch_size + 3
      /\ at' = "verify" => RoundLeft' = cfg.batch_size + 2
  BY DEF RoundLeft
<1>2. SignLeft \in Nat /\ cfg.batch_size \in Nat
  BY SignLeftIs, RoundsAre DEF RunIInv
<1>3. RoundLeft \in Nat \ {0}
  BY <1>1, <1>2
<1>4. at' # "fail" => RoundLeft' \in Nat /\ RoundLeft' < RoundLeft
  BY <1>1, <1>2
<1>. QED  BY <1>3, <1>4, WithinRound DEF InBatch

LEMMA VerifyCloser == RunIInv /\ (Verify \/ VerifyMessage \/ VerifyRoot) => Nearer
<1>. SUFFICES ASSUME RunIInv, Verify \/ VerifyMessage \/ VerifyRoot PROVE Nearer
  OBVIOUS
<1>1. at \in {"verify", "check"} /\ UNCHANGED cfg
  BY VerifyDoes
<1>2. /\ cfg.batch_size \in Nat
      /\ at = "check" => checked \in 0..cfg.batch_size
  BY RoundsAre DEF RunIInv, Together
<1>3. /\ at = "verify" => RoundLeft = cfg.batch_size + 2
      /\ at = "check" => RoundLeft = (cfg.batch_size - checked) + 1
  BY RoundLeftIs
<1>4. RoundLeft \in Nat \ {0}
  BY <1>1, <1>2, <1>3
<1>5. CASE Rejected
  BY <1>1, <1>4, <1>5, WithinRound DEF Rejected, InBatch
<1>6. CASE /\ at' = "check" /\ checked' \in 0..cfg.batch_size /\ UNCHANGED <<iteration, timed>>
           /\ at = "check" => checked < cfg.batch_size /\ checked' = checked + 1
  <2>1. RoundLeft' = (cfg.batch_size - checked') + 1
    BY <1>1, <1>6 DEF RoundLeft
  <2>2. RoundLeft' \in Nat /\ RoundLeft' < RoundLeft
    BY <1>1, <1>2, <1>3, <1>6, <2>1
  <2>. QED  BY <1>1, <1>4, <1>6, <2>2, WithinRound DEF InBatch
<1>7. CASE NextIteration
  <2>1. iteration < total_iters
    BY <1>1 DEF RunIInv, Timed, InBatch
  <2>2. PICK rest \in Nat : rest = (total_iters - (iteration + 1)) * Round
    BY <2>1, RoundsAre
  <2>3. RunLeft = rest + RoundLeft + 5
    BY <1>1, <2>2, LeftIs DEF LeftByPlace, InBatch
  <2>4. RunLeft' = rest + 5
    BY <1>1, <1>7, <2>2, RoundsStay, LeftWillBe DEF LeftByPlace, NextIteration
  <2>. QED  BY <1>4, <2>3, <2>4 DEF Nearer
<1>. QED  BY <1>5, <1>6, <1>7, VerifyDoes

LEMMA EndCloser ==
  RunIInv /\ (Finish \/ FreeResult \/ FreeSigner \/ FreeBuffers) => Nearer
<1>. SUFFICES ASSUME RunIInv, Finish \/ FreeResult \/ FreeSigner \/ FreeBuffers PROVE Nearer
  OBVIOUS
<1>1. CASE at = "loop" /\ at' = "free_signature"
  <2>1. PICK rest \in Nat : rest = (total_iters - iteration) * Round
    BY RoundsAre
  <2>2. RunLeft = rest + 5 /\ RunLeft' = 3
    BY <1>1, <2>1, LeftIs, LeftWillBe DEF LeftByPlace
  <2>. QED  BY <2>2 DEF Nearer
<1>2. CASE at = "fail" /\ at' = "free_signature"
  BY <1>2, LeftIs, LeftWillBe DEF LeftByPlace, Nearer
<1>3. CASE at = "free_signature" /\ at' = "free_signer"
  BY <1>3, LeftIs, LeftWillBe DEF LeftByPlace, Nearer
<1>4. CASE at = "free_signer" /\ at' = "free_buffers"
  BY <1>4, LeftIs, LeftWillBe DEF LeftByPlace, Nearer
<1>5. CASE at = "free_buffers" /\ at' = "returned"
  BY <1>5, LeftIs, LeftWillBe DEF LeftByPlace, Nearer
<1>. QED  BY <1>1, <1>2, <1>3, <1>4, <1>5 DEF Finish, FreeResult, FreeSigner, FreeBuffers

LEMMA RunIsCloser == RunIInv /\ RunStep => Nearer
<1>. SUFFICES ASSUME RunIInv, RunStep PROVE Nearer
  OBVIOUS
<1>1. CASE Allocate \/ Keygen \/ CreateSigner
  BY <1>1, BeforeRoundsCloser DEF Allocate, Keygen, CreateSigner, loop
<1>2. CASE \E m \in Messages \ {Empty} : Fill(m)
  BY <1>2, FillCloser
<1>3. CASE Signed \/ Serialize
  BY <1>3, AfterSignCloser DEF Signed, Serialize, loop
<1>. QED  BY <1>1, <1>2, <1>3, StartCloser, ReleaseCloser, CallSignCloser, SigningCloser,
       VerifyCloser, EndCloser DEF RunStep

\* run_one returns after at most as many steps as warmup + iters (wrapped to size_t)
\* rounds of 4 * batch_size + 16 steps take, and 8 more: each of its steps, with those
\* of the signer inside it, brings the end nearer, whichever of them fails and on
\* whatever command line.
THEOREM RunEnds ==
  RunSpec => [][/\ at = "allocate" => RunLeft = total_iters * (4 * cfg.batch_size + 16) + 8
                /\ RunLeft' \in Nat /\ RunLeft' < RunLeft]_<<vars, bench>>
<1>. DEFINE AtFirst == at = "allocate" => iteration = 0
<1>1. RunInit => RunIInv /\ AtFirst
  BY RunInitEstablishes DEF RunInit
<1>2. AtFirst /\ [RunStep]_<<vars, bench>> => AtFirst'
  <2>1. UNCHANGED <<vars, bench>> => at' = at /\ iteration' = iteration
    BY DEF bench, loop
  <2>2. Signing => at' = "signing"
    BY DEF Signing, bench
  <2>3. Allocate \/ Keygen \/ CreateSigner \/ StartIteration \/ ReleaseLast => at' # "allocate"
    BY DEF Allocate, Keygen, CreateSigner, StartIteration, ReleaseLast
  <2>4. (\E m \in Messages \ {Empty} : Fill(m)) \/ CallSign \/ Signed => at' # "allocate"
    BY DEF Fill, CallSign, Signed
  <2>5. Serialize \/ Finish \/ FreeResult \/ FreeSigner \/ FreeBuffers => at' # "allocate"
    BY DEF Serialize, Finish, FreeResult, FreeSigner, FreeBuffers
  <2>6. Verify \/ VerifyMessage \/ VerifyRoot => at' # "allocate"
    BY DEF Verify, VerifyMessage, VerifyRoot, NextIteration, Rejected
  <2>. QED  BY <2>1, <2>2, <2>3, <2>4, <2>5, <2>6 DEF RunStep
<1>3. RunIInv /\ AtFirst /\ RunStep =>
        /\ at = "allocate" => RunLeft = total_iters * (4 * cfg.batch_size + 16) + 8
        /\ RunLeft' \in Nat /\ RunLeft' < RunLeft
  <2>. SUFFICES ASSUME RunIInv, AtFirst, RunStep
                PROVE  /\ at = "allocate" => RunLeft = total_iters * (4 * cfg.batch_size + 16) + 8
                       /\ RunLeft' \in Nat /\ RunLeft' < RunLeft
    OBVIOUS
  <2>1. at = "allocate" => RunLeft = (total_iters - 0) * Round + 8
    BY LeftIs DEF LeftByPlace
  <2>2. total_iters - 0 = total_iters
    BY RoundsAre
  <2>. QED  BY <2>1, <2>2, RunIsCloser DEF Nearer, Round
<1>. QED  BY <1>1, <1>2, <1>3, RunInductive, PTL DEF RunSpec
==============================================================================
