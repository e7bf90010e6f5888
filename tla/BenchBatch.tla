------------------------------ MODULE BenchBatch -----------------------------
(***************************************************************************)
(* run_one of bench/bench_batch.c driving one signer of src/batch_signing.c*)
(* through its warm-up and measured iterations: the steps of run_one are   *)
(* interleaved with the steps of BatchSigner in program order, so a failed *)
(* allocation anywhere in the signer reaches the "goto fail" of the        *)
(* benchmark.  Timers are left out; timed counts the iterations they saw.  *)
(***************************************************************************)
EXTENDS BatchSigner

CONSTANTS
  IntValues,  \* values of an int
  Typed       \* the numbers typed on the command line, one record per command line

Args == INSTANCE BenchArgs

VARIABLES
  cfg,         \* bench_config
  at,          \* where run_one is
  iteration,
  batch,       \* messages_buf, as far as this iteration has filled it
  timed,       \* iterations measured to their end
  checked,     \* messages that batch_verify has found proved, while it runs
  held,        \* live blocks of run_one itself
  serialized,  \* its pointer to the scratch buffer is set
  status       \* what run_one returns, once decided: 0 is "ok", -1 is "failed"

loop == <<iteration, batch, timed, checked>>
buffers == <<held, serialized>>
bench == <<cfg, at, loop, buffers, status>>

Buffers == {"sk", "pk", "messages_buf", "messages", "msg_lens"}

RunInit ==
  /\ Init
  /\ cfg \in Args!ConfigsOf(Typed)
  /\ at = "allocate" /\ iteration = 0 /\ batch = <<>> /\ timed = 0 /\ checked = 0
  /\ held = {} /\ serialized = FALSE /\ status = "running"
------------------------------------------------------------------------------
\* The product of batch_size and another size does not wrap.
Fits(size) == size <= SizeMax \div cfg.batch_size

\* The five allocations; an overflow check that fails skips those after it.
Allocate ==
  /\ at = "allocate"
  /\ \E got \in SUBSET Buffers :
       /\ ~Fits(cfg.msg_size) => got \subseteq {"sk", "pk"}
       /\ ~Fits(PtrSize) => got \subseteq {"sk", "pk", "messages_buf"}
       /\ held' = got
       /\ at' = IF got = Buffers THEN "keygen" ELSE "fail"
  /\ UNCHANGED <<vars, cfg, loop, serialized, status>>

\* algo->keygen.  batch_bb_adapter_init cannot fail on what it is given.
Keygen ==
  /\ at = "keygen" /\ at' \in {"create", "fail"}
  /\ UNCHANGED <<vars, cfg, loop, buffers, status>>

\* Seeded fault: the result of batch_signer_create is not checked.
CreateSignerUnchecked ==
  /\ at = "create" /\ at' = "loop"
  /\ Create \/ CreateFails
  /\ UNCHANGED <<cfg, loop, buffers, status>>

CreateSigner ==
  /\ at = "create"
  /\ \/ Create /\ at' = "loop"
     \/ CreateFails /\ at' = "fail"
  /\ UNCHANGED <<cfg, loop, buffers, status>>

\* warmup + iters is not checked and wraps.
total_iters == (cfg.warmup + cfg.iters) % (SizeMax + 1)

\* Seeded fault: >.
MeasuredAfter == iteration > cfg.warmup
measured == iteration >= cfg.warmup

\* Seeded fault: the signer is not reset between iterations.
StartIterationKeeps ==
  /\ at = "loop" /\ iteration < total_iters
  /\ at' = "release" /\ batch' = <<>>
  /\ UNCHANGED <<vars, cfg, iteration, timed, checked, buffers, status>>

StartIteration ==
  /\ at = "loop" /\ iteration < total_iters
  /\ Reset
  /\ at' = "release" /\ batch' = <<>>
  /\ UNCHANGED <<cfg, iteration, timed, checked, buffers, status>>

\* batch_signature_free(NULL) does nothing.
FreeLast == IF sig = NoSignature THEN UNCHANGED vars ELSE FreeSignature

ReleaseLast ==
  /\ at = "release" /\ at' = "fill"
  /\ FreeLast
  /\ UNCHANGED <<cfg, loop, buffers, status>>

\* batch_signer_add_message fails: no copy, no wider arrays, or none that fit.
AddFails(m) == AddCopyFails(m) \/ GrowFails \/ (~GrowthFits /\ UNCHANGED vars)

\* Seeded fault: every message is written to the start of messages_buf.
FillFirst(m) ==
  /\ at = "fill" /\ Len(batch) < cfg.batch_size
  /\ batch' = [i \in 1..Len(batch) + 1 |-> m]
  /\ \/ AddMessage(m) /\ at' = "fill"
     \/ AddFails(m) /\ at' = "fail"
  /\ UNCHANGED <<cfg, iteration, timed, checked, buffers, status>>

\* bb_fill_message makes some message that is not empty, as msg_size is not 0;
\* batch_signer_add_message copies it or fails.
Fill(m) ==
  /\ at = "fill" /\ Len(batch) < cfg.batch_size
  /\ batch' = Append(batch, m)
  /\ \/ AddMessage(m) /\ at' = "fill"
     \/ AddFails(m) /\ at' = "fail"
  /\ UNCHANGED <<cfg, iteration, timed, checked, buffers, status>>

\* The call of batch_signer_sign; its first malloc may fail.
CallSign ==
  /\ at = "fill" /\ Len(batch) = cfg.batch_size
  /\ \/ Sign /\ at' = "signing"
     \/ at' = "fail" /\ UNCHANGED vars
  /\ UNCHANGED <<cfg, loop, buffers, status>>

Signing ==
  /\ at = "signing" /\ SignStep
  /\ UNCHANGED bench

\* It returned; then the size query, which fails when the size wraps.
Signed ==
  /\ at = "signing" /\ pc = "idle"
  /\ \/ sig # NoSignature /\ at' = IF measured THEN "serialize" ELSE "verify"
     \/ at' = "fail"
  /\ UNCHANGED <<vars, cfg, loop, buffers, status>>

\* Seeded fault: serialized = realloc(serialized, ...), as in bench_seq.c.
SerializeOverwrites ==
  /\ at = "serialize"
  /\ \/ held' = held \cup {"serialized"} /\ serialized' = TRUE /\ at' = "verify"
     \/ at' = "fail" /\ serialized' = FALSE /\ UNCHANGED held
  /\ UNCHANGED <<vars, cfg, loop, status>>

\* realloc through grown, then the bytes, of which the size query (same
\* signature, nothing between) gave the size.
Serialize ==
  /\ at = "serialize"
  /\ \/ held' = held \cup {"serialized"} /\ serialized' = TRUE /\ at' = "verify"
     \/ at' = "fail" /\ UNCHANGED buffers
  /\ UNCHANGED <<vars, cfg, loop, status>>

NextIteration ==
  /\ at' = "loop" /\ iteration' = iteration + 1 /\ checked' = 0
  /\ timed' = IF measured THEN timed + 1 ELSE timed

Rejected == at' = "fail" /\ checked' = 0 /\ UNCHANGED <<iteration, timed>>

\* The call of batch_verify, with cfg.batch_size messages.
Verify ==
  /\ at = "verify"
  /\ \/ cfg.verify = 0 /\ NextIteration
     \/ /\ cfg.verify = 1 /\ cfg.batch_size = sig.num_proofs
        /\ at' = "check" /\ checked' = 0 /\ UNCHANGED <<iteration, timed>>
     \/ cfg.verify = 1 /\ cfg.batch_size # sig.num_proofs /\ Rejected
  /\ UNCHANGED <<vars, cfg, batch, buffers, status>>

\* What batch_verify and merkle_tree_verify_proof allocate for a message, the last
\* two side by side, and what they free of it, whatever comes out.
Scratch == {<<"leaf_hash">>, <<"current">>, <<"buf">>}
ScratchFreed(got) == got

\* The next message: a block that is not to be had rejects, as a path does that
\* leads elsewhere.  The signature is read.
VerifyMessage ==
  /\ at = "check" /\ checked < cfg.batch_size
  /\ \E got \in SUBSET Scratch :
       /\ got # {} => <<"leaf_hash">> \in got
       /\ heap' = (heap \cup got) \ ScratchFreed(got)
       /\ fault' = (fault \/ ~(ScratchFreed(got) \cup SigBlocks \subseteq heap \cup got))
       /\ IF got = Scratch /\ Proved(batch, sig, checked)
            THEN checked' = checked + 1 /\ UNCHANGED <<at, iteration, timed>>
            ELSE Rejected
  /\ UNCHANGED <<signer, pc, locals, sig, cfg, batch, buffers, status>>

VerifyRoot ==
  /\ at = "check" /\ checked = cfg.batch_size
  /\ IF sig.root_signature = SignRoot(sig.root_hash) THEN NextIteration ELSE Rejected
  /\ UNCHANGED <<vars, cfg, batch, buffers, status>>

Finish ==
  /\ \/ at = "loop" /\ iteration >= total_iters /\ status' = "ok"
     \/ at = "fail" /\ status' = "failed"
  /\ at' = "free_signature"
  /\ UNCHANGED <<vars, cfg, loop, buffers>>

\* The frees are the same on both paths.
FreeResult ==
  /\ at = "free_signature" /\ at' = "free_signer"
  /\ FreeLast
  /\ UNCHANGED <<cfg, loop, buffers, status>>

FreeSigner ==
  /\ at = "free_signer" /\ at' = "free_buffers"
  /\ IF capacity = 0 THEN UNCHANGED vars ELSE Free
  /\ UNCHANGED <<cfg, loop, buffers, status>>

FreeBuffers ==
  /\ at = "free_buffers" /\ at' = "returned"
  /\ held' = held \ (Buffers \cup IF serialized THEN {"serialized"} ELSE {})
  /\ UNCHANGED <<vars, cfg, loop, serialized, status>>

RunStep ==
  \/ Allocate \/ Keygen \/ CreateSigner \/ StartIteration \/ ReleaseLast
  \/ \E m \in Messages \ {Empty} : Fill(m)
  \/ CallSign \/ Signing \/ Signed \/ Serialize
  \/ Verify \/ VerifyMessage \/ VerifyRoot
  \/ Finish \/ FreeResult \/ FreeSigner \/ FreeBuffers

\* The thread inside run_one keeps running.
RunSpec == RunInit /\ [][RunStep]_<<vars, bench>> /\ WF_<<vars, bench>>(RunStep)
------------------------------------------------------------------------------
\* The signer and the harness agree on the batch: from the first message on, the
\* signer holds as many as this iteration has added, the last signature was freed
\* before the next one is made, and run_one's own blocks live while it uses them.
RunTypeOK ==
  /\ at \in {"allocate", "keygen", "create", "loop", "release", "fill", "signing", "serialize",
             "verify", "check", "fail", "free_signature", "free_signer", "free_buffers", "returned"}
  /\ iteration \in 0..total_iters /\ timed \in 0..iteration
  /\ held \subseteq Buffers \cup {"serialized"}
  /\ at # "returned" => (serialized <=> "serialized" \in held)
  /\ at \in {"fill", "signing", "serialize", "verify", "check"} =>
       /\ batch \in Seq(Messages \ {Empty}) /\ Len(batch) = num_msgs
       /\ Buffers \subseteq held
  /\ at = "fill" => sig = NoSignature
  /\ at = "check" => checked \in 0..cfg.batch_size

\* run_one never reaches the failure at line 363 but for a failed allocation: a
\* signer used for many iterations, reset, refilled and grown, with the signatures
\* of earlier iterations freed in between, signs this iteration's messages, which
\* the harness keeps in a buffer of its own that the next iteration overwrites.
VerifyAccepts == at \in {"verify", "check"} => BatchVerify(batch, sig)

\* Whichever allocation of the harness, of create, add_message, sign or verify
\* fails, and in whichever iteration, run_one returns with nothing allocated by it
\* or by the signer, no block was freed twice, and none was read after it was freed
\* by sign or verify.
NothingLeft == at = "returned" => heap = {} /\ held = {} /\ ~fault

\* What a result that is reported averages over: all of iters, or, when warmup +
\* iters wraps, no iteration at all, as the loop then ends inside the warm-up.
MeasuredAllOrNone ==
  status = "ok" => timed = IF cfg.warmup + cfg.iters <= SizeMax THEN cfg.iters ELSE 0

\* A result that is reported is the average of iters measured iterations, as
\* docs/report.md says; the code does not keep this (see MeasuredAllOrNone).
MeasuredAll == status = "ok" => timed = cfg.iters

\* run_one returns: it never calls the signer where the signer cannot go on (one that
\* was not created, one that is inside a call), and the loop ends.
RunReturns == <>(at = "returned")
==============================================================================
