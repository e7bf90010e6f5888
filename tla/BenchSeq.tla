------------------------------- MODULE BenchSeq ------------------------------
(***************************************************************************)
(* run_one of bench/bench_seq.c: every message of a batch signed by itself *)
(* into a slot of one buffer, then the signatures of a measured iteration  *)
(* copied one behind the other into a scratch buffer grown by realloc.     *)
(* Sizes are kept as numbers, so that what is written can be compared with *)
(* what was allocated; timed counts the measured iterations.               *)
(***************************************************************************)
EXTENDS Integers, FiniteSets

CONSTANTS
  SizeMax,         \* SIZE_MAX
  IntValues,       \* values of an int
  PtrSize,         \* sizeof(size_t)
  MallocMax,       \* the largest block an allocation can return
  signature_bytes, \* of the algorithm
  Lengths,         \* the signature lengths that its sign reports
  Typed            \* the numbers typed on the command line, one record per command line

ASSUME AddressAssumption ==
  /\ SizeMax \in Nat /\ PtrSize \in Nat \ {0} /\ MallocMax \in 0..SizeMax
  /\ signature_bytes \in Nat \ {0} /\ Lengths \subseteq 0..signature_bytes
\* An array of one size_t per message can only be had for a batch whose
\* signatures have a size that does not wrap.
ASSUME SlotAssumption == (MallocMax \div PtrSize) * signature_bytes <= SizeMax

Args == INSTANCE BenchArgs

VARIABLES
  cfg,        \* bench_config
  at,         \* where run_one is
  iteration,  \* it
  slot,       \* i, in the loop over the messages and in the one that copies
  sig_lens,
  batch_sig_bytes,
  cursor,
  held,       \* the size of each live block, 0 if it is not live
  serialized, \* its pointer to the scratch buffer is set
  timed,      \* iterations measured to their end
  status      \* what run_one returns, once decided: 0 is "ok", -1 is "failed"

loop == <<iteration, slot, sig_lens, batch_sig_bytes, cursor, timed>>
vars == <<cfg, at, loop, held, serialized, status>>

Buffers == {"sk", "pk", "msg", "sigs", "sig_lens"}
Wrap(n) == n % (SizeMax + 1)

\* What each allocation asks for (1 where the size does not matter here).
\* batch_size * signature_bytes is not checked; calloc checks its product.
Request(b) ==
  CASE b = "sigs" -> Wrap(cfg.batch_size * signature_bytes)
    [] b = "sig_lens" -> cfg.batch_size * PtrSize
    [] OTHER -> 1

Init ==
  /\ cfg \in Args!ConfigsOf(Typed)
  /\ at = "allocate" /\ iteration = 0 /\ slot = 0 /\ sig_lens = [s \in {} |-> 0]
  /\ batch_sig_bytes = 0 /\ cursor = 0 /\ timed = 0 /\ status = "running"
  /\ held = [b \in Buffers \cup {"serialized"} |-> 0] /\ serialized = FALSE
------------------------------------------------------------------------------
\* Seeded fault: the last two results are not checked.
Needed == {"sk", "pk", "msg"}
Checked == Buffers

\* malloc(0) may return a block: its size is not told from that of no block.
Allocate ==
  /\ at = "allocate"
  /\ \E got \in SUBSET {b \in Buffers : Request(b) <= MallocMax} :
       /\ held' = [b \in DOMAIN held |-> IF b \in got THEN Request(b) ELSE 0]
       /\ at' = IF Checked \subseteq got THEN "keygen" ELSE "fail"
  /\ UNCHANGED <<cfg, loop, serialized, status>>

Keygen ==
  /\ at = "keygen" /\ at' \in {"loop", "fail"}
  /\ UNCHANGED <<cfg, loop, held, serialized, status>>

\* warmup + iters is not checked and wraps.
total_iters == Wrap(cfg.warmup + cfg.iters)

\* Seeded fault: <= in the loop condition.
MoreIterationsThrough == iteration <= total_iters
MoreIterations == iteration < total_iters

measured == iteration >= cfg.warmup

\* Seeded fault: batch_sig_bytes is not set to 0 for each iteration.
StartIterationKeeps ==
  /\ at = "loop" /\ MoreIterations
  /\ at' = "sign" /\ slot' = 0
  /\ UNCHANGED <<cfg, iteration, sig_lens, batch_sig_bytes, cursor, timed, held, serialized, status>>

StartIteration ==
  /\ at = "loop" /\ MoreIterations
  /\ at' = "sign" /\ slot' = 0 /\ batch_sig_bytes' = 0
  /\ UNCHANGED <<cfg, iteration, sig_lens, cursor, timed, held, serialized, status>>

\* algo->sign into the slot and, with verify, algo->verify of it.
SignMessage(len) ==
  /\ at = "sign" /\ slot < cfg.batch_size
  /\ \/ /\ sig_lens' = [s \in DOMAIN sig_lens \cup {slot} |-> IF s = slot THEN len ELSE sig_lens[s]]
        /\ batch_sig_bytes' = Wrap(batch_sig_bytes + len)
        /\ slot' = slot + 1
        /\ UNCHANGED at
     \/ at' = "fail" /\ UNCHANGED <<sig_lens, batch_sig_bytes, slot>>
  /\ UNCHANGED <<cfg, iteration, cursor, timed, held, serialized, status>>

EndIteration ==
  /\ at' = "loop" /\ iteration' = iteration + 1
  /\ timed' = IF measured THEN timed + 1 ELSE timed

SignedAll ==
  /\ at = "sign" /\ slot = cfg.batch_size /\ ~measured
  /\ EndIteration
  /\ UNCHANGED <<cfg, slot, sig_lens, batch_sig_bytes, cursor, held, serialized, status>>

\* Seeded fault: room for the last signature is forgotten.
ScratchSizeShort ==
  IF cfg.batch_size = 1 THEN 1 ELSE batch_sig_bytes - sig_lens[cfg.batch_size - 1]
ScratchSize == IF batch_sig_bytes = 0 THEN 1 ELSE batch_sig_bytes

\* serialized = realloc(serialized, ...): a failure leaves the old block live and
\* clears the only pointer to it.
Grow ==
  /\ at = "sign" /\ slot = cfg.batch_size /\ measured
  /\ \/ /\ ScratchSize <= MallocMax
        /\ held' = [held EXCEPT !["serialized"] = ScratchSize]
        /\ serialized' = TRUE /\ at' = "copy" /\ slot' = 0 /\ cursor' = 0
     \/ serialized' = FALSE /\ at' = "fail" /\ UNCHANGED <<held, slot, cursor>>
  /\ UNCHANGED <<cfg, iteration, sig_lens, batch_sig_bytes, timed, status>>

CopySignature ==
  /\ at = "copy" /\ slot < cfg.batch_size
  /\ cursor' = cursor + sig_lens[slot] /\ slot' = slot + 1
  /\ UNCHANGED <<cfg, at, iteration, sig_lens, batch_sig_bytes, timed, held, serialized, status>>

CopiedAll ==
  /\ at = "copy" /\ slot = cfg.batch_size
  /\ EndIteration
  /\ UNCHANGED <<cfg, slot, sig_lens, batch_sig_bytes, cursor, held, serialized, status>>

Finish ==
  /\ \/ at = "loop" /\ ~MoreIterations /\ status' = "ok"
     \/ at = "fail" /\ status' = "failed"
  /\ at' = "free"
  /\ UNCHANGED <<cfg, loop, held, serialized>>

\* Seeded fault: the lengths are not freed.
FreedBuffers == Buffers \ {"sig_lens"}
Freed == Buffers \cup IF serialized THEN {"serialized"} ELSE {}

Free ==
  /\ at = "free" /\ at' = "returned"
  /\ held' = [b \in DOMAIN held |-> IF b \in Freed THEN 0 ELSE held[b]]
  /\ UNCHANGED <<cfg, loop, serialized, status>>

Next ==
  \/ Allocate \/ Keygen \/ StartIteration \/ SignedAll \/ Grow \/ CopySignature \/ CopiedAll
  \/ \E len \in Lengths : SignMessage(len)
  \/ Finish \/ Free

\* The thread inside run_one keeps running.
Spec == Init /\ [][Next]_vars /\ WF_vars(Next)
------------------------------------------------------------------------------
Places ==
  {"allocate", "keygen", "loop", "sign", "copy", "fail", "free", "returned"}

\* The counters stay in their ranges: the sum of the lengths does not wrap, so the
\* scratch buffer is as large as what is copied into it.
TypeOK ==
  /\ at \in Places /\ status \in {"running", "ok", "failed"} /\ serialized \in BOOLEAN
  /\ iteration \in 0..total_iters /\ timed \in 0..iteration
  /\ slot \in 0..cfg.batch_size
  /\ batch_sig_bytes \in 0..(cfg.batch_size * signature_bytes)
  /\ at = "sign" => 0..(slot - 1) \subseteq DOMAIN sig_lens
  /\ at = "copy" => 0..(cfg.batch_size - 1) \subseteq DOMAIN sig_lens

\* Every write is inside its block: the slot that sign is given holds a whole
\* signature, though the size of the slots is an unchecked product (the calloc of
\* the lengths, checked below it, refuses every batch for which that wraps), and the
\* bytes the copy loop writes lie inside the scratch buffer of this iteration.
WritesInside ==
  /\ at = "sign" /\ slot < cfg.batch_size => (slot + 1) * signature_bytes <= held["sigs"]
  /\ at = "copy" /\ slot < cfg.batch_size => cursor + sig_lens[slot] <= held["serialized"]

\* run_one returns with everything freed, except that the scratch buffer is lost
\* when realloc fails after an iteration that was measured: no other failure leaks.
LeaksOnlyScratch ==
  at = "returned" =>
    \A b \in DOMAIN held : held[b] # 0 => b = "serialized" /\ status = "failed" /\ timed > 0

\* What a result that is reported averages over: all of iters or, when warmup +
\* iters wraps, no iteration at all.
MeasuredAllOrNone ==
  status = "ok" => timed = IF cfg.warmup + cfg.iters <= SizeMax THEN cfg.iters ELSE 0
==============================================================================
