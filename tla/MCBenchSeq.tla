------------------------------ MODULE MCBenchSeq -----------------------------
(***************************************************************************)
(* Instances of BenchSeq.  Slots of 3 bytes for a batch of 6 or more wrap  *)
(* SIZE_MAX; a batch of 10 then asks for few bytes.                        *)
(***************************************************************************)
EXTENDS BenchSeq

MCTyped ==
  [batch_size : {0, 1, 2, 3, 5, 6, 10}, iters : {0, 1, 2}, warmup : {-1, 0, 1},
   msg_size : {1}, verify : {0, 1}]
==============================================================================
