----------------------------- MODULE MCBenchBatch ----------------------------
(***************************************************************************)
(* Instances of BenchBatch.  A batch of 5 outgrows the signer, one of 7    *)
(* fails the checks of run_one; a warm-up of -1 is one of SIZE_MAX, and    *)
(* the values that parse_args refuses are there to be refused.             *)
(***************************************************************************)
EXTENDS BenchBatch

MCTyped ==
  [batch_size : {0, 1, 2, 3, 5, 7}, iters : {0, 1, 2}, warmup : {-1, 0, 1}, msg_size : {1, 2},
   verify : {0, 1, 2}]
==============================================================================
