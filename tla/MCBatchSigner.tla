---------------------------- MODULE MCBatchSigner ----------------------------
(* Instances of BatchSigner for TLC.                                        *)
EXTENDS BatchSigner
==============================================================================
