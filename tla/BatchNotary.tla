----------------------------- MODULE BatchNotary -----------------------------
(***************************************************************************)
(* What a batch signer promises (src/batch_signing.h), without buffer,     *)
(* tree or heap: messages are collected in order, and a signature is       *)
(* accepted for the batch it was made of and for no other, whatever        *)
(* happens to the signer afterwards.  A failed call changes nothing.       *)
(***************************************************************************)
EXTENDS Sequences

CONSTANTS Messages, NULL

VARIABLES
  batch,     \* the messages added since the last reset
  accepted   \* the batches the outstanding signature is accepted for, or NULL

vars == <<batch, accepted>>

Init == batch = <<>> /\ accepted = NULL

Add(m) == batch' = Append(batch, m) /\ UNCHANGED accepted
Clear == batch' = <<>> /\ UNCHANGED accepted
Sign == batch # <<>> /\ accepted = NULL /\ accepted' = {batch} /\ UNCHANGED batch
Drop == accepted' = NULL /\ UNCHANGED batch

Next == (\E m \in Messages : Add(m)) \/ Clear \/ Sign \/ Drop

Spec == Init /\ [][Next]_vars
==============================================================================
