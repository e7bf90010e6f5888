------------------------------ MODULE MCAdapters ------------------------------
(***************************************************************************)
(* An instance of Adapters with sizes that differ for every scheme.        *)
(***************************************************************************)
EXTENDS Adapters

Sizes(h, s, k) == [hypericum |-> h, shipovnik |-> s, kryzhovnik |-> k]
MCPublicKeyBytes == Sizes(2, 3, 4)
MCSecretKeyBytes == Sizes(4, 2, 3)
MCSignatureBytes == Sizes(5, 6, 7)
==============================================================================
