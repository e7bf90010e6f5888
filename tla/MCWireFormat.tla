---------------------------- MODULE MCWireFormat ----------------------------
(* Instances of WireFormat for TLC.                                         *)
EXTENDS WireFormat

CONSTANT
  SigLens,   \* lengths of the root signatures of Signed
  Depths     \* [number of messages -> depth of their tree]

\* What sign returns for some numbers of messages: one path for each, all of
\* the depth of the tree.
MCSigned ==
  {[root_hash |-> s[1], root_signature |-> s[2], proofs |-> s[3]] :
     s \in UNION {Bytes(HashSize) \X Bytes(len) \X [1..m -> [1..Depths[m] -> Bytes(HashSize)]] :
                  len \in SigLens, m \in DOMAIN Depths}}

MCDepths == <<0, 1>>

\* All of them are readable, but for the cast where the files are long enough.
ASSUME ReadableAssumption == \A s \in Signed : Readable(s) <=> Uncut(s)
==============================================================================
