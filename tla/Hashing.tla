------------------------------- MODULE Hashing -------------------------------
(***************************************************************************)
(* The hash callback (batch_hash_fn, merkle_hash_func), idealised as a     *)
(* free constructor: equal digests have equal inputs.  A digest is one     *)
(* value whatever hash_size is; the library never looks inside it.         *)
(***************************************************************************)

\* One call of the callback, on a message or on the 2 * hash_size buffer.
Hash(in) == <<"digest", in>>

\* The buffer the tree code fills: the left digest, then the right one.
HashPair(left, right) == Hash(<<left, right>>)

\* hash_size zero bytes: what calloc leaves in a leaf nobody set.  The ideal
\* hash never returns it.
ZeroHash == <<"zero">>
===============================================================================
