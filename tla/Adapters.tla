------------------------------- MODULE Adapters -------------------------------
(***************************************************************************)
(* The registry of signature schemes, the adapter of each scheme to the    *)
(* bb_algorithm interface, and the callbacks that give a scheme to the     *)
(* batch signer.  The libraries of the schemes are external: key pairs are *)
(* numbered, a signature is what it was made with, and the length a        *)
(* library reports is one of those that its adapter tells apart.           *)
(***************************************************************************)
EXTENDS Integers, Sequences

CONSTANTS
  PublicKeyBytes, SecretKeyBytes, SignatureBytes,   \* the sizes, by scheme
  Messages,
  MaxKeys,    \* bound on the key pairs made
  NULL

Registry == <<"hypericum", "shipovnik", "kryzhovnik">>
Schemes == {Registry[i] : i \in 1..Len(Registry)}

ASSUME SizesAssumption ==
  {PublicKeyBytes, SecretKeyBytes, SignatureBytes} \subseteq [Schemes -> Nat \ {0}]
ASSUME MaxKeysAssumption == MaxKeys \in Nat
ASSUME NullAssumption == NULL \notin Schemes \cup Messages

VARIABLES
  algorithm,  \* the scheme that was found, or NULL
  keys,       \* the two key buffers: the pair in them, 0 when they hold none
  lens,       \* sk_len and pk_len of the caller
  ctx,        \* the lengths in the batch_bb_adapter_ctx, which points at the buffers
  sig,        \* the signature buffer: what is in it, and the length sign returned
  overrun,    \* a library was handed a buffer shorter than what it writes
  last        \* the last call and what it returned

vars == <<algorithm, keys, lens, ctx, sig, overrun, last>>

Nothing == [scheme |-> NULL, key |-> 0, msg |-> NULL]
NoCall == [fn |-> "none", status |-> "OK", result |-> 0, msg |-> NULL, len |-> 0]

Init ==
  /\ algorithm = NULL
  /\ keys = [pair |-> 0, made |-> 0] /\ lens = [sk |-> 0, pk |-> 0]
  /\ ctx = NULL
  /\ sig = [holds |-> Nothing, len |-> 0]
  /\ overrun = FALSE /\ last = NoCall
------------------------------------------------------------------------------
\* bb_find_algorithm and bb_algorithm_at.
Find(name) == IF name \in Schemes THEN name ELSE NULL
AlgorithmAt(index) == IF index >= Len(Registry) THEN NULL ELSE Registry[index + 1]

\* The checks of every adapter, in their order, and then the answer of its library.
Checked(bad, small, answer) ==
  IF bad THEN "BAD_ARG" ELSE IF small THEN "BUFFER_TOO_SMALL" ELSE answer
ReachesLibrary(status) == status \in {"OK", "INTERNAL"}

\* Seeded fault: the lengths of the two keys are exchanged.
KeyLengthsSwapped == [sk |-> PublicKeyBytes[algorithm], pk |-> SecretKeyBytes[algorithm]]
KeyLengths == [sk |-> SecretKeyBytes[algorithm], pk |-> PublicKeyBytes[algorithm]]

\* The three keygen adapters differ in the library they call only.
KeygenStatus(sk_capacity, pk_capacity, code) ==
  Checked(FALSE, sk_capacity < SecretKeyBytes[algorithm] \/ pk_capacity < PublicKeyBytes[algorithm],
          IF code # 0 THEN "INTERNAL" ELSE "OK")

\* Only kryzhovnik looks at the public key, and only it takes the length as it comes.
HypericumSign(at, msg, capacity, code, len) ==
  LET required == SignatureBytes["hypericum"] IN
  Checked(msg = NULL \/ at.sk # SecretKeyBytes["hypericum"], capacity < required,
          IF code # 0 \/ len # required THEN "INTERNAL" ELSE "OK")

ShipovnikSign(at, msg, capacity, code, len) ==
  LET required == SignatureBytes["shipovnik"] IN
  Checked(msg = NULL \/ at.sk # SecretKeyBytes["shipovnik"], capacity < required,
          IF code # 0 \/ len > required THEN "INTERNAL" ELSE "OK")

KryzhovnikSign(at, msg, capacity, code, len) ==
  Checked(\/ msg = NULL
          \/ at.sk # SecretKeyBytes["kryzhovnik"] \/ at.pk # PublicKeyBytes["kryzhovnik"],
          capacity < SignatureBytes["kryzhovnik"],
          IF code # 0 THEN "INTERNAL" ELSE "OK")

\* Seeded fault: the adapters do not look at the capacity.
SignStatusUnchecked(at, msg, capacity, code, len) ==
  LET room == capacity + SignatureBytes[algorithm] IN
  CASE algorithm = "hypericum"  -> HypericumSign(at, msg, room, code, len)
    [] algorithm = "shipovnik"  -> ShipovnikSign(at, msg, room, code, len)
    [] algorithm = "kryzhovnik" -> KryzhovnikSign(at, msg, room, code, len)

SignStatus(at, msg, capacity, code, len) ==
  CASE algorithm = "hypericum"  -> HypericumSign(at, msg, capacity, code, len)
    [] algorithm = "shipovnik"  -> ShipovnikSign(at, msg, capacity, code, len)
    [] algorithm = "kryzhovnik" -> KryzhovnikSign(at, msg, capacity, code, len)

\* The codes of a library: 0 for success.  kryzhovnik tells errors (2) from a
\* signature that does not verify (1), the others do not.
HypericumVerify(at, msg, len, code) ==
  Checked(msg = NULL \/ at.pk # PublicKeyBytes["hypericum"], FALSE,
          IF len # SignatureBytes["hypericum"] \/ code # 0 THEN "INVALID_SIG" ELSE "OK")

\* Seeded fault: the length has to be the largest one.
ShipovnikVerifyExact(at, msg, len, code) ==
  Checked(msg = NULL \/ at.pk # PublicKeyBytes["shipovnik"], FALSE,
          IF len # SignatureBytes["shipovnik"] \/ code # 0 THEN "INVALID_SIG" ELSE "OK")

\* The length is checked and not handed on.
ShipovnikVerify(at, msg, len, code) ==
  Checked(msg = NULL \/ at.pk # PublicKeyBytes["shipovnik"], FALSE,
          IF len > SignatureBytes["shipovnik"] \/ code # 0 THEN "INVALID_SIG" ELSE "OK")

KryzhovnikVerify(at, msg, len, code) ==
  Checked(msg = NULL \/ at.pk # PublicKeyBytes["kryzhovnik"], FALSE,
          IF len # SignatureBytes["kryzhovnik"] \/ code = 1 THEN "INVALID_SIG"
          ELSE IF code = 0 THEN "OK" ELSE "INTERNAL")

VerifyStatus(at, msg, len, code) ==
  CASE algorithm = "hypericum"  -> HypericumVerify(at, msg, len, code)
    [] algorithm = "shipovnik"  -> ShipovnikVerify(at, msg, len, code)
    [] algorithm = "kryzhovnik" -> KryzhovnikVerify(at, msg, len, code)

\* Seeded fault: anything but an invalid signature is success.
CallbackResultLenient(status) == IF status # "INVALID_SIG" THEN 1 ELSE 0
CallbackResult(status) == IF status = "OK" THEN 1 ELSE 0
------------------------------------------------------------------------------
\* What the libraries may report: the length of a signature (shipovnik's varies,
\* kryzhovnik's wrapper is relied on for its one length), and the code of verify.
\* A pair whose generation failed may sign and verify anything that it signed.
LibraryLengths ==
  LET n == SignatureBytes[algorithm] IN
  CASE algorithm = "hypericum" -> {n - 1, n} [] algorithm = "shipovnik" -> (n - 1)..(n + 1)
    [] algorithm = "kryzhovnik" -> {n}

Genuine(msg) == sig.holds = [scheme |-> algorithm, key |-> keys.pair, msg |-> msg]
LibraryVerifies(msg) ==
  (IF ~Genuine(msg) THEN {1} ELSE IF keys.pair = 0 THEN {0, 1} ELSE {0})
  \cup IF algorithm = "kryzhovnik" THEN {2} ELSE {}

Call(fn, status, msg, len) ==
  last' = [fn |-> fn, status |-> status, result |-> CallbackResult(status), msg |-> msg, len |-> len]

Lookup ==
  /\ algorithm = NULL
  /\ \/ \E name \in Schemes \cup {"unknown"} : algorithm' = Find(name)
     \/ \E index \in 0..Len(Registry) : algorithm' = AlgorithmAt(index)
  /\ UNCHANGED <<keys, lens, ctx, sig, overrun, last>>

\* A generation that fails leaves something else in the buffers and the lengths alone.
Keygen ==
  /\ algorithm # NULL /\ keys.made < MaxKeys
  /\ \E sk_short, pk_short \in {0, 1}, code \in {0, 1} :
       LET status == KeygenStatus(SecretKeyBytes[algorithm] - sk_short,
                                  PublicKeyBytes[algorithm] - pk_short, code) IN
       /\ keys' = [pair |-> CASE status = "OK" -> keys.made + 1
                              [] status = "INTERNAL" -> 0
                              [] OTHER -> keys.pair,
                   made |-> keys.made + 1]
       /\ lens' = IF status = "OK" THEN KeyLengths ELSE lens
       /\ overrun' = (overrun \/ (ReachesLibrary(status) /\ (sk_short # 0 \/ pk_short # 0)))
       /\ Call("keygen", status, NULL, 0)
  /\ UNCHANGED <<algorithm, ctx, sig>>

\* batch_bb_adapter_init, which keeps the addresses of the keys and copies the lengths.
AdapterInit ==
  /\ algorithm # NULL
  /\ ctx' = lens
  /\ Call("init", "OK", NULL, 0)
  /\ UNCHANGED <<algorithm, keys, lens, sig, overrun>>

\* The lengths a sign or a verify works with: those of the context through a
\* callback, those of the caller when it calls the adapter itself.
Lengths(fn) == IF fn \in {"sign_callback", "verify_callback"} THEN ctx ELSE lens
Callable(fn) == algorithm # NULL /\ Lengths(fn) # NULL

\* batch_bb_sign_callback, and a sign of the interface.
Sign(fn) ==
  /\ Callable(fn)
  /\ \E msg \in Messages \cup {NULL}, code \in {0, 1}, len \in LibraryLengths,
        capacity \in {SignatureBytes[algorithm] - 1, SignatureBytes[algorithm]} :
       LET status == SignStatus(Lengths(fn), msg, capacity, code, len) IN
       /\ sig' = CASE status = "OK" ->
                        [holds |-> [scheme |-> algorithm, key |-> keys.pair, msg |-> msg],
                         len |-> len]
                   [] status = "INTERNAL" -> [holds |-> Nothing, len |-> sig.len]
                   [] OTHER -> sig
       /\ overrun' = (overrun \/ (ReachesLibrary(status) /\ capacity < SignatureBytes[algorithm]))
       /\ Call(fn, status, msg, capacity)
  /\ UNCHANGED <<algorithm, keys, lens, ctx>>

\* A byte of the signature changes.
Alter ==
  /\ sig.holds # Nothing
  /\ sig' = [sig EXCEPT !.holds = Nothing] /\ last' = NoCall
  /\ UNCHANGED <<algorithm, keys, lens, ctx, overrun>>

\* batch_bb_verify_callback, and a verify of the interface: the buffer is presented
\* with one of the messages and the length sign returned, or another.
Verify(fn) ==
  /\ Callable(fn)
  /\ \E msg \in Messages \cup {NULL}, len \in {sig.len - 1, sig.len, sig.len + 1} \cap Nat :
       \E code \in LibraryVerifies(msg) :
         Call(fn, VerifyStatus(Lengths(fn), msg, len, code), msg, len)
  /\ UNCHANGED <<algorithm, keys, lens, ctx, sig, overrun>>

Next ==
  \/ Lookup \/ Keygen \/ AdapterInit \/ Alter
  \/ \E fn \in {"sign", "sign_callback"} : Sign(fn)
  \/ \E fn \in {"verify", "verify_callback"} : Verify(fn)

Spec == Init /\ [][Next]_vars
------------------------------------------------------------------------------
Statuses == {"OK", "INVALID_SIG", "BAD_ARG", "BUFFER_TOO_SMALL", "INTERNAL"}

TypeOK ==
  /\ algorithm \in Schemes \cup {NULL}
  /\ keys.pair \in 0..keys.made /\ keys.made \in 0..MaxKeys
  /\ \A at \in {lens, ctx} \ {NULL} :
       at.sk = 0 \/ at = [sk |-> SecretKeyBytes[algorithm], pk |-> PublicKeyBytes[algorithm]]
  /\ sig.holds = Nothing \/ (sig.holds.scheme = algorithm /\ sig.holds.key \in 0..keys.made)
  /\ last.status \in Statuses

\* The contract batch_signing.c counts on: a library is never handed a key or
\* signature buffer shorter than what it writes, and the length that comes back with
\* success is at most the capacity that was passed.
WritesFit ==
  /\ ~overrun
  /\ last.fn \in {"sign", "sign_callback"} /\ last.result = 1 => sig.len <= last.len

\* What was signed verifies: the signature a sign returned with success, with the
\* length it returned, is not called invalid for its message while the key pair is
\* the one that signed, and not refused unless the context was made before the keys.
SignedVerifies ==
  last.fn \in {"verify", "verify_callback"} /\ last.len = sig.len /\ Genuine(last.msg)
    /\ keys.pair # 0 =>
    \/ last.status = "OK"
    \/ last.status = "INTERNAL" /\ algorithm = "kryzhovnik"
    \/ last.status = "BAD_ARG" /\ Lengths(last.fn).pk = 0

\* Success is only ever said of a signature that a successful sign made over this
\* message with the pair that is in the buffers now, at its own length; shipovnik
\* alone takes another length, up to its largest.
OnlySigned ==
  last.fn \in {"verify", "verify_callback"} /\ last.result = 1 =>
    /\ Genuine(last.msg)
    /\ \/ last.len = sig.len
       \/ algorithm = "shipovnik" /\ last.len <= SignatureBytes[algorithm]
==============================================================================
