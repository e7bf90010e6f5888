---------------------------- MODULE AdaptersProofs ----------------------------
(***************************************************************************)
(* Theorems about Adapters, for any sizes, messages and number of keys.    *)
(***************************************************************************)
EXTENDS Adapters, TLAPS

\* The schemes are the three of the registry.
LEMMA SchemesAre == Schemes = {"hypericum", "shipovnik", "kryzhovnik"}
<1>1. Len(Registry) = 3
  BY DEF Registry
<1>2. 1..3 = {1, 2, 3}
  OBVIOUS
<1>3. Registry[1] = "hypericum" /\ Registry[2] = "shipovnik" /\ Registry[3] = "kryzhovnik"
  BY DEF Registry
<1>. QED  BY <1>1, <1>2, <1>3 DEF Schemes

\* Every scheme has a positive size of each kind.
LEMMA Sizes ==
  ASSUME NEW scheme \in Schemes
  PROVE  /\ PublicKeyBytes[scheme] \in Nat \ {0}
         /\ SecretKeyBytes[scheme] \in Nat \ {0}
         /\ SignatureBytes[scheme] \in Nat \ {0}
  BY SizesAssumption

\* What the libraries report as a length is never negative.
LEMMA LibraryLengthsBound ==
  ASSUME algorithm \in Schemes, NEW len \in LibraryLengths
  PROVE  len \in Nat /\ (algorithm = "kryzhovnik" => len = SignatureBytes[algorithm])
<1>1. CASE algorithm = "hypericum"
  BY <1>1, Sizes DEF LibraryLengths
<1>2. CASE algorithm = "shipovnik"
  BY <1>2, Sizes DEF LibraryLengths
<1>3. CASE algorithm = "kryzhovnik"
  BY <1>3, Sizes DEF LibraryLengths
<1>. QED  BY <1>1, <1>2, <1>3, SchemesAre

\* The lengths a signature may have when sign returned it.
LengthOf(len) ==
  /\ len \in Nat /\ len <= SignatureBytes[algorithm]
  /\ algorithm # "shipovnik" => len = SignatureBytes[algorithm]

\* What an adapter answers is a status, a short buffer never reaches a library, and
\* success comes with a length verify takes.
LEMMA SignAnswers ==
  ASSUME algorithm \in Schemes, NEW at, NEW msg, NEW capacity \in Int, NEW code \in {0, 1},
         NEW len \in LibraryLengths
  PROVE  LET status == SignStatus(at, msg, capacity, code, len) IN
         /\ status \in Statuses \ {"INVALID_SIG"}
         /\ ReachesLibrary(status) => capacity >= SignatureBytes[algorithm]
         /\ status = "OK" => msg # NULL /\ LengthOf(len)
<1>0. len \in Nat /\ (algorithm = "kryzhovnik" => len = SignatureBytes[algorithm])
  BY LibraryLengthsBound
<1>1. CASE algorithm = "hypericum"
  BY <1>0, <1>1, Sizes DEF SignStatus, HypericumSign, Checked, ReachesLibrary, Statuses, LengthOf
<1>2. CASE algorithm = "shipovnik"
  BY <1>0, <1>2, Sizes DEF SignStatus, ShipovnikSign, Checked, ReachesLibrary, Statuses, LengthOf
<1>3. CASE algorithm = "kryzhovnik"
  BY <1>0, <1>3, Sizes DEF SignStatus, KryzhovnikSign, Checked, ReachesLibrary, Statuses, LengthOf
<1>. QED  BY <1>1, <1>2, <1>3, SchemesAre

\* Success of a verify comes from its library, and what is refused has a reason.
LEMMA VerifyAnswers ==
  ASSUME algorithm \in Schemes, NEW at, NEW msg, NEW len \in Int, NEW code \in {0, 1, 2},
         code = 2 => algorithm = "kryzhovnik"
  PROVE  LET status == VerifyStatus(at, msg, len, code) IN
         /\ status \in Statuses \ {"BUFFER_TOO_SMALL"}
         /\ status = "OK" =>
              /\ code = 0 /\ msg # NULL
              /\ IF algorithm = "shipovnik" THEN len <= SignatureBytes[algorithm]
                                            ELSE len = SignatureBytes[algorithm]
         /\ status = "BAD_ARG" => msg = NULL \/ at.pk # PublicKeyBytes[algorithm]
         /\ status = "INTERNAL" => algorithm = "kryzhovnik"
         /\ status = "INVALID_SIG" => code = 1 \/ ~LengthOf(len)
<1>1. CASE algorithm = "hypericum"
  BY <1>1, Sizes DEF VerifyStatus, HypericumVerify, Checked, Statuses, LengthOf
<1>2. CASE algorithm = "shipovnik"
  BY <1>2, Sizes DEF VerifyStatus, ShipovnikVerify, Checked, Statuses, LengthOf
<1>3. CASE algorithm = "kryzhovnik"
  BY <1>3, Sizes DEF VerifyStatus, KryzhovnikVerify, Checked, Statuses, LengthOf
<1>. QED  BY <1>1, <1>2, <1>3, SchemesAre
------------------------------------------------------------------------------
NoLengths == [sk |-> 0, pk |-> 0]

\* What the state keeps: the lengths are those of the scheme or none yet, a pair
\* that was generated has them, and the signature is of this scheme and of its length.
KeysInv ==
  /\ keys \in [pair : Nat, made : Nat] /\ keys.pair <= keys.made /\ keys.made <= MaxKeys
  /\ lens \in {NoLengths, KeyLengths} /\ ctx \in {NULL, NoLengths, KeyLengths}
  /\ keys.pair # 0 => lens = KeyLengths

SigInv ==
  \/ sig.holds = Nothing
  \/ /\ sig.holds.scheme = algorithm /\ sig.holds.key \in 0..keys.made
     /\ sig.holds.msg \in Messages /\ LengthOf(sig.len)

IInv ==
  /\ algorithm \in Schemes \cup {NULL}
  /\ algorithm = NULL => /\ lens = NoLengths /\ ctx = NULL /\ keys.pair = 0
                         /\ sig.holds = Nothing /\ last = NoCall
  /\ KeysInv /\ SigInv
  /\ sig = [holds |-> sig.holds, len |-> sig.len] /\ sig.len \in Nat
  /\ ~overrun
  /\ last.status \in Statuses

Promises == WritesFit /\ SignedVerifies /\ OnlySigned

\* Nothing is called yet.
LEMMA InitEstablishes == Init => IInv /\ Promises
<1>. SUFFICES ASSUME Init PROVE IInv /\ Promises
  OBVIOUS
<1>. USE DEF Init, NoCall
<1>1. KeysInv
  BY MaxKeysAssumption DEF KeysInv, NoLengths
<1>2. SigInv
  BY DEF SigInv
<1>. QED  BY <1>1, <1>2 DEF IInv, Promises, WritesFit, SignedVerifies, OnlySigned, Statuses, NoLengths

\* A lookup finds a scheme of the registry or nothing, and touches nothing else.
LEMMA LookupKeeps == IInv /\ Promises /\ Lookup => (IInv /\ Promises)'
<1>. SUFFICES ASSUME IInv, Promises, Lookup PROVE (IInv /\ Promises)'
  OBVIOUS
<1>1. algorithm' \in Schemes \cup {NULL}
  <2>1. ASSUME NEW name, algorithm' = Find(name) PROVE algorithm' \in Schemes \cup {NULL}
    BY <2>1 DEF Find
  <2>2. ASSUME NEW index \in 0..Len(Registry), algorithm' = AlgorithmAt(index)
        PROVE  algorithm' \in Schemes \cup {NULL}
    <3>1. Len(Registry) = 3
      BY DEF Registry
    <3>. QED  BY <2>2, <3>1 DEF AlgorithmAt, Schemes
  <2>. QED  BY <2>1, <2>2 DEF Lookup
<1>2. KeysInv'
  BY DEF IInv, KeysInv, Lookup, NoLengths
<1>3. SigInv'
  BY DEF IInv, SigInv, Lookup
<1>4. last = NoCall
  BY DEF IInv, Lookup
<1>. QED  BY <1>1, <1>2, <1>3, <1>4
          DEF IInv, Lookup, Promises, WritesFit, SignedVerifies, OnlySigned, NoCall

\* keygen sets the lengths with the pair, and no library gets a short buffer.
LEMMA KeygenKeeps == IInv /\ Promises /\ Keygen => (IInv /\ Promises)'
<1>. SUFFICES ASSUME IInv, Promises, Keygen PROVE (IInv /\ Promises)'
  OBVIOUS
<1>1. algorithm \in Schemes /\ algorithm' = algorithm
  BY DEF IInv, Keygen
<1>2. PICK sk_short \in {0, 1}, pk_short \in {0, 1}, code \in {0, 1} :
        LET status == KeygenStatus(SecretKeyBytes[algorithm] - sk_short,
                                   PublicKeyBytes[algorithm] - pk_short, code) IN
        /\ keys' = [pair |-> CASE status = "OK" -> keys.made + 1
                               [] status = "INTERNAL" -> 0
                               [] OTHER -> keys.pair,
                    made |-> keys.made + 1]
        /\ lens' = IF status = "OK" THEN KeyLengths ELSE lens
        /\ overrun' = (overrun \/ (ReachesLibrary(status) /\ (sk_short # 0 \/ pk_short # 0)))
        /\ Call("keygen", status, NULL, 0)
  BY DEF Keygen
<1>. DEFINE status == KeygenStatus(SecretKeyBytes[algorithm] - sk_short,
                                   PublicKeyBytes[algorithm] - pk_short, code)
<1>3. /\ status \in {"OK", "INTERNAL", "BUFFER_TOO_SMALL"}
      /\ ReachesLibrary(status) => sk_short = 0 /\ pk_short = 0
  BY <1>1, Sizes DEF KeygenStatus, Checked, ReachesLibrary
<1>. HIDE DEF status
<1>4. ~overrun'
  BY <1>2, <1>3 DEF IInv, status
<1>5. last'.fn = "keygen" /\ last'.status = status
  BY <1>2 DEF Call, status
<1>6. KeysInv'
  <2>1. keys \in [pair : Nat, made : Nat] /\ keys.pair <= keys.made /\ keys.made < MaxKeys
    BY DEF IInv, KeysInv, Keygen
  <2>2. CASE status = "OK"
    <3>1. keys' = [pair |-> keys.made + 1, made |-> keys.made + 1] /\ lens' = KeyLengths
      BY <1>2, <2>2 DEF status
    <3>. QED  BY <1>1, <2>1, <3>1, MaxKeysAssumption DEF KeysInv, IInv, KeyLengths, Keygen
  <2>3. CASE status = "INTERNAL"
    <3>1. keys' = [pair |-> 0, made |-> keys.made + 1] /\ lens' = lens
      BY <1>2, <2>3 DEF status
    <3>. QED  BY <1>1, <2>1, <3>1, MaxKeysAssumption DEF KeysInv, IInv, KeyLengths, Keygen
  <2>4. CASE status = "BUFFER_TOO_SMALL"
    <3>1. keys' = [pair |-> keys.pair, made |-> keys.made + 1] /\ lens' = lens
      BY <1>2, <2>4 DEF status
    <3>. QED  BY <1>1, <2>1, <3>1, MaxKeysAssumption DEF KeysInv, IInv, KeyLengths, Keygen
  <2>. QED  BY <1>3, <2>2, <2>3, <2>4
<1>7. SigInv'
  <2>1. keys.made \in Nat /\ keys'.made = keys.made + 1
    BY <1>2 DEF IInv, KeysInv
  <2>. QED  BY <1>1, <2>1 DEF IInv, SigInv, Keygen, LengthOf
<1>8. sig' = sig /\ status \in Statuses
  BY <1>3 DEF Keygen, IInv, Statuses
<1>9. IInv'
  BY <1>1, <1>4, <1>5, <1>6, <1>7, <1>8, NullAssumption DEF IInv
<1>. QED  BY <1>4, <1>5, <1>9 DEF Promises, WritesFit, SignedVerifies, OnlySigned

\* The context copies the lengths.
LEMMA AdapterInitKeeps == IInv /\ Promises /\ AdapterInit => (IInv /\ Promises)'
<1>. SUFFICES ASSUME IInv, Promises, AdapterInit PROVE (IInv /\ Promises)'
  OBVIOUS
<1>1. last'.fn = "init" /\ last'.status = "OK"
  BY DEF AdapterInit, Call
<1>2. KeysInv' /\ SigInv'
  BY DEF AdapterInit, IInv, KeysInv, SigInv, KeyLengths, LengthOf
<1>3. IInv'
  BY <1>1, <1>2, NullAssumption DEF IInv, AdapterInit, Statuses
<1>. QED  BY <1>1, <1>3 DEF Promises, WritesFit, SignedVerifies, OnlySigned, IInv

\* An altered signature is nobody's.
LEMMA AlterKeeps == IInv /\ Promises /\ Alter => (IInv /\ Promises)'
<1>. SUFFICES ASSUME IInv, Promises, Alter PROVE (IInv /\ Promises)'
  OBVIOUS
<1>1. /\ sig' = [sig EXCEPT !.holds = Nothing] /\ last' = NoCall
      /\ UNCHANGED <<algorithm, keys, lens, ctx, overrun>>
  BY DEF Alter
<1>2. sig'.holds = Nothing /\ sig' = [holds |-> sig'.holds, len |-> sig.len] /\ sig.len \in Nat
  BY <1>1 DEF IInv
<1>3. KeysInv' /\ SigInv'
  BY <1>1, <1>2 DEF IInv, KeysInv, KeyLengths, SigInv
<1>4. IInv'
  BY <1>1, <1>2, <1>3, NullAssumption DEF IInv, NoCall, Statuses
<1>. QED  BY <1>1, <1>4 DEF Promises, WritesFit, SignedVerifies, OnlySigned, IInv, NoCall

\* What a successful sign leaves in the buffer is signed with the pair, at a length
\* that verify takes; a failed one leaves nothing that is signed.
LEMMA SignKeeps ==
  ASSUME NEW fn \in {"sign", "sign_callback"}, IInv, Promises, Sign(fn)
  PROVE  (IInv /\ Promises)'
<1>1. algorithm \in Schemes /\ algorithm' = algorithm
  BY DEF IInv, Sign, Callable
<1>2. PICK msg \in Messages \cup {NULL}, code \in {0, 1}, len \in LibraryLengths,
           capacity \in {SignatureBytes[algorithm] - 1, SignatureBytes[algorithm]} :
        LET status == SignStatus(Lengths(fn), msg, capacity, code, len) IN
        /\ sig' = CASE status = "OK" ->
                         [holds |-> [scheme |-> algorithm, key |-> keys.pair, msg |-> msg],
                          len |-> len]
                    [] status = "INTERNAL" -> [holds |-> Nothing, len |-> sig.len]
                    [] OTHER -> sig
        /\ overrun' = (overrun \/ (ReachesLibrary(status) /\ capacity < SignatureBytes[algorithm]))
        /\ Call(fn, status, msg, capacity)
  BY DEF Sign
<1>. DEFINE status == SignStatus(Lengths(fn), msg, capacity, code, len)
<1>3. SignatureBytes[algorithm] \in Nat /\ capacity \in Int
  BY <1>1, Sizes
<1>4. /\ status \in Statuses \ {"INVALID_SIG"}
      /\ ReachesLibrary(status) => capacity >= SignatureBytes[algorithm]
      /\ status = "OK" => msg # NULL /\ LengthOf(len)
  BY <1>1, <1>3, SignAnswers
<1>. HIDE DEF status
<1>5. ~overrun'
  <2>1. ReachesLibrary(status) => ~(capacity < SignatureBytes[algorithm])
    BY <1>3, <1>4
  <2>2. overrun' = (overrun \/ (ReachesLibrary(status) /\ capacity < SignatureBytes[algorithm]))
    BY <1>2 DEF status
  <2>. QED  BY <2>1, <2>2 DEF IInv
<1>6. /\ last'.fn = fn /\ last'.status = status /\ last'.len = capacity
      /\ last'.result = 1 => status = "OK"
  BY <1>2 DEF Call, CallbackResult, status
<1>7. /\ SigInv' /\ sig' = [holds |-> sig'.holds, len |-> sig'.len] /\ sig'.len \in Nat
      /\ status = "OK" => sig'.len = len
  <2>1. CASE status = "OK"
    <3>1. sig' = [holds |-> [scheme |-> algorithm, key |-> keys.pair, msg |-> msg], len |-> len]
      BY <1>2, <2>1 DEF status
    <3>2. keys' = keys /\ keys.pair \in 0..keys.made
      BY DEF Sign, IInv, KeysInv
    <3>. QED  BY <1>1, <1>4, <2>1, <3>1, <3>2 DEF SigInv, LengthOf
  <2>2. CASE status = "INTERNAL"
    <3>1. sig' = [holds |-> Nothing, len |-> sig.len]
      BY <1>2, <2>2 DEF status
    <3>. QED  BY <2>2, <3>1 DEF SigInv, IInv
  <2>3. CASE status \notin {"OK", "INTERNAL"}
    <3>1. sig' = sig
      BY <1>2, <2>3 DEF status
    <3>. QED  BY <1>1, <2>3, <3>1 DEF SigInv, IInv, LengthOf, Sign
  <2>. QED  BY <2>1, <2>2, <2>3
<1>8. KeysInv'
  BY <1>1 DEF Sign, IInv, KeysInv, KeyLengths
<1>9. IInv'
  BY <1>1, <1>4, <1>5, <1>6, <1>7, <1>8, NullAssumption DEF IInv
<1>10. status = "OK" => sig'.len <= capacity
  <2>1. status = "OK" => sig'.len <= SignatureBytes[algorithm] /\ sig'.len \in Nat
    BY <1>4, <1>7 DEF LengthOf
  <2>2. status = "OK" => capacity >= SignatureBytes[algorithm]
    BY <1>4 DEF ReachesLibrary
  <2>. QED  BY <1>3, <2>1, <2>2
<1>. QED  BY <1>5, <1>6, <1>9, <1>10 DEF Promises, WritesFit, SignedVerifies, OnlySigned

\* The answer of a verify, for what is in the buffer and anything else.
LEMMA VerifyKeeps ==
  ASSUME NEW fn \in {"verify", "verify_callback"}, IInv, Promises, Verify(fn)
  PROVE  (IInv /\ Promises)'
<1>1. algorithm \in Schemes /\ UNCHANGED <<algorithm, keys, lens, ctx, sig, overrun>>
  BY DEF IInv, Verify, Callable
<1>2. PICK msg \in Messages \cup {NULL}, len \in {sig.len - 1, sig.len, sig.len + 1} \cap Nat :
        \E code \in LibraryVerifies(msg) :
          Call(fn, VerifyStatus(Lengths(fn), msg, len, code), msg, len)
  BY DEF Verify
<1>3. PICK code \in LibraryVerifies(msg) :
        Call(fn, VerifyStatus(Lengths(fn), msg, len, code), msg, len)
  BY <1>2
<1>. DEFINE status == VerifyStatus(Lengths(fn), msg, len, code)
<1>4. /\ code \in {0, 1, 2} /\ (code = 2 => algorithm = "kryzhovnik")
      /\ code = 0 => Genuine(msg)
      /\ code = 1 => ~Genuine(msg) \/ keys.pair = 0
  BY <1>3 DEF LibraryVerifies
<1>5. /\ status \in Statuses \ {"BUFFER_TOO_SMALL"}
      /\ status = "OK" =>
           /\ code = 0 /\ msg # NULL
           /\ IF algorithm = "shipovnik" THEN len <= SignatureBytes[algorithm]
                                         ELSE len = SignatureBytes[algorithm]
      /\ status = "BAD_ARG" => msg = NULL \/ Lengths(fn).pk # PublicKeyBytes[algorithm]
      /\ status = "INTERNAL" => algorithm = "kryzhovnik"
      /\ status = "INVALID_SIG" => code = 1 \/ ~LengthOf(len)
  BY <1>1, <1>4, VerifyAnswers
<1>6. last' = [fn |-> fn, status |-> status, result |-> CallbackResult(status),
               msg |-> msg, len |-> len]
  BY <1>3 DEF Call
<1>. HIDE DEF status
<1>7. IInv'
  <2>1. KeysInv' /\ SigInv'
    BY <1>1 DEF IInv, KeysInv, KeyLengths, SigInv, LengthOf
  <2>. QED  BY <1>1, <1>5, <1>6, <2>1, NullAssumption DEF IInv
<1>8. WritesFit'
  BY <1>6, <1>7 DEF WritesFit, IInv
<1>9. Genuine(msg) => sig.holds # Nothing /\ msg # NULL /\ LengthOf(sig.len)
  BY <1>1, NullAssumption DEF Genuine, Nothing, IInv, SigInv
<1>10. SignedVerifies'
  <2>. SUFFICES ASSUME len = sig.len, Genuine(msg), keys.pair # 0
                PROVE  \/ status = "OK"
                       \/ status = "INTERNAL" /\ algorithm = "kryzhovnik"
                       \/ status = "BAD_ARG" /\ Lengths(fn).pk = 0
    BY <1>1, <1>6 DEF SignedVerifies, Genuine, Lengths
  <2>1. status # "INVALID_SIG"
    BY <1>4, <1>5, <1>9
  <2>2. status = "BAD_ARG" => Lengths(fn).pk = 0
    <3>1. Lengths(fn) # NULL
      BY DEF Verify, Callable
    <3>2. Lengths(fn) \in {NoLengths, KeyLengths}
      BY <3>1 DEF Lengths, IInv, KeysInv
    <3>. QED  BY <1>5, <1>9, <3>2 DEF NoLengths, KeyLengths
  <2>. QED  BY <1>5, <2>1, <2>2 DEF Statuses
<1>11. OnlySigned'
  <2>. SUFFICES ASSUME status = "OK"
                PROVE  /\ Genuine(msg)
                       /\ \/ len = sig.len
                          \/ algorithm = "shipovnik" /\ len <= SignatureBytes[algorithm]
    BY <1>1, <1>6 DEF OnlySigned, Genuine, CallbackResult
  <2>1. Genuine(msg)
    BY <1>4, <1>5
  <2>. QED  BY <1>5, <1>9, <2>1 DEF LengthOf
<1>. QED  BY <1>7, <1>8, <1>10, <1>11 DEF Promises

------------------------------------------------------------------------------
\* IInv with the promises is inductive.
LEMMA Inductive == Spec => [](IInv /\ Promises)
<1>1. IInv /\ Promises /\ [Next]_vars => (IInv /\ Promises)'
  <2>. SUFFICES ASSUME IInv, Promises, [Next]_vars PROVE (IInv /\ Promises)'
    OBVIOUS
  <2>1. CASE Lookup
    BY <2>1, LookupKeeps
  <2>2. CASE Keygen
    BY <2>2, KeygenKeeps
  <2>3. CASE AdapterInit
    BY <2>3, AdapterInitKeeps
  <2>4. CASE Alter
    BY <2>4, AlterKeeps
  <2>5. ASSUME NEW fn \in {"sign", "sign_callback"}, Sign(fn) PROVE (IInv /\ Promises)'
    BY <2>5, SignKeeps
  <2>6. ASSUME NEW fn \in {"verify", "verify_callback"}, Verify(fn) PROVE (IInv /\ Promises)'
    BY <2>6, VerifyKeeps
  <2>7. CASE UNCHANGED vars
    BY <2>7 DEF vars, IInv, KeysInv, SigInv, KeyLengths, LengthOf, Promises, WritesFit,
                SignedVerifies, OnlySigned, Genuine, Lengths
  <2>. QED  BY <2>1, <2>2, <2>3, <2>4, <2>5, <2>6, <2>7 DEF Next
<1>. QED  BY <1>1, InitEstablishes, PTL DEF Spec

\* The lengths are those of the scheme, a pair was made before it is used, and the
\* signature in the buffer is of the scheme that was found.
THEOREM TypeCorrect == Spec => []TypeOK
<1>1. IInv => TypeOK
  BY NullAssumption DEF IInv, KeysInv, SigInv, TypeOK, NoLengths, KeyLengths
<1>. QED  BY <1>1, Inductive, PTL

\* No library is handed a short buffer, and a returned length fits its capacity,
\* whatever the sizes of the schemes are.
THEOREM WritesFitCorrect == Spec => []WritesFit
<1>1. Promises => WritesFit
  BY DEF Promises
<1>. QED  BY <1>1, Inductive, PTL

\* What was signed is never called invalid.
THEOREM SignedVerifiesCorrect == Spec => []SignedVerifies
<1>1. Promises => SignedVerifies
  BY DEF Promises
<1>. QED  BY <1>1, Inductive, PTL

\* Nothing is accepted that was not signed with the pair in the buffers.
THEOREM OnlySignedCorrect == Spec => []OnlySigned
<1>1. Promises => OnlySigned
  BY DEF Promises
<1>. QED  BY <1>1, Inductive, PTL
==============================================================================
