---------------------------- MODULE BenchSeqProofs ----------------------------
(***************************************************************************)
(* Theorems about BenchSeq, for any sizes, any command lines and batches   *)
(* of any length.                                                          *)
(***************************************************************************)
EXTENDS BenchSeq, TLAPS

LEMMA Remainder ==
  ASSUME NEW a \in Int, NEW b \in Nat \ {0}
  PROVE  a % b \in 0..(b - 1) /\ (a \in 0..(b - 1) => a % b = a)
  OBVIOUS

\* What is wrapped fits, and a number that fits does not wrap.
LEMMA NoWrap ==
  /\ \A n \in Int : Wrap(n) \in 0..SizeMax
  /\ \A n \in 0..SizeMax : Wrap(n) = n
<1>1. \A b \in Nat : /\ \A n \in Int : n % (b + 1) \in 0..b
                    /\ \A n \in 0..b : n % (b + 1) = n
  OBVIOUS
<1>. QED  BY <1>1, AddressAssumption DEF Wrap

\* Everything that is asked of the configuration: parse_args lets no zero through,
\* and whatever sign was typed, what it keeps fits a size_t.
ConfigOK ==
  /\ cfg.batch_size \in 1..SizeMax /\ cfg.iters \in 1..SizeMax /\ cfg.warmup \in 0..SizeMax

LEMMA ConfigsAre == cfg \in Args!ConfigsOf(Typed) => ConfigOK
<1>. SUFFICES ASSUME NEW t, Args!Accepts(t), cfg = Args!Parsed(t)
              PROVE  ConfigOK
  BY DEF Args!ConfigsOf
<1>1. /\ t.batch_size \in Int /\ t.iters \in Int /\ t.warmup \in Int
  BY AddressAssumption DEF Args!Accepts, Args!SizeParses
<1>2. \A n \in Int : Args!ParseSize(n) \in 0..SizeMax
  BY Remainder, AddressAssumption DEF Args!ParseSize
<1>3. cfg.batch_size # 0 /\ cfg.iters # 0
  BY DEF Args!Accepts
<1>4. /\ cfg.batch_size = Args!ParseSize(t.batch_size)
      /\ cfg.iters = Args!ParseSize(t.iters) /\ cfg.warmup = Args!ParseSize(t.warmup)
  BY DEF Args!Parsed
<1>. QED  BY <1>1, <1>2, <1>3, <1>4, AddressAssumption DEF ConfigOK

\* The slots of a batch have a size that does not wrap once its lengths were had.
LEMMA SlotsFit ==
  ASSUME ConfigOK, cfg.batch_size * PtrSize <= MallocMax
  PROVE  /\ cfg.batch_size * signature_bytes \in 0..SizeMax
         /\ Request("sigs") = cfg.batch_size * signature_bytes
<1> DEFINE n == cfg.batch_size
           total == n * signature_bytes
           most == MallocMax \div PtrSize
<1>1. n \in Nat /\ PtrSize \in Nat \ {0} /\ MallocMax \in Nat /\ signature_bytes \in Nat
      /\ SizeMax \in Nat
  BY AddressAssumption DEF ConfigOK
<1>2. most \in Nat /\ n <= most
  <2>1. \A a, c \in Nat, b \in Nat \ {0} : c * b <= a => a \div b \in Nat /\ c <= a \div b
    <3>. TAKE a, c \in Nat, b \in Nat \ {0}
    <3>. HAVE c * b <= a
    <3>1. /\ a = (a \div b) * b + (a % b) /\ a \div b \in Nat /\ a % b \in 0..(b - 1)
      OBVIOUS
    <3>2. SUFFICES ASSUME a \div b + 1 <= c PROVE FALSE
      BY <3>1
    <3>3. \A x \in Nat : x + 1 <= c => x * b + b <= c * b
      OBVIOUS
    <3>. QED  BY <3>1, <3>2, <3>3
  <2>. QED  BY <1>1, <2>1
<1>3. total \in Nat /\ total <= most * signature_bytes
  <2>. HIDE DEF most, n
  <2>1. \A a, b, c \in Nat : a <= b => a * c \in Nat /\ a * c <= b * c
    OBVIOUS
  <2>. QED  BY <1>1, <1>2, <2>1
<1>4. total \in 0..SizeMax
  BY <1>1, <1>2, <1>3, SlotAssumption
<1>5. Wrap(total) = total
  BY <1>1, <1>4, NoWrap
<1>. QED  BY <1>4, <1>5 DEF Request
------------------------------------------------------------------------------
\* What is between the blocks and the place of run_one: once all were had, the slots
\* are those of the whole batch.
Allocated ==
  at \in {"keygen", "loop", "sign", "copy"} =>
    /\ cfg.batch_size * PtrSize <= MallocMax
    /\ held["sigs"] = cfg.batch_size * signature_bytes

\* Where the signatures signed so far begin when they lie one behind the other.
Offsets(lens, n) ==
  {o \in [0..n -> Nat] :
     /\ o[0] = 0 /\ \A i \in 0..(n - 1) : o[i + 1] = o[i] + lens[i]
     /\ \A i \in 0..n : o[i] <= o[n]}

Lengthened(n) == \A i \in 0..(n - 1) : i \in DOMAIN sig_lens /\ sig_lens[i] \in 0..signature_bytes

\* While signing, the sum is the end of what was signed, in whole slots at most; while
\* copying, the cursor is where the next signature begins and the scratch buffer is
\* as large as the sum.
LaidOut ==
  /\ at = "sign" =>
       /\ Lengthened(slot) /\ batch_sig_bytes <= slot * signature_bytes
       /\ \E o \in Offsets(sig_lens, slot) : batch_sig_bytes = o[slot]
  /\ at = "copy" =>
       /\ Lengthened(cfg.batch_size) /\ held["serialized"] >= batch_sig_bytes
       /\ \E o \in Offsets(sig_lens, cfg.batch_size) :
            cursor = o[slot] /\ batch_sig_bytes = o[cfg.batch_size]

\* The iterations measured are those from warmup on.
Timed ==
  /\ timed = IF iteration <= cfg.warmup THEN 0 ELSE iteration - cfg.warmup
  /\ at \in {"sign", "copy"} => iteration < total_iters
  /\ at = "copy" => measured
  /\ status = "ok" => iteration = total_iters

\* The scratch buffer is live without a pointer only after a realloc that failed in an
\* iteration that is not the first one measured.
Scratch ==
  /\ held["serialized"] # 0 /\ at # "copy" => timed > 0
  /\ held["serialized"] # 0 /\ ~serialized /\ at # "fail" =>
       at \in {"free", "returned"} /\ status = "failed"
  /\ at = "returned" =>
       /\ \A b \in Buffers : held[b] = 0
       /\ held["serialized"] # 0 => ~serialized

IInv ==
  /\ ConfigOK /\ TypeOK /\ held \in [Buffers \cup {"serialized"} -> Nat]
  /\ Allocated /\ LaidOut /\ Timed /\ Scratch /\ cursor \in Nat
  /\ status = "ok" => at \in {"free", "returned"}

\* The initial states have it.
LEMMA InitEstablishes == Init => IInv
<1>. SUFFICES ASSUME Init PROVE IInv
  OBVIOUS
<1>. USE DEF Init
<1>1. ConfigOK
  BY ConfigsAre
<1>2. total_iters \in 0..SizeMax
  BY <1>1, NoWrap, AddressAssumption DEF ConfigOK, total_iters
<1>3. cfg.batch_size * signature_bytes \in Nat
  BY <1>1, AddressAssumption DEF ConfigOK
<1>4. TypeOK
  <2>1. /\ iteration \in 0..total_iters /\ timed \in 0..iteration
        /\ slot \in 0..cfg.batch_size
        /\ batch_sig_bytes \in 0..(cfg.batch_size * signature_bytes)
    BY <1>1, <1>2, <1>3, AddressAssumption DEF ConfigOK
  <2>2. at = "allocate" /\ status = "running" /\ serialized = FALSE
    OBVIOUS
  <2>. HIDE DEF Init
  <2>. QED  BY <2>1, <2>2 DEF TypeOK, Places
<1>5. Timed
  BY <1>1 DEF Timed, ConfigOK
<1>6. Allocated /\ LaidOut
  BY DEF Allocated, LaidOut
<1>7. Scratch
  BY DEF Scratch
<1>. QED  BY <1>1, <1>4, <1>5, <1>6, <1>7 DEF IInv

\* The facts about sizes that the steps use.
LEMMA Sizes ==
  ASSUME IInv
  PROVE  /\ cfg.batch_size \in Nat \ {0} /\ signature_bytes \in Nat \ {0} /\ SizeMax \in Nat
         /\ total_iters \in 0..SizeMax /\ cfg.warmup \in Nat /\ cfg.iters \in Nat \ {0}
         /\ slot \in 0..cfg.batch_size /\ iteration \in 0..total_iters /\ timed \in 0..iteration
         /\ batch_sig_bytes \in Nat /\ cursor \in Nat
         /\ cfg.batch_size * signature_bytes \in Nat
<1>1. ConfigOK /\ TypeOK /\ cursor \in Nat
  BY DEF IInv
<1>2. total_iters \in 0..SizeMax
  BY <1>1, NoWrap, AddressAssumption DEF ConfigOK, total_iters
<1>3. cfg.batch_size * signature_bytes \in Nat
  BY <1>1, AddressAssumption DEF ConfigOK
<1>. QED  BY <1>1, <1>2, <1>3, AddressAssumption DEF ConfigOK, TypeOK

LEMMA AllocateKeeps == IInv /\ Allocate => IInv'
<1>. SUFFICES ASSUME IInv, Allocate PROVE IInv'
  OBVIOUS
<1>1. PICK got \in SUBSET {b \in Buffers : Request(b) <= MallocMax} :
        /\ held' = [b \in DOMAIN held |-> IF b \in got THEN Request(b) ELSE 0]
        /\ at' = IF Checked \subseteq got THEN "keygen" ELSE "fail"
  BY DEF Allocate
<1>2. /\ at = "allocate" /\ at' \in {"keygen", "fail"}
      /\ UNCHANGED <<cfg, iteration, slot, sig_lens, batch_sig_bytes, cursor, timed, serialized, status>>
  BY <1>1 DEF Allocate, loop
<1>3. \A b \in Buffers : Request(b) \in Nat
  <2>1. cfg.batch_size \in Nat /\ PtrSize \in Nat /\ cfg.batch_size * signature_bytes \in Int
    BY Sizes, AddressAssumption
  <2>2. Wrap(cfg.batch_size * signature_bytes) \in Nat
    BY <2>1, NoWrap, AddressAssumption
  <2>. QED  BY <2>1, <2>2 DEF Request, Buffers
<1>4. held' \in [Buffers \cup {"serialized"} -> Nat] /\ held'["serialized"] = 0
  BY <1>1, <1>3 DEF IInv, Buffers
<1>5. Allocated'
  <2>. SUFFICES ASSUME at' = "keygen"
                PROVE  /\ cfg.batch_size * PtrSize <= MallocMax
                       /\ held'["sigs"] = cfg.batch_size * signature_bytes
    BY <1>2 DEF Allocated
  <2>1. "sigs" \in got /\ "sig_lens" \in got
    BY <1>1 DEF Checked, Buffers
  <2>2. cfg.batch_size * PtrSize <= MallocMax
    BY <2>1 DEF Request
  <2>3. held'["sigs"] = Request("sigs")
    BY <1>1, <2>1 DEF IInv, Buffers
  <2>. QED  BY <2>2, <2>3, SlotsFit DEF IInv
<1>6. LaidOut' /\ TypeOK' /\ Timed'
  BY <1>2 DEF IInv, LaidOut, TypeOK, Timed, total_iters, measured, Places
<1>7. Scratch' /\ ConfigOK'
  BY <1>2, <1>4 DEF IInv, Scratch, ConfigOK
<1>8. cursor' \in Nat /\ (status' = "ok" => at' \in {"free", "returned"})
  BY <1>2 DEF IInv
<1>. QED  BY <1>4, <1>5, <1>6, <1>7, <1>8 DEF IInv

LEMMA KeygenKeeps == IInv /\ Keygen => IInv'
<1>. SUFFICES ASSUME IInv, Keygen PROVE IInv'
  OBVIOUS
<1>1. /\ at = "keygen" /\ at' \in {"loop", "fail"}
      /\ UNCHANGED <<cfg, iteration, slot, sig_lens, batch_sig_bytes, cursor, timed, held, serialized, status>>
  BY DEF Keygen, loop
<1>. USE <1>1 DEF IInv
<1>2. LaidOut' /\ Allocated'
  BY DEF LaidOut, Allocated
<1>3. TypeOK' /\ Timed'
  BY DEF TypeOK, Timed, total_iters, measured, Places
<1>4. Scratch' /\ ConfigOK'
  BY DEF Scratch, ConfigOK
<1>. QED  BY <1>2, <1>3, <1>4

\* A new iteration starts with nothing signed: no offsets but that of slot 0.
LEMMA NewIterationKeeps == IInv /\ StartIteration => IInv'
<1>. SUFFICES ASSUME IInv, StartIteration PROVE IInv'
  OBVIOUS
<1>1. /\ at = "loop" /\ at' = "sign" /\ slot' = 0 /\ batch_sig_bytes' = 0 /\ iteration < total_iters
      /\ UNCHANGED <<cfg, iteration, sig_lens, cursor, timed, held, serialized, status>>
  BY DEF StartIteration, MoreIterations
<1>2. LaidOut'
  <2>1. Lengthened(slot)' /\ batch_sig_bytes' <= slot' * signature_bytes
    BY <1>1, Sizes DEF Lengthened
  <2>2. [i \in 0..0 |-> 0] \in Offsets(sig_lens', slot')
    BY <1>1 DEF Offsets
  <2>. QED  BY <1>1, <2>1, <2>2 DEF LaidOut
<1>3. TypeOK' /\ Timed'
  BY <1>1, Sizes DEF IInv, TypeOK, Timed, total_iters, measured, Places
<1>4. Scratch' /\ ConfigOK' /\ Allocated'
  BY <1>1 DEF IInv, Scratch, ConfigOK, Allocated
<1>. QED  BY <1>1, <1>2, <1>3, <1>4 DEF IInv

\* The next signature begins where the sum of the lengths so far ends.
LEMMA OneMore ==
  ASSUME NEW n \in Nat, NEW lens, NEW more, NEW o \in Offsets(lens, n), more[n] \in Nat,
         \A i \in 0..(n - 1) : more[i] = lens[i]
  PROVE  \E u \in Offsets(more, n + 1) : u[n + 1] = o[n] + more[n]
<1> DEFINE u == [i \in 0..(n + 1) |-> IF i <= n THEN o[i] ELSE o[n] + more[n]]
<1>1. /\ o \in [0..n -> Nat] /\ o[0] = 0 /\ \A i \in 0..(n - 1) : o[i + 1] = o[i] + lens[i]
      /\ \A i \in 0..n : o[i] <= o[n]
  BY DEF Offsets
<1>2. u \in [0..(n + 1) -> Nat] /\ u[0] = 0 /\ u[n + 1] = o[n] + more[n]
  BY <1>1
<1>3. \A i \in 0..n : u[i] = o[i] /\ o[i] \in Nat
  BY <1>1
<1>. HIDE DEF u
<1>4. \A i \in 0..((n + 1) - 1) : u[i + 1] = u[i] + more[i]
  <2>. TAKE i \in 0..((n + 1) - 1)
  <2>1. CASE i = n
    BY <1>2, <1>3, <2>1
  <2>2. CASE i # n
    BY <1>1, <1>3, <2>2
  <2>. QED  BY <2>1, <2>2
<1>5. \A i \in 0..(n + 1) : u[i] <= u[n + 1]
  <2>. TAKE i \in 0..(n + 1)
  <2>1. CASE i = n + 1
    BY <1>2, <2>1
  <2>2. CASE i # n + 1
    <3>1. i \in 0..n /\ n \in 0..n
      BY <2>2
    <3>2. u[i] = o[i] /\ o[i] \in Nat /\ o[n] \in Nat /\ o[i] <= o[n]
      BY <1>1, <1>3, <3>1
    <3>. QED  BY <1>2, <3>2
  <2>. QED  BY <2>1, <2>2
<1>6. u \in Offsets(more, n + 1)
  BY <1>2, <1>4, <1>5 DEF Offsets
<1>. QED  BY <1>2, <1>6

LEMMA SignMessageKeeps ==
  ASSUME IInv, NEW len \in Lengths, SignMessage(len)
  PROVE  IInv'
<1>1. /\ at = "sign" /\ slot < cfg.batch_size
      /\ UNCHANGED <<cfg, iteration, cursor, timed, held, serialized, status>>
  BY DEF SignMessage
<1>2. /\ ConfigOK' /\ (held \in [Buffers \cup {"serialized"} -> Nat])' /\ cursor' \in Nat
      /\ status' # "ok"
  BY <1>1 DEF IInv, ConfigOK
<1>3. CASE /\ sig_lens' = [s \in DOMAIN sig_lens \cup {slot} |-> IF s = slot THEN len ELSE sig_lens[s]]
           /\ batch_sig_bytes' = Wrap(batch_sig_bytes + len)
           /\ slot' = slot + 1 /\ at' = at
  <2>1. len \in 0..signature_bytes /\ len \in Nat
    BY AddressAssumption
  <2>2. Lengthened(slot) /\ batch_sig_bytes <= slot * signature_bytes
    BY <1>1 DEF IInv, LaidOut
  <2>3. PICK o \in Offsets(sig_lens, slot) : batch_sig_bytes = o[slot]
    BY <1>1 DEF IInv, LaidOut
  <2>4. /\ \A i \in 0..(slot - 1) : sig_lens'[i] = sig_lens[i] /\ i \in DOMAIN sig_lens'
        /\ sig_lens'[slot] = len /\ slot \in DOMAIN sig_lens'
    BY <1>3, <2>2, Sizes DEF Lengthened
  <2>5. Lengthened(slot)'
    <3>. SUFFICES ASSUME NEW i \in 0..(slot' - 1)
                  PROVE  i \in DOMAIN sig_lens' /\ sig_lens'[i] \in 0..signature_bytes
      BY DEF Lengthened
    <3>1. i = slot \/ i \in 0..(slot - 1)
      BY <1>3, Sizes
    <3>. QED  BY <2>1, <2>2, <2>4, <3>1 DEF Lengthened
  <2>6. /\ batch_sig_bytes + len <= slot' * signature_bytes
        /\ slot' * signature_bytes <= cfg.batch_size * signature_bytes
        /\ cfg.batch_size * signature_bytes \in 0..SizeMax
    <3>1. \A a, b, c \in Nat : a < b => (a + 1) * c = a * c + c /\ (a + 1) * c <= b * c
      <4>. TAKE a, b, c \in Nat
      <4>. HAVE a < b
      <4>1. PICK d \in Nat : b = a + 1 + d
        <5>1. b - a - 1 \in Nat
          OBVIOUS
        <5>. QED  BY <5>1
      <4>2. b * c = a * c + c + d * c /\ d * c \in Nat /\ a * c \in Nat
        BY <4>1
      <4>3. (a + 1) * c = a * c + c
        OBVIOUS
      <4>. QED  BY <4>2, <4>3
    <3>2. slot \in Nat /\ slot < cfg.batch_size /\ slot' = slot + 1
      BY <1>1, <1>3, Sizes
    <3>3. /\ slot' * signature_bytes = slot * signature_bytes + signature_bytes
          /\ slot' * signature_bytes <= cfg.batch_size * signature_bytes
          /\ slot * signature_bytes \in Nat
      BY <3>1, <3>2, Sizes
    <3>4. batch_sig_bytes + len <= slot' * signature_bytes
      BY <2>1, <2>2, <3>3, Sizes
    <3>5. cfg.batch_size * signature_bytes \in 0..SizeMax
      BY <1>1, SlotsFit DEF IInv, Allocated
    <3>. QED  BY <3>3, <3>4, <3>5
  <2>7. /\ batch_sig_bytes' = batch_sig_bytes + len
        /\ batch_sig_bytes' \in 0..(cfg.batch_size * signature_bytes)
        /\ batch_sig_bytes' <= slot' * signature_bytes
    <3>1. slot' * signature_bytes \in Int
      BY <1>3, Sizes
    <3>2. /\ batch_sig_bytes + len \in 0..SizeMax
          /\ batch_sig_bytes + len \in 0..(cfg.batch_size * signature_bytes)
      BY <2>1, <2>6, <3>1, Sizes
    <3>. QED  BY <1>3, <2>6, <3>2, NoWrap
  <2>8. LaidOut'
    <3>1. \E u \in Offsets(sig_lens', slot + 1) : u[slot + 1] = o[slot] + len
      BY <2>1, <2>3, <2>4, OneMore, Sizes
    <3>2. \E u \in Offsets(sig_lens', slot') : batch_sig_bytes' = u[slot']
      BY <1>3, <2>3, <2>7, <3>1
    <3>. QED  BY <1>1, <1>3, <2>5, <2>7, <3>2 DEF LaidOut
  <2>9. TypeOK'
    <3>1. slot' \in 0..cfg.batch_size
      BY <1>1, <1>3, Sizes
    <3>2. 0..(slot' - 1) \subseteq DOMAIN sig_lens'
      BY <2>5 DEF Lengthened
    <3>. QED  BY <1>1, <1>3, <2>7, <3>1, <3>2 DEF IInv, TypeOK, total_iters
  <2>10. Timed' /\ Scratch' /\ Allocated'
    BY <1>1, <1>3 DEF IInv, Timed, Scratch, Allocated, total_iters, measured
  <2>. QED  BY <1>2, <2>8, <2>9, <2>10 DEF IInv
<1>4. CASE at' = "fail" /\ UNCHANGED <<sig_lens, batch_sig_bytes, slot>>
  <2>1. TypeOK' /\ Timed'
    BY <1>1, <1>4 DEF IInv, TypeOK, Timed, total_iters, measured, Places
  <2>2. LaidOut' /\ Scratch' /\ Allocated'
    BY <1>1, <1>4 DEF IInv, LaidOut, Scratch, Allocated
  <2>. QED  BY <1>2, <2>1, <2>2 DEF IInv
<1>. QED  BY <1>3, <1>4 DEF SignMessage

\* What the end of an iteration does to the count of those measured.
LEMMA EndIterationCounts ==
  ASSUME IInv, EndIteration, at \in {"sign", "copy"}, UNCHANGED <<cfg, status>>
  PROVE  /\ Timed' /\ iteration' \in 0..total_iters /\ timed' \in 0..iteration'
         /\ measured => timed' > 0
         /\ timed > 0 => timed' > 0
<1>1. iteration < total_iters /\ status # "ok"
      /\ timed = IF iteration <= cfg.warmup THEN 0 ELSE iteration - cfg.warmup
  BY DEF IInv, Timed
<1>2. /\ at' = "loop" /\ iteration' = iteration + 1
      /\ timed' = IF iteration >= cfg.warmup THEN timed + 1 ELSE timed
  BY DEF EndIteration, measured
<1>3. /\ timed' = IF iteration' <= cfg.warmup THEN 0 ELSE iteration' - cfg.warmup
      /\ iteration' \in 0..total_iters /\ timed' \in 0..iteration'
      /\ iteration >= cfg.warmup => timed' > 0
      /\ timed > 0 => timed' > 0
  BY <1>1, <1>2, Sizes
<1>4. Timed'
  BY <1>1, <1>2, <1>3 DEF Timed
<1>. QED  BY <1>3, <1>4 DEF measured

LEMMA SignedAllKeeps == IInv /\ SignedAll => IInv'
<1>. SUFFICES ASSUME IInv, SignedAll PROVE IInv'
  OBVIOUS
<1>1. /\ at = "sign" /\ EndIteration /\ at' = "loop"
      /\ UNCHANGED <<cfg, slot, sig_lens, batch_sig_bytes, cursor, held, serialized, status>>
  BY DEF SignedAll, EndIteration
<1>2. Timed' /\ iteration' \in 0..total_iters /\ timed' \in 0..iteration' /\ (timed > 0 => timed' > 0)
  BY <1>1, EndIterationCounts
<1>3. TypeOK'
  BY <1>1, <1>2 DEF IInv, TypeOK, total_iters, Places
<1>4. LaidOut' /\ Allocated' /\ Scratch'
  BY <1>1, <1>2 DEF IInv, LaidOut, Allocated, Scratch
<1>. QED  BY <1>1, <1>2, <1>3, <1>4 DEF IInv, ConfigOK

LEMMA CopiedAllKeeps == IInv /\ CopiedAll => IInv'
<1>. SUFFICES ASSUME IInv, CopiedAll PROVE IInv'
  OBVIOUS
<1>1. /\ at = "copy" /\ EndIteration /\ at' = "loop"
      /\ UNCHANGED <<cfg, slot, sig_lens, batch_sig_bytes, cursor, held, serialized, status>>
  BY DEF CopiedAll, EndIteration
<1>2. measured
  BY <1>1 DEF IInv, Timed
<1>3. Timed' /\ iteration' \in 0..total_iters /\ timed' \in 0..iteration' /\ timed' > 0
  BY <1>1, <1>2, EndIterationCounts
<1>4. TypeOK'
  BY <1>1, <1>3 DEF IInv, TypeOK, total_iters, Places
<1>5. LaidOut' /\ Allocated' /\ Scratch'
  BY <1>1, <1>3 DEF IInv, LaidOut, Allocated, Scratch
<1>. QED  BY <1>1, <1>3, <1>4, <1>5 DEF IInv, ConfigOK

LEMMA GrowKeeps == IInv /\ Grow => IInv'
<1>. SUFFICES ASSUME IInv, Grow PROVE IInv'
  OBVIOUS
<1>1. /\ at = "sign" /\ slot = cfg.batch_size /\ measured
      /\ UNCHANGED <<cfg, iteration, sig_lens, batch_sig_bytes, timed, status>>
  BY DEF Grow
<1>2. status' # "ok" /\ ConfigOK'
  BY <1>1 DEF IInv, ConfigOK
<1>3. CASE /\ held' = [held EXCEPT !["serialized"] = ScratchSize]
           /\ serialized' = TRUE /\ at' = "copy" /\ slot' = 0 /\ cursor' = 0
  <2>1. ScratchSize \in Nat /\ ScratchSize >= batch_sig_bytes
    BY Sizes DEF ScratchSize
  <2>2. /\ held' \in [Buffers \cup {"serialized"} -> Nat] /\ held'["serialized"] >= batch_sig_bytes
        /\ held'["sigs"] = held["sigs"]
    <3>. HIDE DEF ScratchSize
    <3>. QED  BY <1>3, <2>1 DEF IInv, Buffers
  <2>3. PICK o \in Offsets(sig_lens, slot) : batch_sig_bytes = o[slot]
    BY <1>1 DEF IInv, LaidOut
  <2>4. o \in Offsets(sig_lens', cfg'.batch_size) /\ o[0] = 0
    BY <1>1, <2>3 DEF Offsets
  <2>5. LaidOut'
    BY <1>1, <1>3, <2>2, <2>3, <2>4 DEF IInv, LaidOut, Lengthened
  <2>6. 0..(cfg.batch_size - 1) \subseteq DOMAIN sig_lens
    BY <1>1 DEF IInv, LaidOut, Lengthened
  <2>7. slot' \in 0..cfg.batch_size
    BY <1>3, Sizes
  <2>8. TypeOK'
    BY <1>1, <1>3, <2>6, <2>7 DEF IInv, TypeOK, total_iters, Places
  <2>9. Timed' /\ Allocated' /\ Scratch'
    BY <1>1, <1>3, <2>2 DEF IInv, Timed, Allocated, Scratch, total_iters, measured
  <2>. QED  BY <1>2, <1>3, <2>2, <2>5, <2>8, <2>9 DEF IInv
<1>4. CASE serialized' = FALSE /\ at' = "fail" /\ UNCHANGED <<held, slot, cursor>>
  <2>1. TypeOK' /\ Timed'
    BY <1>1, <1>4 DEF IInv, TypeOK, Timed, total_iters, measured, Places
  <2>2. LaidOut' /\ Scratch' /\ Allocated'
    BY <1>1, <1>4 DEF IInv, LaidOut, Scratch, Allocated
  <2>. QED  BY <1>2, <1>4, <2>1, <2>2 DEF IInv
<1>. QED  BY <1>3, <1>4 DEF Grow

LEMMA CopySignatureKeeps == IInv /\ CopySignature => IInv'
<1>. SUFFICES ASSUME IInv, CopySignature PROVE IInv'
  OBVIOUS
<1>1. /\ at = "copy" /\ slot < cfg.batch_size /\ cursor' = cursor + sig_lens[slot] /\ slot' = slot + 1
      /\ UNCHANGED <<cfg, at, iteration, sig_lens, batch_sig_bytes, timed, held, serialized, status>>
  BY DEF CopySignature
<1>2. slot \in 0..(cfg.batch_size - 1) /\ slot' \in 0..cfg.batch_size
  BY <1>1, Sizes
<1>3. PICK o \in Offsets(sig_lens, cfg.batch_size) : cursor = o[slot] /\ batch_sig_bytes = o[cfg.batch_size]
  BY <1>1 DEF IInv, LaidOut
<1>4. cursor' = o[slot'] /\ cursor' \in Nat /\ o \in Offsets(sig_lens', cfg'.batch_size)
  BY <1>1, <1>2, <1>3 DEF Offsets
<1>5. LaidOut'
  BY <1>1, <1>3, <1>4 DEF IInv, LaidOut, Lengthened
<1>6. TypeOK' /\ Timed'
  BY <1>1, <1>2 DEF IInv, TypeOK, Timed, total_iters, measured
<1>7. Allocated' /\ Scratch' /\ ConfigOK'
  BY <1>1 DEF IInv, Allocated, Scratch, ConfigOK
<1>. QED  BY <1>1, <1>4, <1>5, <1>6, <1>7 DEF IInv

LEMMA FinishKeeps == IInv /\ Finish => IInv'
<1>. SUFFICES ASSUME IInv, Finish PROVE IInv'
  OBVIOUS
<1>1. /\ at \in {"loop", "fail"} /\ at' = "free"
      /\ status' = "ok" => at = "loop" /\ ~(iteration < total_iters)
      /\ status' \in {"ok", "failed"} /\ (at = "fail" => status' = "failed")
      /\ UNCHANGED <<cfg, iteration, slot, sig_lens, batch_sig_bytes, cursor, timed, held, serialized>>
  BY DEF Finish, MoreIterations, loop
<1>2. ~(iteration < total_iters) => iteration = total_iters
  <2>1. iteration \in Nat /\ total_iters \in Nat /\ iteration <= total_iters
    BY Sizes
  <2>. QED  BY <2>1
<1>3. Timed'
  BY <1>1, <1>2 DEF IInv, Timed, total_iters, measured
<1>4. TypeOK' /\ LaidOut' /\ Allocated' /\ Scratch' /\ ConfigOK'
  BY <1>1 DEF IInv, TypeOK, LaidOut, Allocated, Scratch, ConfigOK, total_iters, Places
<1>. QED  BY <1>1, <1>3, <1>4 DEF IInv

LEMMA FreeKeeps == IInv /\ Free => IInv'
<1>. SUFFICES ASSUME IInv, Free PROVE IInv'
  OBVIOUS
<1>1. /\ at = "free" /\ at' = "returned"
      /\ held' = [b \in DOMAIN held |-> IF b \in Freed THEN 0 ELSE held[b]]
      /\ UNCHANGED <<cfg, iteration, slot, sig_lens, batch_sig_bytes, cursor, timed, serialized, status>>
  BY DEF Free, loop
<1>2. /\ held' \in [Buffers \cup {"serialized"} -> Nat] /\ \A b \in Buffers : held'[b] = 0
      /\ held'["serialized"] # 0 => ~serialized /\ held["serialized"] # 0
  BY <1>1 DEF IInv, Freed, Buffers
<1>3. Scratch'
  BY <1>1, <1>2 DEF IInv, Scratch
<1>4. TypeOK' /\ LaidOut' /\ Allocated' /\ Timed' /\ ConfigOK'
  BY <1>1 DEF IInv, TypeOK, LaidOut, Allocated, Timed, ConfigOK, total_iters, measured, Places
<1>. QED  BY <1>1, <1>2, <1>3, <1>4 DEF IInv

LEMMA Inductive == IInv /\ [Next]_vars => IInv'
<1>. SUFFICES ASSUME IInv, [Next]_vars PROVE IInv'
  OBVIOUS
<1>1. CASE \E len \in Lengths : SignMessage(len)
  BY <1>1, SignMessageKeeps
<1>2. CASE Allocate \/ Keygen \/ StartIteration
  BY <1>2, AllocateKeeps, KeygenKeeps, NewIterationKeeps
<1>3. CASE SignedAll \/ Grow \/ CopySignature \/ CopiedAll
  BY <1>3, SignedAllKeeps, GrowKeeps, CopySignatureKeeps, CopiedAllKeeps
<1>4. CASE Finish \/ Free
  BY <1>4, FinishKeeps, FreeKeeps
<1>5. CASE UNCHANGED vars
  BY <1>5 DEF vars, loop, IInv, ConfigOK, TypeOK, Allocated, LaidOut, Lengthened, Offsets, Timed,
              Scratch, total_iters, measured
<1>. QED  BY <1>1, <1>2, <1>3, <1>4, <1>5 DEF Next
------------------------------------------------------------------------------
\* Whatever was typed and whatever the lengths that sign reports, the counters of
\* run_one stay in their ranges: the sum of the lengths never wraps.
THEOREM TypeCorrect == Spec => []TypeOK
<1>1. Init => IInv
  BY InitEstablishes
<1>2. IInv => TypeOK
  BY DEF IInv
<1>. QED  BY <1>1, <1>2, Inductive, PTL DEF Spec

\* Every signature is written inside its slot and copied inside the scratch buffer,
\* for a batch of any size: the product that is not checked wraps for no batch whose
\* lengths were allocated.
THEOREM WritesAreInside == Spec => []WritesInside
<1>1. Init => IInv
  BY InitEstablishes
<1>2. IInv => WritesInside
  <2>. SUFFICES ASSUME IInv PROVE WritesInside
    OBVIOUS
  <2>1. ASSUME at = "sign", slot < cfg.batch_size
        PROVE  (slot + 1) * signature_bytes <= held["sigs"]
    <3>1. \A a, b, c \in Nat : a <= b => a * c <= b * c
      OBVIOUS
    <3>2. slot + 1 \in Nat /\ slot + 1 <= cfg.batch_size
      BY <2>1, Sizes
    <3>3. held["sigs"] = cfg.batch_size * signature_bytes
      BY <2>1 DEF IInv, Allocated
    <3>. QED  BY <3>1, <3>2, <3>3, Sizes
  <2>2. ASSUME at = "copy", slot < cfg.batch_size
        PROVE  cursor + sig_lens[slot] <= held["serialized"]
    <3>1. PICK o \in Offsets(sig_lens, cfg.batch_size) : cursor = o[slot] /\ batch_sig_bytes = o[cfg.batch_size]
      BY <2>2 DEF IInv, LaidOut
    <3>2. slot \in 0..(cfg.batch_size - 1) /\ slot + 1 \in 0..cfg.batch_size
      BY <2>2, Sizes
    <3>3. cursor + sig_lens[slot] = o[slot + 1] /\ o[slot + 1] \in Nat
          /\ o[slot + 1] <= o[cfg.batch_size]
      BY <3>1, <3>2 DEF Offsets
    <3>4. held["serialized"] \in Nat /\ held["serialized"] >= batch_sig_bytes
      BY <2>2 DEF IInv, LaidOut, Buffers
    <3>. QED  BY <3>1, <3>3, <3>4, Sizes
  <2>. QED  BY <2>1, <2>2 DEF WritesInside
<1>. QED  BY <1>1, <1>2, Inductive, PTL DEF Spec

\* Whichever allocation, signature or iteration fails, run_one returns with nothing
\* lost but a scratch buffer whose realloc failed after a measured iteration.
THEOREM OnlyScratchLeaks == Spec => []LeaksOnlyScratch
<1>1. Init => IInv
  BY InitEstablishes
<1>2. IInv => LeaksOnlyScratch
  BY DEF IInv, Scratch, LeaksOnlyScratch
<1>. QED  BY <1>1, <1>2, Inductive, PTL DEF Spec

\* A run that is reported measured every iteration it was asked for or, when
\* warmup + iters wraps, none, for any numbers on the command line.
THEOREM AllOrNoneMeasured == Spec => []MeasuredAllOrNone
<1>1. Init => IInv
  BY InitEstablishes
<1>2. IInv => MeasuredAllOrNone
  <2>. SUFFICES ASSUME IInv, status = "ok"
                PROVE  timed = IF cfg.warmup + cfg.iters <= SizeMax THEN cfg.iters ELSE 0
    BY DEF MeasuredAllOrNone
  <2>1. /\ timed = IF iteration <= cfg.warmup THEN 0 ELSE iteration - cfg.warmup
        /\ iteration = Wrap(cfg.warmup + cfg.iters)
    BY DEF IInv, Timed, total_iters
  <2>2. /\ cfg.warmup \in 0..SizeMax /\ cfg.iters \in 1..SizeMax /\ SizeMax \in Nat
    BY AddressAssumption DEF IInv, ConfigOK
  <2>3. CASE cfg.warmup + cfg.iters <= SizeMax
    <3>1. cfg.warmup + cfg.iters \in 0..SizeMax
      BY <2>2, <2>3
    <3>2. iteration = cfg.warmup + cfg.iters
      BY <2>1, <3>1, NoWrap
    <3>. QED  BY <2>1, <2>2, <2>3, <3>2
  <2>4. CASE cfg.warmup + cfg.iters > SizeMax
    <3>1. \A b \in Nat : \A n \in (b + 1)..(2 * b) : n % (b + 1) = n - (b + 1)
      OBVIOUS
    <3>2. cfg.warmup + cfg.iters \in (SizeMax + 1)..(2 * SizeMax)
      BY <2>2, <2>4
    <3>3. iteration = cfg.warmup + cfg.iters - (SizeMax + 1)
      BY <2>1, <2>2, <3>1, <3>2 DEF Wrap
    <3>. QED  BY <2>1, <2>2, <2>4, <3>3
  <2>. QED  BY <2>2, <2>3, <2>4
<1>. QED  BY <1>1, <1>2, Inductive, PTL DEF Spec
------------------------------------------------------------------------------
\* How many more steps run_one can take at most: in an iteration what is left of its
\* two loops, before and between them all the iterations still to come.
Round == 2 * cfg.batch_size + 3
RoundLeft ==
  IF at = "sign" THEN (cfg.batch_size - slot) + cfg.batch_size + 2 ELSE (cfg.batch_size - slot) + 1
RunLeft ==
  CASE at = "allocate" -> (total_iters - iteration) * Round + 5
    [] at = "keygen" -> (total_iters - iteration) * Round + 4
    [] at = "loop" -> (total_iters - iteration) * Round + 3
    [] at \in {"sign", "copy"} -> (total_iters - (iteration + 1)) * Round + RoundLeft + 3
    [] at = "fail" -> 2
    [] at = "free" -> 1
    [] OTHER -> 0

Nearer == RunLeft' \in Nat /\ RunLeft' < RunLeft
LeftByPlace ==
  /\ at = "allocate" => RunLeft = (total_iters - iteration) * Round + 5
  /\ at = "keygen" => RunLeft = (total_iters - iteration) * Round + 4
  /\ at = "loop" => RunLeft = (total_iters - iteration) * Round + 3
  /\ at \in {"sign", "copy"} => RunLeft = (total_iters - (iteration + 1)) * Round + RoundLeft + 3
  /\ at = "fail" => RunLeft = 2
  /\ at = "free" => RunLeft = 1
  /\ at = "returned" => RunLeft = 0

LEMMA LeftIs == LeftByPlace
<1>1. /\ at = "allocate" => RunLeft = (total_iters - iteration) * Round + 5
      /\ at = "keygen" => RunLeft = (total_iters - iteration) * Round + 4
      /\ at = "loop" => RunLeft = (total_iters - iteration) * Round + 3
  BY DEF RunLeft
<1>2. at \in {"sign", "copy"} => RunLeft = (total_iters - (iteration + 1)) * Round + RoundLeft + 3
  BY DEF RunLeft
<1>3. /\ at = "fail" => RunLeft = 2
      /\ at = "free" => RunLeft = 1
      /\ at = "returned" => RunLeft = 0
  BY DEF RunLeft
<1>. QED  BY <1>1, <1>2, <1>3 DEF LeftByPlace

LEMMA LeftWillBe == LeftByPlace'
  BY LeftIs, PTL

\* The rounds to come, and one of them taken off.
LEMMA RoundsAre ==
  ASSUME IInv
  PROVE  /\ (total_iters - iteration) * Round \in Nat
         /\ iteration < total_iters =>
              /\ (total_iters - (iteration + 1)) * Round \in Nat
              /\ (total_iters - iteration) * Round = (total_iters - (iteration + 1)) * Round + Round
<1>1. /\ cfg.batch_size \in Nat /\ total_iters \in Nat /\ iteration \in Nat
      /\ iteration <= total_iters
  <2>1. /\ cfg.batch_size \in Nat \ {0} /\ SizeMax \in Nat /\ total_iters \in 0..SizeMax
        /\ iteration \in 0..total_iters
    BY Sizes
  <2>. QED  BY <2>1
<1>2. Round \in Nat
  BY <1>1 DEF Round
<1>3. \A n, r \in Nat : n * r \in Nat
  OBVIOUS
<1>4. \A n, r \in Nat : (n + 1) * r = n * r + r
  OBVIOUS
<1>5. total_iters - iteration \in Nat
  BY <1>1
<1>6. (total_iters - iteration) * Round \in Nat
  BY <1>2, <1>3, <1>5, Zenon
<1>7. ASSUME iteration < total_iters
      PROVE  /\ (total_iters - (iteration + 1)) * Round \in Nat
             /\ (total_iters - iteration) * Round = (total_iters - (iteration + 1)) * Round + Round
  <2>1. PICK n \in Nat : n = total_iters - (iteration + 1)
    BY <1>1, <1>7
  <2>2. total_iters - iteration = n + 1
    BY <1>1, <2>1
  <2>3. n * Round \in Nat /\ (n + 1) * Round = n * Round + Round
    BY <1>2, <1>3, <1>4
  <2>. QED  BY <2>1, <2>2, <2>3, Zenon
<1>. QED  BY <1>6, <1>7

LEMMA RoundsStay == UNCHANGED cfg => total_iters' = total_iters /\ Round' = Round
  BY DEF total_iters, Round

\* A step within an iteration, to a later place of it or to "fail".
LEMMA WithinRound ==
  ASSUME IInv, at \in {"sign", "copy"}, UNCHANGED <<cfg, iteration>>,
         \/ at' = "fail"
         \/ at' \in {"sign", "copy"} /\ RoundLeft' \in Nat /\ RoundLeft' < RoundLeft
  PROVE  Nearer
<1>1. iteration < total_iters
  BY DEF IInv, Timed
<1>2. PICK rest \in Nat : rest = (total_iters - (iteration + 1)) * Round
  BY <1>1, RoundsAre
<1>3. RunLeft = rest + RoundLeft + 3
  BY <1>2, LeftIs DEF LeftByPlace
<1>4. RoundLeft \in Nat
  <2>1. cfg.batch_size \in Nat /\ slot \in 0..cfg.batch_size
    BY Sizes
  <2>. QED  BY <2>1 DEF RoundLeft
<1>5. CASE at' = "fail"
  <2>1. RunLeft' = 2
    BY <1>5, LeftWillBe DEF LeftByPlace
  <2>. QED  BY <1>3, <1>4, <2>1 DEF Nearer
<1>6. CASE at' \in {"sign", "copy"} /\ RoundLeft' \in Nat /\ RoundLeft' < RoundLeft
  <2>1. RunLeft' = (total_iters' - (iteration' + 1)) * Round' + RoundLeft' + 3
    BY <1>6, LeftWillBe DEF LeftByPlace
  <2>2. RunLeft' = rest + RoundLeft' + 3
    BY <1>2, <2>1, RoundsStay
  <2>3. \A r, m, n \in Nat : n < m => r + n + 3 \in Nat /\ r + n + 3 < r + m + 3
    OBVIOUS
  <2>4. rest + RoundLeft' + 3 \in Nat /\ rest + RoundLeft' + 3 < rest + RoundLeft + 3
    BY <1>4, <1>6, <2>3, Zenon
  <2>. QED  BY <1>3, <2>2, <2>4, Zenon DEF Nearer
<1>. QED  BY <1>5, <1>6

LEMMA BeforeRoundsCloser ==
  ASSUME IInv, UNCHANGED <<cfg, iteration>>,
         \/ at = "allocate" /\ at' \in {"keygen", "fail"}
         \/ at = "keygen" /\ at' \in {"loop", "fail"}
         \/ at = "loop" /\ at' = "free"
         \/ at = "fail" /\ at' = "free"
         \/ at = "free" /\ at' = "returned"
  PROVE  Nearer
<1>1. PICK rest \in Nat : rest = (total_iters - iteration) * Round
  BY RoundsAre
<1>2. (total_iters' - iteration') * Round' = rest
  BY <1>1, RoundsStay
<1>3. /\ at = "allocate" => RunLeft = rest + 5
      /\ at = "keygen" => RunLeft = rest + 4
      /\ at = "loop" => RunLeft = rest + 3
      /\ at = "fail" => RunLeft = 2
      /\ at = "free" => RunLeft = 1
  BY <1>1, LeftIs DEF LeftByPlace
<1>4. /\ at' = "keygen" => RunLeft' = rest + 4
      /\ at' = "loop" => RunLeft' = rest + 3
      /\ at' = "fail" => RunLeft' = 2
      /\ at' = "free" => RunLeft' = 1
      /\ at' = "returned" => RunLeft' = 0
  BY <1>2, LeftWillBe DEF LeftByPlace
<1>5. CASE at \in {"allocate", "keygen"}
  BY <1>3, <1>4, <1>5 DEF Nearer
<1>6. CASE at \in {"loop", "fail", "free"}
  BY <1>3, <1>4, <1>6 DEF Nearer
<1>. QED  BY <1>5, <1>6

LEMMA StartCloser == IInv /\ StartIteration => Nearer
<1>. SUFFICES ASSUME IInv, StartIteration PROVE Nearer
  OBVIOUS
<1>1. /\ at = "loop" /\ at' = "sign" /\ iteration < total_iters /\ slot' = 0
      /\ UNCHANGED <<cfg, iteration>>
  BY DEF StartIteration, MoreIterations
<1>2. PICK rest \in Nat : rest = (total_iters - (iteration + 1)) * Round
  BY <1>1, RoundsAre
<1>3. RunLeft = (rest + Round) + 3
  BY <1>1, <1>2, RoundsAre, LeftIs DEF LeftByPlace
<1>4. (total_iters' - (iteration' + 1)) * Round' = rest
  BY <1>1, <1>2, RoundsStay
<1>5. RoundLeft' = (cfg.batch_size - 0) + cfg.batch_size + 2
  BY <1>1 DEF RoundLeft
<1>6. RunLeft' = rest + RoundLeft' + 3
  BY <1>1, <1>4, LeftWillBe DEF LeftByPlace
<1>7. cfg.batch_size \in Nat
  BY Sizes
<1>. QED  BY <1>3, <1>5, <1>6, <1>7 DEF Nearer, Round

\* A step of one of the two loops, or from the first to the second.
LEMMA LoopsCloser ==
  ASSUME IInv, (\E len \in Lengths : SignMessage(len)) \/ Grow \/ CopySignature
  PROVE  Nearer
<1>1. UNCHANGED <<cfg, iteration>> /\ at \in {"sign", "copy"}
  BY DEF SignMessage, Grow, CopySignature
<1>2. \/ at' = "fail"
      \/ at = "sign" /\ at' = "sign" /\ slot < cfg.batch_size /\ slot' = slot + 1
      \/ at = "sign" /\ at' = "copy" /\ slot = cfg.batch_size /\ slot' = 0
      \/ at = "copy" /\ at' = "copy" /\ slot < cfg.batch_size /\ slot' = slot + 1
  BY DEF SignMessage, Grow, CopySignature
<1>3. /\ at = "sign" => RoundLeft = (cfg.batch_size - slot) + cfg.batch_size + 2
      /\ at = "copy" => RoundLeft = (cfg.batch_size - slot) + 1
      /\ at' = "sign" => RoundLeft' = (cfg.batch_size - slot') + cfg.batch_size + 2
      /\ at' = "copy" => RoundLeft' = (cfg.batch_size - slot') + 1
  BY <1>1 DEF RoundLeft
<1>4. cfg.batch_size \in Nat /\ slot \in 0..cfg.batch_size
  BY Sizes
<1>5. CASE at = "sign" /\ at' = "sign" /\ slot < cfg.batch_size /\ slot' = slot + 1
  <2>1. RoundLeft' \in Nat /\ RoundLeft' < RoundLeft
    BY <1>3, <1>4, <1>5
  <2>. QED  BY <1>1, <1>5, <2>1, WithinRound
<1>6. CASE at = "sign" /\ at' = "copy" /\ slot = cfg.batch_size /\ slot' = 0
  <2>1. RoundLeft' \in Nat /\ RoundLeft' < RoundLeft
    BY <1>3, <1>4, <1>6
  <2>. QED  BY <1>1, <1>6, <2>1, WithinRound
<1>7. CASE at = "copy" /\ at' = "copy" /\ slot < cfg.batch_size /\ slot' = slot + 1
  <2>1. RoundLeft' \in Nat /\ RoundLeft' < RoundLeft
    BY <1>3, <1>4, <1>7
  <2>. QED  BY <1>1, <1>7, <2>1, WithinRound
<1>8. CASE at' = "fail"
  BY <1>1, <1>8, WithinRound
<1>. QED  BY <1>2, <1>5, <1>6, <1>7, <1>8

LEMMA EndIterationCloser == IInv /\ (SignedAll \/ CopiedAll) => Nearer
<1>. SUFFICES ASSUME IInv, SignedAll \/ CopiedAll PROVE Nearer
  OBVIOUS
<1>1. /\ at \in {"sign", "copy"} /\ at' = "loop" /\ iteration' = iteration + 1
      /\ UNCHANGED cfg
  BY DEF SignedAll, CopiedAll, EndIteration
<1>2. iteration < total_iters
  BY <1>1 DEF IInv, Timed
<1>3. PICK rest \in Nat : rest = (total_iters - (iteration + 1)) * Round
  BY <1>2, RoundsAre
<1>4. RunLeft = rest + RoundLeft + 3
  BY <1>1, <1>3, LeftIs DEF LeftByPlace
<1>5. RoundLeft \in Nat \ {0}
  <2>1. cfg.batch_size \in Nat /\ slot \in 0..cfg.batch_size
    BY Sizes
  <2>. QED  BY <2>1 DEF RoundLeft
<1>6. RunLeft' = rest + 3
  BY <1>1, <1>3, RoundsStay, LeftWillBe DEF LeftByPlace
<1>. QED  BY <1>4, <1>5, <1>6 DEF Nearer

LEMMA RunIsCloser == IInv /\ Next => Nearer
<1>. SUFFICES ASSUME IInv, Next PROVE Nearer
  OBVIOUS
<1>1. CASE Allocate \/ Keygen \/ Finish \/ Free
  BY <1>1, BeforeRoundsCloser DEF Allocate, Keygen, Finish, Free, loop
<1>2. CASE (\E len \in Lengths : SignMessage(len)) \/ Grow \/ CopySignature
  BY <1>2, LoopsCloser
<1>. QED  BY <1>1, <1>2, StartCloser, EndIterationCloser DEF Next

\* run_one of the sequential benchmark returns after at most as many steps as warmup +
\* iters (wrapped to size_t) rounds of 2 * batch_size + 3 steps take, and 5 more,
\* whichever allocation or signature fails and whatever was typed.
THEOREM RunEnds ==
  Spec => [][/\ at = "allocate" => RunLeft = total_iters * (2 * cfg.batch_size + 3) + 5
             /\ RunLeft' \in Nat /\ RunLeft' < RunLeft]_vars
<1>. DEFINE AtFirst == at = "allocate" => iteration = 0
<1>1. Init => IInv /\ AtFirst
  BY InitEstablishes DEF Init
<1>2. AtFirst /\ [Next]_vars => AtFirst'
  <2>1. UNCHANGED vars => at' = at /\ iteration' = iteration
    BY DEF vars, loop
  <2>2. Allocate \/ Keygen \/ StartIteration \/ SignedAll \/ Grow \/ Finish \/ Free =>
          at' # "allocate"
    BY DEF Allocate, Keygen, StartIteration, SignedAll, EndIteration, Grow, Finish, Free
  <2>3. (\E len \in Lengths : SignMessage(len)) \/ CopySignature \/ CopiedAll => at' # "allocate"
    BY DEF SignMessage, CopySignature, CopiedAll, EndIteration
  <2>. QED  BY <2>1, <2>2, <2>3 DEF Next
<1>3. IInv /\ AtFirst /\ Next =>
        /\ at = "allocate" => RunLeft = total_iters * (2 * cfg.batch_size + 3) + 5
        /\ RunLeft' \in Nat /\ RunLeft' < RunLeft
  <2>. SUFFICES ASSUME IInv, AtFirst, Next
                PROVE  /\ at = "allocate" => RunLeft = total_iters * (2 * cfg.batch_size + 3) + 5
                       /\ RunLeft' \in Nat /\ RunLeft' < RunLeft
    OBVIOUS
  <2>1. at = "allocate" => RunLeft = (total_iters - 0) * Round + 5
    BY LeftIs DEF LeftByPlace
  <2>2. total_iters - 0 = total_iters
    BY Sizes
  <2>. QED  BY <2>1, <2>2, RunIsCloser DEF Nearer, Round
<1>. QED  BY <1>1, <1>2, <1>3, Inductive, PTL DEF Spec
==============================================================================
