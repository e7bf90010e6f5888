# Verification of batch-pqc

TLA+ models of the batch signing library in `src/src` and of the programs
around it, checked with TLC on small instances, with theorems that TLAPS proves
for every value of the constants. Line numbers refer to the files under `src/`.

## 1. The system

A *batch signer* collects messages, hashes each one, builds a Merkle tree over
the digests and has one expensive post-quantum signature made of the root. The
result, a *batch signature*, holds the root, its signature and one path per
message. It can be written to bytes and read back, and verified against the
whole batch. Everything is single-threaded C that allocates with `malloc` and
must survive the failure of any allocation or callback.

| Component | State | Operations | Used by |
|---|---|---|---|
| Merkle tree (`src/src/merkle/merkle.c`) | node array, capacity, number of leaves; paths owned by the caller | create, destroy, set_leaf, build, root, get_proof, free_proof, verify_proof | signer, verifier |
| Hash callback (`batch_hash_fn`) | none | one hash | tree, signer, verifier |
| Batch signer (`src/src/batch_signing.c`) | two growing arrays (copies, lengths), count, capacity | create, add_message, reset, sign, free | benchmark, tests |
| Batch signature (same file) | root, root signature, paths | batch_verify, free | benchmark, tests |
| Wire format (same file) | a cursor over a buffer | serialize (size query, then bytes), deserialize | benchmark, tests |
| Callback adapters (`batch_adapters.c`) | borrowed keys | init, sign and verify callbacks | benchmark, signer |
| Signature adapters and registry (`src/src/signature`) | none of their own | keygen, sign, verify of three schemes; lookup | adapters, benchmarks |
| Benchmarks (`src/bench`) | a signer, the last signature, buffers | run_one: warm-up and measured iterations | benchmark.sh |
| Driver (`src/scripts/benchmark.sh`) | files in the results directory | run_one: skip, run, publish by rename | a user |
| Timer, message generator, plots, estimates, set-up | none that matters here | | |

What is hard here, and what correctness means:

* **Tree.** A caller may call in any order: `set_leaf` after `build` leaves
  stale nodes, paths outlive the tree, an index may be set twice or with gaps.
  Sizes are products of `size_t`. *Correct*: a published root commits to all
  leaves, honest paths verify, a path of the tree's depth proves no other leaf, sizes
  do not wrap, nothing leaks, every loop ends.
* **Signer.** Ten points of `sign` can fail and each one frees another set of
  blocks; `reset` clears the cells but not their lengths; an empty path and a
  failed `get_proof` are both `NULL`; the root points into the tree that is
  about to go. *Correct*: whatever fails and whatever happened to the signer
  before or happens after, a signature verifies for the batch it was made of
  and for no other, with no leak, double free or use of freed memory.
* **Wire format.** Lengths read from a blob drive what is read next.
  *Correct*: what is written reads back, nothing cut short or extended is
  accepted, failures leave nothing allocated.
* **Benchmarks and driver.** One signer and one signature live through many
  iterations; the driver publishes two files with two renames and may be
  stopped between them and started again. *Correct*: a published pair belongs
  to one run, but for a stop between the renames; a completed run leaves every pair in place.

## 2. The modules

| Module | Models | Built on |
|---|---|---|
| `Hashing` | the hash callback: an ideal hash, a free constructor that never returns the zero digest | |
| `MerkleOps` | what the loops of `merkle.c` compute, as functions | `Hashing` |
| `MerkleOpsProofs` | what those functions return, and the induction all proofs use | `MerkleOps` |
| `MerkleTree` | `merkle.c`, one step per loop iteration | `MerkleOps` |
| `MCMerkleTree` | instances of it | `MerkleTree` |
| `MerkleTreeProofs` | its theorems | `MerkleTree`, `MerkleOpsProofs` |
| `BatchNotary` | abstract: what a signer promises | |
| `BatchSigner` | the signer, the signature and `batch_verify` | `MerkleOps`, `BatchNotary` |
| `MCBatchSigner` | instances of it | `BatchSigner` |
| `BatchSignerProofs` | its theorems | `BatchSigner`, `MerkleOpsProofs` |
| `WireFormat` | serialize and deserialize, over every file | |
| `MCWireFormat` | instances of it | `WireFormat` |
| `WireFormatProofs` | its theorems | `WireFormat`, `MerkleOpsProofs` |
| `Adapters` | the registry, the adapters of the three schemes, the callbacks | |
| `AdaptersProofs` | its theorems | `Adapters` |
| `BenchArgs` | the options of the benchmarks | |
| `BenchBatch` | `run_one` of `bench_batch.c` over a signer | `BatchSigner`, `BenchArgs` |
| `BenchBatchProofs` | its theorems | `BenchBatch`, `BatchSignerProofs` |
| `BenchSeq` | `run_one` of `bench_seq.c` | `BenchArgs` |
| `BenchSeqProofs` | its theorems | `BenchSeq` |
| `BenchMain` | `main` of both benchmarks and their two files | |
| `BenchScript` | `benchmark.sh` over a benchmark, and the join of `plot_results.py` | `BenchMain` |
| `BenchScriptProofs` | theorems of `BenchMain` and, over their lemmas, of `BenchScript` | `BenchScript` |
| `MCAdapters`, `MCBenchBatch`, `MCBenchSeq`, `MCBenchMain`, `MCBenchScript` | instances of them | |

Operators marked *Seeded fault* are plausible bugs. None is used by a
specification; each documents a change of the definition below it that breaks a
property, so that no property holds for want of something to catch.

### MerkleTree

`call` is the one running call with its local variables (`call.fn` names the
function), `leaf_capacity`, `num_leaves` and `tree` are `struct merkle_tree`,
`proof` what the last `get_proof` returned. `heap` is the set of live blocks by
role. Each C function is a chain of steps: `Create` enters
`next_power_of_two`, `DoublePower` is one iteration, `PowerOverflows` its early
return, `AllocateNodes` and `AllocateTree` (or their `Fails`) the rest. `Build`,
`BuildNode`, `BuildDone`; `GetProof`, `GrowProof` (the realloc), `TakeSibling` (the
malloc and the copy) or `TakeSiblingFails` (either), `ProofDone`; `VerifyProof`,
`FoldSibling`, `VerifyDone` follow the same
pattern. `size_t` arithmetic is modulo `SizeMax + 1`. `verify_proof` has no tree: digest, path, length and index are the
caller's (`Verify`). A caller holds what `get_proof` returned, may overwrite any of it
(`CorruptProof`), and passes any piece of it, of any length down to none, or all of it and one
element more (`PathsHeld`), as the leaf any digest, inner nodes and the root among them
(`Claims`).

Ghost variables: `committed` holds the nodes after the last `build`, so
`committed[1]` is the root that was published; `proof.width` and `proof.trail`
hold the levels and nodes the walk of `get_proof` passed, `proof.source` the
tree it was read from if that was the published one.

Properties: `TypeOK`; `CapacityLeast` (least power of two, sizes not wrapped);
`RootCommits`; `Completeness`; `Binding`; `HeapOwned`; `CallsReturn`; and
`LoopsComputeOps`, which ties
the loops to `MerkleOps` and so justifies that `BatchSigner` uses the
functions. These (`Power`, `LeafCapacity`, `Depth`, `BuiltTree`, `ProofPath`, `Folded`, ...) are
recursive functions over numbers, so that theorems can be stated of them.

`Binding` is about paths of any length, as `verify_proof` is. It says of an accepted path that every
digest the loop ran through is the published one of the node it claims to be: after `i` of `len`
elements, the node `len - i` levels below the root in the slot that the index, modulo `2^len`, says.
What that means depends on the length. With as many elements as the tree is
deep, the path proves the published leaf at the index modulo the capacity and no other digest.
With fewer, **it proves an inner node**: leaves and inner nodes are hashed by the same
function, with nothing to tell them apart, and no line compares the length with the depth, so the loop ends early
at the root and the digest it began with was a node of that height; with none, the root itself is accepted.
With more, it leads below the leaves, where the model has no nodes: what the loop reaches at the
height of the leaves must then be a published leaf, so the path proves only what that leaf was hashed from.
In the program the lengths come from `get_proof`, or from a file: `deserialize` reads one for
each path and `batch_verify` passes it on. `batch_verify` begins with the digest of a message, so that a path of
another length is of use there only to a message whose digest is an inner node, that is, one that consists of two digests.
`ImplementsNotary` does not speak of such signatures: it is about the ones `sign` makes.

### BatchSigner

`capacity`, `num_msgs`, `messages`, `msg_lens` are `struct batch_signer`;
`pc`, `k`, `leaf_hashes`, `tree` and `draft` are the locals of `batch_signer_sign`,
which takes one step per allocation, callback or loop iteration and, at its end, one for the copy of the
root (`CopyRoot`), one for the end of the tree (`DestroyTree`) and one for the leaves and the return (`SignDone`), so that
their order matters; `sig` is the
signature it returned. `SignFails` is the failure at the current step, and
`Cleanup` is what each failure path frees, path by path from lines 232 to 354.
`CreateFails` and `GrowFails` are the failures of `create` and of a growth: the blocks each one got before
are any subset that its order of asking allows, and what it frees of them is an operator of its own
(`CreateFrees`, `NewArray`).
Every free and every read through a pointer goes through `Frees`, `FailsFreeing` or
`AllocatesReading`, which set `fault` when the block is not live.

`BatchNotary` knows a batch and the set of batches the outstanding signature
is accepted for: `Sign` makes that set `{batch}`, and only a new signature or its
disposal changes it. `ImplementsNotary` maps `batch` to the messages in the
cells (through pointer and length, as `sign` hashes them) and `accepted` to the
batches of up to one message more than were signed that `batch_verify` accepts.
So one property covers growth, stale lengths, the empty message, failures, and
the exactness of `batch_verify`.

Left out: `NULL` arguments (early returns without effect); a second outstanding
signature (nothing is shared between two); failures before anything was allocated or changed
(the first `malloc` of `sign`, a size that does not fit in `grow`), which are
stuttering steps. `batch_verify` is a function here; its steps are in `BenchBatch`.

### WireFormat

`serialize` computes, so it is a set of operators: `Needed` is its first pass,
`Encode` the bytes of its second, `SerializeReply` what it returns for a size query
(`NoRoom`) or a buffer. `deserialize` is a machine: `pc` is its place, `data` what
it has read, so that `Left` is `end - ptr`; `n`, `root_hash`, `root_signature`,
`proofs`, `siblings` and `proof_len` are the signature so far. Each allocation, each
comparison and each iteration is a step with its failing alternatives, and every
`Rejects(S)` frees just the blocks that failure path frees. A file is any
sequence of bytes of one of the given lengths: a byte is chosen when it is first
read, so the model covers the file `serialize` wrote, every shortened, extended or
altered one and every other. The widths are constants: bytes of `Base` values,
words of `WordSize` bytes, pointers of `PtrSize`, `SIZE_MAX`. After a file is
accepted the caller may serialize the result (`Serialize`) and frees it (`Free`).

Properties: `TypeOK`, of which the point is that the cursor stays in the file and
that the digests still owed are still there; `Canonical`, decode then encode:
what is accepted is the one file `serialize` makes of the result, size query and
write agree, and what cannot be written again is only the signature without a root
signature, which `deserialize` accepts, and one of digests longer than a `uint32_t`
says, whose length `deserialize` cuts to 32 bits before it compares it; `RoundTrip`, encode then decode:
nothing `serialize` writes of a signature from `sign` is rejected unless a
`malloc` fails; `NoLeak` and `NoFault`. `Readable` is what `RoundTrip` needs of a
signature; `ReadableAssumption` has TLC check, in both instances, that the signatures
have all of it but the last conjunct, `Uncut`, for files that are long enough.

**Finding.** `RoundTrip` fails where line 460 casts a quotient to `uint32_t` before
it compares it with `num_proofs`. With 16 GiB or more left the cast loses the high bits,
and a file that `serialize` wrote is rejected: with digests of 32 bytes,
21,368,000 messages make such a file, of which just over 2^34 bytes are left at that
line. The test of the round trip (`src/tests/test_batch_signing.c:143`) states no
bound. The run `wire_truncates` shows it with words of two bits.

Left out: `NULL` arguments and `hash_size` 0 (early returns without effect). The
bytes of digests are chosen from `Payload`, the numbers in a file from `Values`.

### Adapters

`algorithm` is the entry of the registry that was found, `keys` the two key
buffers, `lens` the lengths `keygen` reported to its caller, `ctx` the
`batch_bb_adapter_ctx` (addresses of the buffers, a copy of the lengths), `sig` a
signature buffer. Each adapter has an operator of its own (`HypericumSign`,
`ShipovnikVerify`, ...), as their checks differ: hypericum wants one length from
its library and from its caller, shipovnik takes any up to its largest and does not
hand it on, kryzhovnik passes on the length its library reports and tells three
codes apart. `Sign` and `Verify` are called through the callbacks, with the lengths in
`ctx`, and directly, as `bench_seq.c` and the smoke test do. The schemes are ideal: a
signature is the scheme, the key pair and the message it was made with. A
library may fail; a generation that fails leaves a pair (0) that promises nothing.
kryzhovnik's library is relied on for its one signature length, which no line of
the adapter checks (`LibraryLengths`).

`WritesFit` and `OnlySigned` are what `BatchSigner` assumes of its callbacks
(`SignCallback`, the last conjunct of `BatchVerify`).

### BenchBatch and BenchArgs

`BenchBatch` extends `BatchSigner` and is the composition: each step of `run_one`
(`at`) is one step of the signer, of the harness or of both, in program order, so that
every failure inside the signer reaches the `goto fail` of line 385. `batch` is
`messages_buf` as far as it is filled, `held` the blocks of `run_one`, `heap` those of the
signer, `timed` the iterations that were measured to their end. Of `batch_verify` there is one step for each
message (`VerifyMessage`: the three blocks it and `merkle_tree_verify_proof` ask for, any of which may not be
had, and what they free) and one for the root (`VerifyRoot`); `checked` counts the messages. `BenchArgs` computes
what `parse_args` makes of numbers as typed, signs and wraps included; `Typed` lists
command lines, and the refused ones start no run.

`VerifyAccepts` is about the whole of it: a signer that was reset, refilled and
grown, signatures freed between, a message buffer overwritten, and still the
signature is accepted for what the buffer holds. `NothingLeft` covers all pairs of an
iteration and a failing allocation, those inside `create`, a growth, `sign` and `batch_verify` included. `MeasuredAllOrNone` states exactly what an
average covers.

**Finding.** `MeasuredAll`, what `docs/report.md:46` says, fails: `--warmup -1` is `SIZE_MAX`, the
sum of line 275 wraps, and with `--iters 1` no iteration runs; the program exits with 0 and a
row in which every figure summed over the iterations is 0. Run `bench_wraps`.

### BenchSeq

The sizes of blocks are numbers (`held`), so that each write is compared with its
block. `batch_size * signature_bytes` (line 202) wraps without a check; `WritesInside`
holds all the same, because the next line's `calloc` checks `batch_size * sizeof(size_t)`
and gets no memory for such a batch. That is `SlotAssumption`: with an address space of
`2^47` bytes it is true of every signature shorter than a megabyte. `LeaksOnlyScratch` states the one
leak there is: `realloc` at line 278 overwrites the only pointer, so that its failure
after a measured iteration loses the scratch buffer, and nothing else is ever
lost.

### BenchMain and BenchScript

A file holds whole rows (`items`), the run that wrote it and whether a failed
`fclose` lost the rest, which `main` does not look at. A process that is killed leaves
any prefix of what it printed; a row cut in the middle counts as absent. `main` of the two
benchmarks is the same but for `run_one`. `MainSpec` is a user who starts processes one after
the other (`Launch`), with any two files in either role or without them and any `--algo`, and may kill
each one anywhere (`Kill`); a process carries its number, so that a file says whose it is.
Left out: `--help`; a csv and a json of the same name; the csv header, which is
printed into an empty buffer, failing.

`BenchScript` extends `BenchMain`: `script.at` is the place in the loops, `script.k` the pair of
files it is at, `confs` the options of every invocation. `Call` starts the benchmark as a child,
`Benchmark` are its steps, `Waited` is `set -e`. `Clean` removes what is left over, or fails when some of it is
gone. `MoveCsv` and `MoveJson` are the two renames, and `Crash`
kills the script and its child anywhere. `torn` remembers the pairs whose csv was renamed and whose json was
not: `PairOfOneRun` holds for all others, and for those it does not, as two files that are
not empty are skipped for good, whichever runs they are of. `Joined` is the join
of `plot_results.py` by algorithm, params label and batch size.

**Finding.** `SameBatch` fails: the names of the files hold neither the number of
iterations, the message size, the seed nor the verification, and `--skip-existing 1` is the default. A
second invocation in the same directory with another message size keeps the sequential
files of the first, and the speedup compares two batches, where `docs/report.md:7` says "the
same batch". Run `same_batch`.

Two dangers the code has no defence against are exceptions that the properties name, so the properties do not
catch them: a kill between the two renames leaves a pair of two runs (`torn`), and a failed
`fclose`, which `main` ignores, leaves a file cut short that is published like any other (`lost`).

Assumed: one script with its child at a time in an output directory, renames
within one file system, and a system that keeps running: nothing is synced to the disk before the renames, so
that after a power failure a published file may be anything, and the model has no power failure.

## 3. The runs

| Run | Config | Question | States |
|---|---|---|---|
| `merkle_tree` | `MCMerkleTree.cfg` | all safety properties of the tree | 801,887 |
| `merkle_loops_end` | `MCMerkleTreeLive.cfg` | every call returns | 128,664 |
| `batch_signer` | `MCBatchSigner.cfg` | safety, refinement and liveness of the signer | 31,691 |
| `wire_format` | `MCWireFormat.cfg` | safety of deserialize, both round trips | 82,641 |
| `wire_truncates` | `MCWireTruncates.cfg` | does line 460 keep the round trip (no, see above) | stops |
| `adapters` | `MCAdapters.cfg` | the contracts of the adapters and callbacks | 6,074 |
| `bench_batch` | `MCBenchBatch.cfg` | safety of `run_one` over the signer; it returns | 41,520 |
| `bench_wraps` | `MCBenchWraps.cfg` | is an average over `iters` iterations (no, see above) | stops |
| `bench_seq` | `MCBenchSeq.cfg` | writes inside blocks, leaks, averages | 20,250 |
| `bench_main` | `MCBenchMain.cfg` | what exit codes and files say after any failure or kill | 45,453 |
| `bench_script` | `MCBenchScript.cfg` | what is published after any failure or crash; the script ends | 272,841 |
| `same_batch` | `MCSameBatch.cfg` | does a speedup compare the same batch (no, see above) | stops |

Bounds. *Tree*: requests for 1, 2, 3, 5 and 9 leaves with `SIZE_MAX` 15 and
digests of one byte give capacities 1, 2 and 4 (full and with unset leaves), one
request that fails `checked_mul_size` and one that fails `next_power_of_two`;
indexes 0, 2, 3 and 5, so that slot 1 is a gap and 5 lies beyond every capacity; an array of
`get_proof` for one element at first, so that it grows on the way; paths of no element up to one more than
`get_proof` returned, that is, of up to 3; two messages, used
symmetrically, suffice to make two leaves equal or different; one `set_leaf` after a build
(`MaxLate`) suffices to make nodes stale. One path at a time. *Liveness of the
tree*: no symmetry (it would not be sound), one message and no late `set_leaf`,
as loops do not depend on digests. *Signer*: first capacity 1, cells of two bytes
and `SIZE_MAX` 12, so that the buffer doubles twice and the third doubling is
refused; two messages and the empty one; batches of one to four messages, which
give trees of capacity 1, 2 and 4, one with an unset leaf; each growth with each of its arrays and the
copy after it failing.
 *Wire format*: digests of two bytes and words of two bytes of four
values; the signatures of one and two messages (paths of length 0 and 1) with
root signatures of one and two bytes take 15, 16, 21 and 22 bytes, and those lengths
are given beside a header cut short, a file cut before the root signature and one
between the two (7, 9, 19), so that shortened and extended files of each kind are
read. The number 5 in a file is longer than anything left, 3 makes arrays that exceed
`SIZE_MAX` 22, and 0 gives the empty root signature, no proofs and empty paths.

*Adapters*: sizes that differ between schemes and between the two keys, capacities one
short and exact, lengths one off, two messages and two key pairs, one of which is
made after the context. *Batch benchmark*: the signer as above; batches of 1, 2, 3 and 5 (the last one outgrows
it), one of 7 that fails the overflow checks, none to two measured iterations, warm-ups of 0, 1 and -1.
*Sequential benchmark*: slots of 3 bytes, `SIZE_MAX` 15 and blocks of at most 10, so that the
product of line 202 wraps for 6 and 10 messages; signatures of 0, 1 and 3 bytes. *Main*: two processes, so that
the second one finds the files of the first, as its csv, its json or neither; every `--algo`,
an unknown one included.
*Script*: one job of two kinds, that is two pairs of files, and two
invocations, with and without skipping, dry and not, for one kind and both: a pair
half made, torn or published by the first meets every step of the second. That a third one adds
nothing is what the theorems say, which hold for any number. `same_batch` gives the two invocations different loads.

Fairness. `WF_vars(Step)` and `WF_vars(SignStep)`: the thread that is inside a
call keeps running, and so for `RunStep` of `run_one`; `WF_vars(ScriptStep)` says the same of
the script and its child. Nothing obliges a caller to call, so no action of the caller is
fair. The failing alternatives are in the same fair action, as a failing
allocation is a way of running on, and `CallsReturn` and `SignReturns` hold
whichever alternative occurs.

## 4. The proofs

Every safety invariant, action property and refinement that a passing run checks is
also a theorem, for every value of the constants that satisfies the named assumptions of
the modules. These say: sizes, widths and bounds are positive numbers (`SizeAssumption`,
`BufferAssumption`, `WidthAssumption`, `SizesAssumption`, `AddressAssumption`); the caller asks
for at least one leaf (`ArgAssumption`); the first buffer fits `size_t`; a file has no more bytes
than `SIZE_MAX` and its words hold numbers of a word (`FileAssumption`); `NULL` is no message,
scheme or path (`MessageAssumption`, `NullAssumption`, `PathsAssumption`); `MaxKeys` is a number
(`MaxKeysAssumption`); slots of an allocated batch do not wrap (`SlotAssumption`, section 2); algorithms,
jobs, options and file names have the shape the code gives them (`RegistryAssumption`,
`JobsAssumption`, `OptionsAssumption`, `ScriptPathsAssumption`). TLC evaluates each of
them in the runs of its module. One theorem, `RoundTripCorrect`, has a hypothesis besides.

**Induction over data.** The library's induction theorems take an operator, which the
provers here cannot instantiate. `MerkleOpsProofs` gets induction from sets:
`Least` finds the least element of a set of numbers, as the strict subsets of a finite set
are well-founded, and `Induction` says that a set with 0 and each successor has every number.
From it `Iterates` and its kin (`Recursion` in `WireFormatProofs`) show that the function a recursive
definition means exists, and with it the equations it is written with (`PowerDef`, `TreeDef`, `FoldedDef`,
`PlaceDef`, `FlattenDef`). All proofs about trees, words and files rest on these.

**`MerkleOpsProofs`.** `PathIsExact`: for a tree of any depth, the path `merkle_tree_get_proof` reads for a slot
is accepted by `merkle_tree_verify_proof` for the leaf in that slot and for no other. It is about this one
path. `PathBinds` is about all: of any elements and any length, accepted for the root of nodes that are hashes of
their children, they prove `Binds`, the conclusion of `Binding`. Its induction goes from the root down: the
digest that is hashed into the published digest of a node is, as the ideal hash is injective, that of the child
the next bit of the index says (`WalkBits`).

**`MerkleTreeProofs`.** `TypeCorrect`, `CapacityCorrect`, `RootCorrect`,
`BindingCorrect`, `CompletenessCorrect`, `HeapCorrect`, `LoopsCompute`. `Binding` and
`Completeness` speak of the end of a loop and are not inductive. `IInv` adds
what the loops maintain: `PowerInv` (the running power is the least so far),
`LevelInv` (the walk of `get_proof` passes one node per level, and the levels halve
from the capacity down to 1), `CommitInv` (the part of the tree already
rebuilt) and, for `Completeness`, `VerifyInv` (on the path of `get_proof` the running digest is that of
the node the walk passed). `Binding` follows from `CommitInv`, `OpsInv` and `PathBinds`.
`LoopsCompute` ties the loops to the functions and needs `OpsInv` besides: the siblings taken are those
of the nodes passed, whatever was set since the build, and what is folded so far is that many steps
of `Folded`. `StepsRunOut` bounds every call of the tree (see the end of this section).

**`BatchSignerProofs`.** `TypeCorrect`, `CellsCorrect`, `NoLeakCorrect`,
`NoFaultCorrect`, `SignerIsNotary`. `HeapInv` says that between calls and at every step of
`sign`, its end with the copy of the root and the two frees included, the live blocks are those of the signer (`SignerBlocks`), of the outstanding
signature (`SigOwned`) and of `sign` so far (`Working`). `Disjoint` separates
the three and `CleanupIsWorking` shows that each failure path frees `Working`
and nothing else. `SignerIsNotary` is the refinement of `BatchNotary`: `WorkInv` says that what `sign` has
computed at each step is that part of `SignatureOf(Batch)`, the signature the functions of `MerkleOps`
make of the messages in the cells; by `PathIsExact`, that one is accepted for its batch and for no other, and
so every step maps to a step of the notary or to a stutter. `SignEnds` bounds `sign`.

**`WireFormatProofs`.** `TypeCorrect`, `NoLeakCorrect`, `NoFaultCorrect`, `CanonicalCorrect`,
`RoundTripCorrect`. The bound of the cursor is inductive because `TypeOK` carries `Left >= Owed`, the
promise `PathFits` made for the siblings still to be read. The heap invariant lists the blocks that
live at each step; each failure path frees exactly those (`RejectingAll`), and a finished
path joins the finished ones (`BuiltMore`). `WordInverse` is that `read_u32` undoes `write_u32`, by induction over
the bytes. For `CanonicalCorrect`, `TextInv` says that what has been read is always what `serialize` writes of
the part that has been built, to which each step adds the same to both, and `ReplyInv` that the answer of `serialize` is
still about the signature at hand. `RoundTripCorrect` goes the other way: `ReadInv` says that as long as
what has been read is a beginning of the file of some signature of `Signed`, and no `malloc` has
failed, everything decoded is of that signature, so that no comparison can fail: the
lengths read are its lengths, and what they promise is there (`RootSigThere`, `PathThere`,
`NothingTrails`). Its hypothesis is `Readable` of every signature of `Signed`: they are made of digests
and bytes, their arrays fit `size_t`, their lengths a `uint32_t`, and the cast of line 460 loses
nothing. The last one is the finding of section 2: without it, run `wire_truncates` shows, the theorem is
false. `ClaimsAreAffordable` needs no such hypothesis: what a file makes `deserialize` allocate before
it is read is bounded by the length of the file, also where the quotient compared with has lost its
high bits, because the cast can only make it smaller. `DecodeEnds` bounds `deserialize`.

**`AdaptersProofs`.** `TypeCorrect`, `WritesFitCorrect`, `SignedVerifiesCorrect`,
`OnlySignedCorrect`, for any sizes, messages and number of key pairs. `IInv` says that
lengths are those of the scheme or none, that a pair was only made together with them, and that a
signature in the buffer is of the scheme found and of a length verify takes; the lemmas `SignAnswers` and
`VerifyAnswers` say, scheme by scheme, what each status means.

**`BenchBatchProofs`.** `RunTypeCorrect`, `NothingIsLeft`, `AllOrNoneMeasured`, `VerifyIsAccepted`. `RunIInv` puts
the invariant of the signer beside what the place of `run_one` says of it (`Together`: there is no signature
when a batch is filled, the signature goes before the signer), the counters (`Timed`) and the blocks of `run_one`
(`Holding`). A step of `run_one` that calls the signer is a step of `BatchSigner`, so its
lemmas are used as they stand. `SignedInv` adds `WorkInv` and that the harness and the signer agree: what was filled
is `Batch`, and what `sign` returned is `SignatureOf(batch)`, which `batch_verify` accepts.

**`BenchSeqProofs`.** `TypeCorrect`, `WritesAreInside`, `OnlyScratchLeaks`, `AllOrNoneMeasured`. `LaidOut`
says that each message's offset in the scratch buffer is the sum of the lengths before it, bounded by as many
slots, so that neither sum nor product wraps once `SlotsFit` has it that the batch was allocated; `Allocated` which
blocks there are at each place and how large; `Scratch` when the scratch buffer is lost.

**`BenchScriptProofs`.** Of `main`: `ZeroIsComplete` and `JsonComesLast`, for any registry, options
and number of processes. `JsonAfterCsv` speaks of files alone, whoever was killed when, and is not
inductive: `RunsInv` adds that what carries the number of the current process are its own files,
its json only when its csv is finished. Of the script: `TypeCorrect`, `OnlyWholeIsPublished`,
`OneRunPerPair`, `ZeroIsPublished` and `NothingIsUnpublished` (no step and no kill takes a published
file away), for any jobs, the same one twice included, options, number of invocations and
moments of a kill. `IInv` says that `main` runs only for the pair at hand and into its temporary files
(`MainOfPair`), that every file is a prefix of what its pair is to hold (`Prefixed`), that what is about to be
renamed is whole and of this run (`Moving`), and that the pairs behind are published (`Done`): a repeated
job makes one of them anew, which `Done` has to except. The steps of `main` are the lemmas of the first
part, used with the files of the pair. `JoinIsOfOneLabel` is what is left of the promise that run
`same_batch` refutes: a joined row is of two invocations that ran with the same label, which `Numbered` (a file
carries the number of an invocation there was) makes last; and `SameBatch` holds in a directory all of whose
invocations had the same load. The run shows that this condition cannot be dropped.

**Termination.** For each loop there is a variant: a natural number that every step lowers,
whatever fails and whatever the environment answers, and whose first value the arguments fix.

| theorem | what ends | after at most |
|---|---|---|
| `MerkleTreeProofs.StepsRunOut` | each call of the tree | `CallLeft` steps; `next_power_of_two` never spins on a `p` that has wrapped to 0 |
| `BatchSignerProofs.SignEnds` | `sign` of `n` messages | `2n + 9` steps |
| `WireFormatProofs.DecodeEnds` | `deserialize` of `n` bytes | `2n + 1` steps, whatever the file claims |
| `BenchBatchProofs.RunEnds` | `run_one` with its signer | `total_iters * (4 * batch_size + 16) + 8` steps |
| `BenchSeqProofs.RunEnds` | the sequential `run_one` | `total_iters * (2 * batch_size + 3) + 5` steps |
| `BenchScriptProofs.MainEnds` | `main` | five steps more than it has algorithms to run |
| `BenchScriptProofs.InvocationEnds` | an invocation for `n` pairs, its benchmarks included | `11n + 2` steps |

`total_iters` is the wrapped sum of `--warmup` and `--iters`. The numbers count steps of the
models, not instructions; what matters is that they exist for every value of the
constants, so that no retry, no wrapped counter and no failure path can make one of these loops run for ever.

Only model-checked: that such a step is always possible and, under the fairness of section 3, taken, so
that the calls do return (`CallsReturn`, `SignReturns`, `RunReturns`, `ScriptEnds`), as the
prover has neither fairness nor `ENABLED`; and that the three violated properties are violated, which takes
an instance.

## 5. What is left

Modelled and checked are the tree, the signer, the wire format, the adapters, the benchmarks with the
signer composed into one, and the driver; proved is each safety property checked, and a bound
for each loop. One composition is neither modelled nor proved: that what `sign` returns is `Readable`, but for its
size, so that the round trip would follow for the signer and the wire format together. In `BatchSigner` a
digest is a term of an ideal hash, which the proofs about binding need, and in `WireFormat` it is a string of
bytes; the two would have to be joined by an encoding of terms that no code corresponds to.

Not modelled, with reasons: the timer and the message generator (a clock reading
and a filler: no state that a property depends on); drawing, the copy to the docs and the
set-up scripts (input and output only); the security estimates (floating point,
run by hand); Streebog and the three schemes (third-party code that is not in
the repository); the tests, which were read as the statement of what the code is
meant to do.
