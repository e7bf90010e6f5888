----------------------------- MODULE BenchScript -----------------------------
(***************************************************************************)
(* scripts/benchmark.sh over the main of the benchmarks: for every job and *)
(* kind, skip what is there, or run the benchmark into two temporary files *)
(* and publish them by two renames; then plot what is published.  Any      *)
(* command may fail, which ends the script (set -e), and the script may be *)
(* killed with its child at any step and invoked again with other options. *)
(* The system itself keeps running: no file loses what was written to it.  *)
(* One script at a time works in an output directory.                      *)
(***************************************************************************)
EXTENDS BenchMain

CONSTANTS
  Jobs,       \* the algorithms and batch sizes of the loops, in their order
  Options     \* the options it may be invoked with: set.params (the build), set.load
              \* (iterations, size, seed, verify), mode, skip (--skip-existing), dry

VARIABLES
  script,     \* its place, the pair it is at, its exit code
  confs,      \* the options of every invocation so far
  torn,       \* pairs whose csv was renamed and whose json was not, so far
  raw         \* the rows of raw_data.csv that have a speedup: a pair of runs for each

vars == <<files, main, script, confs, torn, raw>>

Kinds(mode) == IF mode = "all" THEN <<"seq", "batch">> ELSE <<mode>>

\* The pairs that run_modes asks for, in order.
Requests(mode) == [k \in 1..Len(Jobs) * Len(Kinds(mode)) |->
  LET n == Len(Kinds(mode)) IN <<Jobs[((k - 1) \div n) + 1], Kinds(mode)[((k - 1) % n) + 1]>>]
Pairs == {Jobs[j] : j \in DOMAIN Jobs} \X {"seq", "batch"}

\* Where a pair is published and where it is made.
Out(pair, ext) == <<pair, ext, "out">>
Tmp(pair, ext) == <<pair, ext, "tmp">>
Exts == {"csv", "json"}
ScriptPaths == {Out(pair, ext) : pair \in Pairs, ext \in Exts}
          \cup {Tmp(pair, ext) : pair \in Pairs, ext \in Exts}
ASSUME ScriptPathsAssumption == Paths = ScriptPaths
\* Each job is of one algorithm, and another mode is refused before anything is done.
ASSUME JobsAssumption ==
  /\ Jobs \in Seq({Jobs[j] : j \in DOMAIN Jobs}) /\ \A j \in DOMAIN Jobs : Jobs[j].algo # "all"
ASSUME OptionsAssumption ==
  \A opt \in Options : /\ opt.mode \in {"seq", "batch", "all"}
                      /\ opt.skip \in BOOLEAN /\ opt.dry \in BOOLEAN

Init ==
  /\ MainInit
  /\ script = [at |-> "stopped", k |-> 1, code |-> "none"]
  /\ confs = <<>> /\ torn = {} /\ raw = {}

run == Len(confs)
conf == confs[run]
Pair == Requests(conf.mode)[script.k]

\* -s: the file is there and is not empty.
Filled(path) == files[path].items # <<>>
\* Seeded fault: the csv alone decides.
CsvPublished(pair) == Filled(Out(pair, "csv"))
Published(pair) == \A ext \in Exts : Filled(Out(pair, ext))
------------------------------------------------------------------------------
GoTo(place) == script' = [script EXCEPT !.at = place]
Stop(code) == script' = [script EXCEPT !.at = "stopped", !.code = code]
NextPair == script' = [script EXCEPT !.at = "next", !.k = @ + 1]
Removes(S) == files' = [p \in Paths |-> IF p \in S THEN Absent ELSE files[p]]

Invoke ==
  /\ script.at = "stopped" /\ run < MaxRuns
  /\ \E opt \in Options : confs' = Append(confs, opt)
  /\ script' = [at |-> "build", k |-> 1, code |-> "none"]
  /\ UNCHANGED <<files, main, torn, raw>>

\* auto_configure_build, not in a dry run.
Build ==
  /\ script.at = "build"
  /\ GoTo("next") \/ (~conf.dry /\ Stop("failed"))
  /\ UNCHANGED <<files, main, confs, torn, raw>>

Skips(pair) == conf.skip /\ Published(pair)

Skip ==
  /\ script.at = "next" /\ script.k <= Len(Requests(conf.mode)) /\ Skips(Pair)
  /\ NextPair
  /\ UNCHANGED <<files, main, confs, torn, raw>>

\* The temporary files and what is published empty are removed (in a dry run too):
\* both of the first by one command, then each of the others, and each may fail.
Temporary == {Tmp(Pair, ext) : ext \in Exts}
Empty(exts) == {p \in {Out(Pair, ext) : ext \in exts} : ~Filled(p)}
Clean ==
  /\ script.at = "next" /\ script.k <= Len(Requests(conf.mode)) /\ ~Skips(Pair)
  /\ \/ /\ Removes(Temporary \cup Empty(Exts))
        /\ IF conf.dry THEN NextPair ELSE GoTo("call")
     \/ /\ \E gone \in (SUBSET Temporary) \cup {Temporary \cup Empty({"csv"})} : Removes(gone)
        /\ Stop("failed")
  /\ UNCHANGED <<main, confs, torn, raw>>

\* Seeded fault: the benchmark writes to the published files.
CallInPlace ==
  /\ script.at = "call" /\ GoTo("wait")
  /\ Start(run, [algo |-> Pair[1].algo, csv |-> Out(Pair, "csv"), json |-> Out(Pair, "json")])
  /\ UNCHANGED <<confs, torn, raw>>

Call ==
  /\ script.at = "call" /\ GoTo("wait")
  /\ Start(run, [algo |-> Pair[1].algo, csv |-> Tmp(Pair, "csv"), json |-> Tmp(Pair, "json")])
  /\ UNCHANGED <<confs, torn, raw>>

Benchmark ==
  /\ script.at = "wait" /\ MainStep
  /\ UNCHANGED <<script, confs, torn, raw>>

\* Seeded fault: the exit code of the benchmark is not looked at.
Failed == FALSE
ExitedBadly == main.code # 0

\* Seeded fault: a benchmark that failed is run again.
WaitedRetries ==
  /\ script.at = "wait" /\ main.at = "exited"
  /\ IF ExitedBadly THEN GoTo("next") ELSE GoTo("mv_csv")
  /\ main' = Idle
  /\ UNCHANGED <<files, confs, torn, raw>>

Waited ==
  /\ script.at = "wait" /\ main.at = "exited"
  /\ IF ExitedBadly THEN Stop("failed") ELSE GoTo("mv_csv")
  /\ main' = Idle
  /\ UNCHANGED <<files, confs, torn, raw>>

Renames(ext) ==
  files' = [files EXCEPT ![Out(Pair, ext)] = files[Tmp(Pair, ext)], ![Tmp(Pair, ext)] = Absent]

\* Seeded fault: the script goes on when mv fails.
MoveCsvLenient ==
  /\ script.at = "mv_csv" /\ GoTo("mv_json")
  /\ \/ Renames("csv") /\ torn' = torn \cup {Pair}
     \/ UNCHANGED <<files, torn>>
  /\ UNCHANGED <<main, confs, raw>>

MoveCsv ==
  /\ script.at = "mv_csv"
  /\ \/ Renames("csv") /\ GoTo("mv_json") /\ torn' = torn \cup {Pair}
     \/ Stop("failed") /\ UNCHANGED <<files, torn>>
  /\ UNCHANGED <<main, confs, raw>>

MoveJson ==
  /\ script.at = "mv_json"
  /\ \/ Renames("json") /\ NextPair /\ torn' = torn \ {Pair}
     \/ Stop("failed") /\ UNCHANGED <<files, torn>>
  /\ UNCHANGED <<main, confs, raw>>

\* load_rows and build_combined_rows: the row of a csv, and the rows of both kinds
\* joined by algorithm, params and batch size.
HasRow(job, kind) == Len(files[Out(<<job, kind>>, "csv")].items) > 1
RunOf(job, kind) == files[Out(<<job, kind>>, "csv")].run
Label(r, job) == IF job.algo = "shipovnik" THEN "default" ELSE confs[r].set.params
Joined ==
  {[job |-> j, seq |-> RunOf(j, "seq"), batch |-> RunOf(j, "batch")] :
     j \in {jb \in {Jobs[i] : i \in DOMAIN Jobs} :
              /\ HasRow(jb, "seq") /\ HasRow(jb, "batch")
              /\ Label(RunOf(jb, "seq"), jb) = Label(RunOf(jb, "batch"), jb)}}

\* The plots may fail or not be made at all: that is only a warning.
Plot ==
  /\ script.at = "next" /\ script.k > Len(Requests(conf.mode))
  /\ Stop("ok")
  /\ raw' \in {raw} \cup IF conf.dry THEN {} ELSE {Joined}
  /\ UNCHANGED <<files, main, confs, torn>>

ScriptStep ==
  \/ Build \/ Skip \/ Clean \/ Call \/ Benchmark \/ Waited \/ MoveCsv \/ MoveJson \/ Plot

\* The processes of the script and its child are killed: what they have written to
\* the files stays.  (Nothing is synced to the disk before mv: what is left of a file
\* after a power failure is not modelled.)
Crash ==
  /\ script.at # "stopped"
  /\ MainKilled /\ Stop("crashed")
  /\ UNCHANGED <<confs, torn, raw>>

Next == Invoke \/ ScriptStep \/ Crash

\* The script and its child keep running unless they are killed; nobody has to
\* invoke it again.
Spec == Init /\ [][Next]_vars /\ WF_vars(ScriptStep)
------------------------------------------------------------------------------
Places == {"stopped", "build", "next", "call", "wait", "mv_csv", "mv_json"}

\* Files hold a prefix of what the benchmark writes for their pair, the temporary
\* files of the current pair are whole when they are about to be renamed (unless a
\* failed fclose lost the rest), and main runs only while the script waits for it.
Whole(pair, ext) == IF ext = "csv" THEN CsvOf(<<pair[1].algo>>) ELSE JsonOf(<<pair[1].algo>>)
WholeOrLost(path) == LET f == files[path] IN f.items = Whole(path[1], path[2]) \/ f.lost

TypeOK ==
  /\ script.at \in Places /\ script.k \in 1..2 * Len(Jobs) + 1
  /\ (main.at # "none") <=> (script.at = "wait")
  /\ \A path \in Paths : /\ IsPrefix(files[path].items, Whole(path[1], path[2]))
                         /\ files[path].run \in 0..run
  /\ \A ext \in Exts : (script.at = "mv_csv" \/ (script.at = "mv_json" /\ ext = "json")) =>
       files[Tmp(Pair, ext)].run = run /\ WholeOrLost(Tmp(Pair, ext))
  /\ torn \subseteq Pairs

\* Nothing half written is ever published: whatever a benchmark had flushed when it
\* failed or was killed, and however often the script was stopped and invoked again,
\* a published file is whole.  Only a failed fclose, which main ignores, can shorten it.
PublishedWhole ==
  \A pair \in Pairs, ext \in Exts :
    files[Out(pair, ext)].there => WholeOrLost(Out(pair, ext))

\* What --skip-existing relies on: two published files that are not empty are of one
\* run, unless the script that last published the pair was stopped between its renames.
PairOfOneRun ==
  \A pair \in Pairs \ torn :
    Published(pair) => files[Out(pair, "csv")].run = files[Out(pair, "json")].run

\* A script that ends with code 0 leaves every pair it was asked for published
\* whole, and with --skip-existing 0 as its own: no failure of a step is passed over.
ExitZeroPublished ==
  (script.at = "stopped" /\ script.code = "ok" /\ ~conf.dry) =>
    \A k \in DOMAIN Requests(conf.mode), ext \in Exts :
      LET path == Out(Requests(conf.mode)[k], ext) IN
        /\ files[path].there /\ WholeOrLost(path)
        /\ (conf.skip \/ files[path].run = run)

\* A result once published is never lost: a later script, however it is stopped,
\* leaves the old file or puts a whole one in its place (or one fclose shortened).
NothingUnpublished ==
  [][\A pair \in Pairs, ext \in Exts :
       Filled(Out(pair, ext)) =>
         files'[Out(pair, ext)].there /\ WholeOrLost(Out(pair, ext))']_vars

\* A script that was started ends, by itself or killed.
ScriptEnds == script.at # "stopped" ~> script.at = "stopped"

\* The speedup compares a sequential and a batch run of the same messages (same
\* size, seed and iterations), as docs/report.md says; the code does not keep this.
SameBatch ==
  \A row \in raw : confs[row.seq].set.load = confs[row.batch].set.load
==============================================================================
