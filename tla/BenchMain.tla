------------------------------ MODULE BenchMain ------------------------------
(***************************************************************************)
(* main of bench/bench_batch.c, and of bench/bench_seq.c, which differs in *)
(* run_one only: run the selected algorithms, write a row per algorithm to *)
(* the csv while they run and the json when all are done.  stdio buffers:  *)
(* a file holds what was flushed when its stream was closed or the process *)
(* killed, some prefix of what was written.  main does not look at what    *)
(* fclose returns, so it may lose the rest and exit with 0: lost says so.  *)
(***************************************************************************)
EXTENDS Integers, Sequences, SequencesExt

CONSTANTS
  Registry,   \* the names of k_algorithms, in order
  Paths,      \* the files it may be told to write
  MaxRuns,    \* bound on the number of processes
  NULL

Names == {Registry[i] : i \in DOMAIN Registry}

ASSUME PathsAssumption == NULL \notin Paths
\* No two algorithms of the registry have the same name.
ASSUME RegistryAssumption ==
  /\ Registry \in Seq(Names) /\ {"all", NULL} \cap Names = {}
  /\ \A i, j \in DOMAIN Registry : Registry[i] = Registry[j] => i = j

VARIABLES
  files,      \* what each path holds
  main        \* the process: its place, its options and the results so far

Absent == [run |-> 0, items |-> <<>>, lost |-> FALSE, there |-> FALSE]
File(run, items, lost) == [run |-> run, items |-> items, lost |-> lost, there |-> TRUE]

Idle == [at |-> "none", run |-> 0, opt |-> [algo |-> "all", csv |-> NULL, json |-> NULL],
         results |-> <<>>, code |-> 0]

MainInit == files = [p \in Paths |-> Absent] /\ main = Idle

\* The algorithms that the loop over the registry does not pass over.
SelectedBy(algo) ==
  IF algo = "all" THEN Registry ELSE IF algo \in Names THEN <<algo>> ELSE <<>>
Selected == SelectedBy(main.opt.algo)

CsvOf(results) == <<"header">> \o results
JsonOf(results) == <<"config">> \o results \o <<"end">>
------------------------------------------------------------------------------
Running == main.at \notin {"none", "exited"}

At(place) == main' = [main EXCEPT !.at = place]
Exit(code) == main' = [main EXCEPT !.at = "exited", !.code = code]

\* fopen(path, "w").
Truncates(path) == files' = [files EXCEPT ![path] = File(main.run, <<>>, FALSE)]

\* fclose of the stream to path into which written was printed.
Closes(path, written) ==
  IF path = NULL THEN UNCHANGED files
  ELSE \E kept \in Prefixes(written) :
         files' = [files EXCEPT ![path] = File(main.run, kept, kept # written)]

Start(run, opt) ==
  /\ ~Running
  /\ main' = [at |-> "start", run |-> run, opt |-> opt, results |-> <<>>, code |-> 0]
  /\ UNCHANGED files

\* Options that are refused, or no memory for the results.
GiveUp ==
  /\ main.at = "start" /\ Exit(1)
  /\ UNCHANGED files

OpenCsv ==
  /\ main.at = "start"
  /\ \/ main.opt.csv = NULL /\ At("run") /\ UNCHANGED files
     \/ main.opt.csv # NULL /\ At("run") /\ Truncates(main.opt.csv)
     \/ main.opt.csv # NULL /\ Exit(1) /\ UNCHANGED files

NextAlgorithm == Selected[Len(main.results) + 1]

\* Seeded fault: a run_one that fails only ends the loop.
RunAlgorithmBreaks ==
  /\ main.at = "run" /\ Len(main.results) < Len(Selected)
  /\ UNCHANGED files
  /\ \/ main' = [main EXCEPT !.results = Append(@, NextAlgorithm)]
     \/ At("close_csv")

\* run_one, and a row in the csv; when either fails the csv is closed as it is.
RunAlgorithm ==
  /\ main.at = "run" /\ Len(main.results) < Len(Selected)
  /\ \/ main' = [main EXCEPT !.results = Append(@, NextAlgorithm)] /\ UNCHANGED files
     \/ Exit(1) /\ Closes(main.opt.csv, CsvOf(main.results))

\* Seeded fault: the csv is left for the end of the process to close.
RanAllJsonFirst ==
  /\ main.at = "run" /\ Len(main.results) = Len(Selected)
  /\ At("open_json") /\ UNCHANGED files

RanAll ==
  /\ main.at = "run" /\ Len(main.results) = Len(Selected)
  /\ IF main.results = <<>> THEN Exit(1) /\ Closes(main.opt.csv, CsvOf(<<>>))
                            ELSE At("close_csv") /\ UNCHANGED files

CloseCsv ==
  /\ main.at = "close_csv" /\ At("open_json")
  /\ Closes(main.opt.csv, CsvOf(main.results))

OpenJson ==
  /\ main.at = "open_json"
  /\ \/ main.opt.json = NULL /\ Exit(0) /\ UNCHANGED files
     \/ main.opt.json # NULL /\ At("write_json") /\ Truncates(main.opt.json)
     \/ main.opt.json # NULL /\ Exit(1) /\ UNCHANGED files

\* write_json and fclose.
WriteJson ==
  /\ main.at = "write_json"
  /\ Exit(0) \/ Exit(1)
  /\ Closes(main.opt.json, JsonOf(main.results))

MainStep ==
  \/ GiveUp \/ OpenCsv \/ RunAlgorithm \/ RanAll \/ CloseCsv \/ OpenJson \/ WriteJson

\* The process is killed: an open stream has flushed some prefix.
MainKilled ==
  /\ main' = Idle
  /\ \/ ~(main.at \in {"run", "close_csv"} /\ main.opt.csv # NULL) /\ main.at # "write_json"
        /\ UNCHANGED files
     \/ /\ main.at \in {"run", "close_csv"} /\ main.opt.csv # NULL
        /\ \E kept \in Prefixes(CsvOf(main.results)) :
             files' = [files EXCEPT ![main.opt.csv] = File(main.run, kept, FALSE)]
     \/ /\ main.at = "write_json"
        /\ \E kept \in Prefixes(JsonOf(main.results)) :
             files' = [files EXCEPT ![main.opt.json] = File(main.run, kept, FALSE)]
------------------------------------------------------------------------------
\* A user runs it again and again, and may kill it: NULL is a name that no algorithm
\* has, and no file.  The two files are different.
Algorithms == Names \cup {"all", NULL}
Commands ==
  {opt \in [algo : Algorithms, csv : Paths \cup {NULL}, json : Paths \cup {NULL}] :
     opt.csv = NULL \/ opt.csv # opt.json}

\* Every run has a number of its own, later than those that left something.
Launch ==
  \E r \in 1..MaxRuns, opt \in Commands :
    (\A path \in Paths : files[path].run < r) /\ Start(r, opt)

Kill == Running /\ MainKilled

MainNext == Launch \/ MainStep \/ Kill

MainSpec == MainInit /\ [][MainNext]_<<files, main>>

\* The exit code tells the truth: with 0, every selected algorithm has its row in
\* the csv and its entry in the json, in the order of the registry, both files are
\* of this process, and only what a failed fclose dropped is missing.
ExitZeroComplete ==
  main.at = "exited" /\ main.code = 0 =>
    /\ Selected # <<>>
    /\ main.opt.csv # NULL => LET f == files[main.opt.csv] IN
         f.run = main.run /\ (f.items = CsvOf(Selected) \/ f.lost)
    /\ main.opt.json # NULL => LET f == files[main.opt.json] IN
         f.run = main.run /\ (f.items = JsonOf(Selected) \/ f.lost)

\* A json is begun only when the csv is finished: whatever kills or stops a process,
\* also long after it is gone, one of two files of the same run is a csv that has
\* every row (but what a failed fclose dropped) and the other the json of those rows.
FinishedBefore(csv, json, algo) ==
  /\ files[csv].items = CsvOf(SelectedBy(algo)) \/ files[csv].lost
  /\ IsPrefix(files[json].items, JsonOf(SelectedBy(algo)))
JsonAfterCsv ==
  \A p, q \in Paths : p # q /\ files[p].there /\ files[q].there /\ files[p].run = files[q].run =>
    \E algo \in Algorithms : FinishedBefore(p, q, algo) \/ FinishedBefore(q, p, algo)
==============================================================================
