-------------------------- MODULE BenchScriptProofs --------------------------
(***************************************************************************)
(* Theorems about BenchMain, for any registry, any files and any number of *)
(* runs, and over their lemmas those about BenchScript, for any jobs and   *)
(* options and any number of invocations.                                  *)
(***************************************************************************)
EXTENDS BenchScript, SequenceTheorems, TLAPS

Items == Names \cup {"header", "config", "end"}

\* What the operators of this module return: sequences of names and of items.
LEMMA SelectedType ==
  ASSUME NEW algo
  PROVE  SelectedBy(algo) \in Seq(Names)
  BY RegistryAssumption DEF SelectedBy

LEMMA RowsType ==
  ASSUME NEW rows \in Seq(Names)
  PROVE  /\ CsvOf(rows) \in Seq(Items) /\ Len(CsvOf(rows)) = Len(rows) + 1
         /\ \A i \in 1..Len(rows) : CsvOf(rows)[i + 1] = rows[i]
         /\ CsvOf(rows)[1] = "header"
         /\ JsonOf(rows) \in Seq(Items) /\ JsonOf(rows) # <<>>
<1>1. rows \in Seq(Items)
  BY DEF Items
<1>2. <<"header">> \in Seq(Items) /\ <<"config">> \in Seq(Items) /\ <<"end">> \in Seq(Items)
  BY DEF Items
<1>3. <<"config">> \o rows \in Seq(Items) /\ Len(<<"config">> \o rows) = Len(rows) + 1
  BY <1>1, <1>2
<1>. QED  BY <1>1, <1>2, <1>3 DEF CsvOf, JsonOf

\* A prefix, element by element.
LEMMA PrefixIs ==
  ASSUME NEW S, NEW s \in Seq(S), NEW t \in Seq(S)
  PROVE  IsPrefix(s, t) <=> Len(s) <= Len(t) /\ \A i \in 1..Len(s) : s[i] = t[i]
<1>1. CASE Len(s) <= Len(t)
  <2>1. /\ SubSeq(s, 1, Len(s)) \in Seq(S) /\ Len(SubSeq(s, 1, Len(s))) = Len(s)
        /\ \A i \in 1..Len(s) : SubSeq(s, 1, Len(s))[i] = s[i]
    OBVIOUS
  <2>2. /\ SubSeq(t, 1, Len(s)) \in Seq(S) /\ Len(SubSeq(t, 1, Len(s))) = Len(s)
        /\ \A i \in 1..Len(s) : SubSeq(t, 1, Len(s))[i] = t[i]
    BY <1>1
  <2>3. SubSeq(s, 1, Len(s)) = SubSeq(t, 1, Len(s))
        <=> \A i \in 1..Len(s) : SubSeq(s, 1, Len(s))[i] = SubSeq(t, 1, Len(s))[i]
    BY <2>1, <2>2, SeqEqual
  <2>. QED  BY <1>1, <2>1, <2>2, <2>3 DEF IsPrefix
<1>2. CASE ~(Len(s) <= Len(t))
  BY <1>2 DEF IsPrefix
<1>. QED  BY <1>1, <1>2

LEMMA PrefixesType ==
  ASSUME NEW S, NEW s \in Seq(S), NEW kept \in Prefixes(s)
  PROVE  kept \in Seq(S) /\ IsPrefix(kept, s)
<1>1. PICK l \in 0..Len(s) : kept = SubSeq(s, 1, l)
  BY DEF Prefixes
<1>2. kept \in Seq(S) /\ Len(kept) = l /\ \A i \in 1..l : kept[i] = s[i]
  BY <1>1
<1>3. Len(kept) <= Len(s) /\ \A i \in 1..Len(kept) : kept[i] = s[i]
  BY <1>2
<1>. QED  BY <1>2, <1>3, PrefixIs

LEMMA PrefixOfPrefix ==
  ASSUME NEW S, NEW s \in Seq(S), NEW t \in Seq(S), NEW u \in Seq(S),
         IsPrefix(s, t), IsPrefix(t, u)
  PROVE  IsPrefix(s, u)
<1>1. /\ Len(s) <= Len(t) /\ \A i \in 1..Len(s) : s[i] = t[i]
      /\ Len(t) <= Len(u) /\ \A i \in 1..Len(t) : t[i] = u[i]
  BY PrefixIs
<1>2. Len(s) \in Nat /\ Len(t) \in Nat /\ Len(u) \in Nat
  OBVIOUS
<1>3. Len(s) <= Len(u) /\ \A i \in 1..Len(s) : s[i] = u[i]
  BY <1>1, <1>2
<1>. QED  BY <1>3, PrefixIs

\* A prefix grows by the next element until it is the whole.
LEMMA PrefixGrows ==
  ASSUME NEW S, NEW s \in Seq(S), NEW t \in Seq(S), IsPrefix(s, t)
  PROVE  /\ Len(s) < Len(t) => /\ Append(s, t[Len(s) + 1]) \in Seq(S)
                               /\ IsPrefix(Append(s, t[Len(s) + 1]), t)
         /\ Len(s) = Len(t) => s = t
<1>1. Len(s) <= Len(t) /\ \A i \in 1..Len(s) : s[i] = t[i]
  BY PrefixIs
<1>2. ASSUME Len(s) < Len(t)
      PROVE  /\ Append(s, t[Len(s) + 1]) \in Seq(S)
             /\ IsPrefix(Append(s, t[Len(s) + 1]), t)
  <2>1. t[Len(s) + 1] \in S
    BY <1>2
  <2>2. /\ Append(s, t[Len(s) + 1]) \in Seq(S) /\ Len(Append(s, t[Len(s) + 1])) = Len(s) + 1
        /\ \A i \in 1..(Len(s) + 1) : Append(s, t[Len(s) + 1])[i] = t[i]
    BY <1>1, <2>1
  <2> DEFINE u == Append(s, t[Len(s) + 1])
  <2>3. u \in Seq(S) /\ Len(u) <= Len(t) /\ \A i \in 1..Len(u) : u[i] = t[i]
    BY <1>2, <2>2
  <2>. HIDE DEF u
  <2>4. IsPrefix(u, t)
    BY <2>3, PrefixIs
  <2>. QED  BY <2>3, <2>4 DEF u
<1>3. Len(s) = Len(t) => s = t
  BY <1>1, SeqEqual
<1>. QED  BY <1>2, <1>3

\* The rows printed so far are a prefix of those of all that is selected.
LEMMA RowsPrefix ==
  ASSUME NEW rows \in Seq(Names), NEW all \in Seq(Names), IsPrefix(rows, all)
  PROVE  IsPrefix(CsvOf(rows), CsvOf(all))
<1>1. Len(rows) <= Len(all) /\ \A i \in 1..Len(rows) : rows[i] = all[i]
  BY PrefixIs
<1> DEFINE s == CsvOf(rows)
           t == CsvOf(all)
<1>2. /\ s \in Seq(Items) /\ t \in Seq(Items) /\ Len(s) = Len(rows) + 1 /\ Len(t) = Len(all) + 1
      /\ s[1] = t[1] /\ \A i \in 1..Len(rows) : s[i + 1] = rows[i]
      /\ \A i \in 1..Len(all) : t[i + 1] = all[i]
  BY RowsType
<1>. HIDE DEF s, t
<1>3. \A i \in 1..Len(s) : s[i] = t[i]
  <2>. TAKE i \in 1..Len(s)
  <2>1. CASE i = 1
    BY <1>2, <2>1
  <2>2. CASE i # 1
    <3>1. i - 1 \in 1..Len(rows) /\ i - 1 \in 1..Len(all) /\ (i - 1) + 1 = i
      BY <1>1, <1>2, <2>2
    <3>2. s[i] = rows[i - 1] /\ t[i] = all[i - 1]
      BY <1>2, <3>1
    <3>. QED  BY <1>1, <3>1, <3>2
  <2>. QED  BY <2>1, <2>2
<1>4. IsPrefix(s, t)
  BY <1>1, <1>2, <1>3, PrefixIs
<1>. QED  BY <1>4 DEF s, t
------------------------------------------------------------------------------
\* The files, whoever wrote them: of what is not there nothing is left.
FileInv ==
  /\ files = [path \in Paths |-> files[path]]
  /\ \A path \in Paths :
       /\ files[path].run \in Nat /\ files[path].items \in Seq(Items) /\ files[path].lost \in BOOLEAN
       /\ ~files[path].there => files[path].items = <<>> /\ ~files[path].lost

\* What main m has made of its two files in F, once it has closed them.
CsvDone(F, m) ==
  m.opt.csv # NULL =>
    /\ F[m.opt.csv].run = m.run
    /\ F[m.opt.csv].items = CsvOf(SelectedBy(m.opt.algo)) \/ F[m.opt.csv].lost
JsonDone(F, m) ==
  m.opt.json # NULL =>
    /\ F[m.opt.json].run = m.run
    /\ F[m.opt.json].items = JsonOf(SelectedBy(m.opt.algo)) \/ F[m.opt.json].lost

\* main knows what it was told and has a prefix of its results; past the loop it has
\* all of them, past the csv it has finished that, and with 0 the json as well.
MainInv ==
  /\ main = [at |-> main.at, run |-> main.run, opt |-> main.opt, results |-> main.results,
             code |-> main.code]
  /\ main.at \in {"none", "start", "run", "close_csv", "open_json", "write_json", "exited"}
  /\ main.run \in Nat
  /\ main.opt.csv \in Paths \cup {NULL} /\ main.opt.json \in Paths \cup {NULL}
  /\ main.opt.csv = NULL \/ main.opt.csv # main.opt.json
  /\ main.results \in Seq(Names) /\ IsPrefix(main.results, Selected)
  /\ main.at \in {"close_csv", "open_json", "write_json"} => main.results = Selected /\ Selected # <<>>
  /\ main.at \in {"open_json", "write_json"} => CsvDone(files, main)
  /\ main.at = "write_json" => main.opt.json # NULL
  /\ main.at = "exited" /\ main.code = 0 =>
       Selected # <<>> /\ CsvDone(files, main) /\ JsonDone(files, main)

\* What a step of main, or a kill, does to the files: nothing to those of others, and
\* its own hold prefixes of what it writes.
WritesOwn ==
  /\ files' = [path \in Paths |-> files'[path]]
  /\ \A path \in Paths :
       \/ files'[path] = files[path]
       \/ /\ path \in {main.opt.csv, main.opt.json}
          /\ files'[path].run = main.run /\ files'[path].there
          /\ files'[path].items \in Seq(Items) /\ files'[path].lost \in BOOLEAN
          /\ path = main.opt.csv => IsPrefix(files'[path].items, CsvOf(Selected))
          /\ path = main.opt.json => Selected # <<>> /\ IsPrefix(files'[path].items, JsonOf(Selected))

\* A file that is written: only this path, and a prefix of what was to be written.
LEMMA WritingKeeps ==
  ASSUME FileInv, MainInv, NEW path \in Paths, NEW kept, NEW lost \in BOOLEAN,
         path \in {main.opt.csv, main.opt.json}, kept \in Seq(Items),
         path = main.opt.csv => IsPrefix(kept, CsvOf(Selected)),
         path = main.opt.json => Selected # <<>> /\ IsPrefix(kept, JsonOf(Selected)),
         files' = [files EXCEPT ![path] = File(main.run, kept, lost)]
  PROVE  /\ WritesOwn
         /\ files'[path].run = main.run /\ files'[path].items = kept /\ files'[path].lost = lost
         /\ \A q \in Paths \ {path} : files'[q] = files[q]
<1>1. files' = [q \in Paths |-> IF q = path THEN File(main.run, kept, lost) ELSE files[q]]
  BY DEF FileInv
<1>2. files'[path] = File(main.run, kept, lost) /\ \A q \in Paths \ {path} : files'[q] = files[q]
  BY <1>1
<1>3. /\ files'[path].run = main.run /\ files'[path].items = kept /\ files'[path].there
      /\ files'[path].lost = lost
  BY <1>2 DEF File
<1>4. files' = [q \in Paths |-> files'[q]]
  BY <1>1
<1>. QED  BY <1>2, <1>3, <1>4 DEF WritesOwn

\* Nothing written.
LEMMA IdleKeeps ==
  ASSUME FileInv, UNCHANGED files
  PROVE  WritesOwn
  BY DEF WritesOwn, FileInv

LEMMA NothingIsPrefix ==
  ASSUME NEW S, NEW s \in Seq(S)
  PROVE  <<>> \in Seq(S) /\ IsPrefix(<<>>, s)
<1> DEFINE e == <<>>
<1>1. e \in Seq(S) /\ Len(e) = 0
  OBVIOUS
<1>. HIDE DEF e
<1>2. Len(e) <= Len(s) /\ \A i \in 1..Len(e) : e[i] = s[i]
  BY <1>1
<1>3. IsPrefix(e, s)
  BY <1>1, <1>2, PrefixIs
<1>. QED  BY <1>1, <1>3 DEF e

\* fclose of the csv or of the json.
LEMMA ClosingKeeps ==
  ASSUME FileInv, MainInv, NEW path \in Paths, NEW written \in Seq(Items),
         path \in {main.opt.csv, main.opt.json}, Closes(path, written),
         path = main.opt.csv => IsPrefix(written, CsvOf(Selected)),
         path = main.opt.json => Selected # <<>> /\ IsPrefix(written, JsonOf(Selected))
  PROVE  /\ WritesOwn
         /\ files'[path].run = main.run /\ (files'[path].items = written \/ files'[path].lost)
         /\ \A q \in Paths \ {path} : files'[q] = files[q]
<1>1. PICK kept \in Prefixes(written) :
        files' = [files EXCEPT ![path] = File(main.run, kept, kept # written)]
  BY PathsAssumption DEF Closes
<1>2. kept \in Seq(Items) /\ IsPrefix(kept, written)
  BY PrefixesType
<1>3. CsvOf(Selected) \in Seq(Items) /\ JsonOf(Selected) \in Seq(Items)
  BY SelectedType, RowsType DEF Selected
<1>4. /\ path = main.opt.csv => IsPrefix(kept, CsvOf(Selected))
      /\ path = main.opt.json => Selected # <<>> /\ IsPrefix(kept, JsonOf(Selected))
  BY <1>2, <1>3, PrefixOfPrefix
<1>5. (kept # written) \in BOOLEAN
  OBVIOUS
<1>6. /\ WritesOwn
      /\ files'[path].items = kept /\ files'[path].lost = (kept # written)
      /\ files'[path].run = main.run
      /\ \A q \in Paths \ {path} : files'[q] = files[q]
  BY <1>1, <1>2, <1>4, <1>5, WritingKeeps
<1>. QED  BY <1>6

\* The json is not touched before the csv is finished, nor the csv afterwards.
JsonLast ==
  /\ main.at \in {"open_json", "write_json", "exited"} /\ CsvDone(files, main) => CsvDone(files', main)
  /\ main.at \notin {"open_json", "write_json"} =>
       \A path \in Paths : path = main.opt.json => files'[path] = files[path]

Steps == MainInv' /\ WritesOwn /\ JsonLast /\ main'.run = main.run /\ main'.opt = main.opt

\* The parts of main that a step to a place, or to the end, leaves alone.
LEMMA AtKeeps ==
  ASSUME MainInv, NEW place, At(place)
  PROVE  /\ main' = [at |-> place, run |-> main.run, opt |-> main.opt, results |-> main.results,
                     code |-> main.code]
         /\ main'.at = place /\ main'.run = main.run /\ main'.opt = main.opt
         /\ main'.results = main.results
         /\ Selected' = Selected
  BY DEF MainInv, At, Selected

LEMMA ExitKeeps ==
  ASSUME MainInv, NEW code, Exit(code)
  PROVE  /\ main' = [at |-> "exited", run |-> main.run, opt |-> main.opt,
                     results |-> main.results, code |-> code]
         /\ main'.at = "exited" /\ main'.run = main.run /\ main'.opt = main.opt
         /\ main'.results = main.results /\ main'.code = code
         /\ Selected' = Selected
  BY DEF MainInv, Exit, Selected

\* Giving up before anything is written.
LEMMA FailsClean ==
  ASSUME MainInv, FileInv, Exit(1), UNCHANGED files, main.at = "start"
  PROVE  Steps
<1>1. MainInv'
  BY ExitKeeps DEF MainInv
<1>2. WritesOwn /\ JsonLast
  BY IdleKeeps DEF JsonLast
<1>. QED  BY <1>1, <1>2, ExitKeeps DEF Steps

LEMMA OpenCsvKeeps == MainInv /\ FileInv /\ OpenCsv => Steps
<1>. SUFFICES ASSUME MainInv, FileInv, OpenCsv PROVE Steps
  OBVIOUS
<1>0. main.at = "start"
  BY DEF OpenCsv
<1>1. CASE main.opt.csv = NULL /\ At("run") /\ UNCHANGED files
  <2>1. MainInv'
    BY <1>1, AtKeeps DEF MainInv
  <2>2. WritesOwn /\ JsonLast
    BY <1>0, <1>1, IdleKeeps DEF JsonLast
  <2>. QED  BY <1>1, <2>1, <2>2, AtKeeps DEF Steps
<1>2. CASE main.opt.csv # NULL /\ At("run") /\ Truncates(main.opt.csv)
  <2>1. MainInv'
    BY <1>2, AtKeeps DEF MainInv
  <2>2. main.opt.csv \in Paths /\ main.opt.csv # main.opt.json
    BY <1>2 DEF MainInv
  <2>3. CsvOf(Selected) \in Seq(Items)
    BY SelectedType, RowsType DEF Selected
  <2>4. /\ WritesOwn /\ \A q \in Paths \ {main.opt.csv} : files'[q] = files[q]
    BY <1>2, <2>2, <2>3, WritingKeeps, NothingIsPrefix DEF Truncates
  <2>5. JsonLast
    BY <1>0, <2>2, <2>4 DEF JsonLast
  <2>. QED  BY <1>2, <2>1, <2>4, <2>5, AtKeeps DEF Steps
<1>3. CASE main.opt.csv # NULL /\ Exit(1) /\ UNCHANGED files
  BY <1>0, <1>3, FailsClean
<1>. QED  BY <1>1, <1>2, <1>3 DEF OpenCsv

\* An end before the json: the csv is closed as it is.
LEMMA FailsOpen ==
  ASSUME MainInv, FileInv, Exit(1), Closes(main.opt.csv, CsvOf(main.results)), main.at = "run"
  PROVE  Steps
<1>1. MainInv'
  BY ExitKeeps DEF MainInv
<1>2. CASE main.opt.csv = NULL
  <2>1. WritesOwn /\ JsonLast
    BY <1>2, IdleKeeps DEF Closes, JsonLast
  <2>. QED  BY <1>1, <2>1, ExitKeeps DEF Steps
<1>3. CASE main.opt.csv # NULL
  <2>1. main.opt.csv \in Paths /\ main.opt.csv # main.opt.json
    BY <1>3 DEF MainInv
  <2>2. CsvOf(main.results) \in Seq(Items) /\ IsPrefix(CsvOf(main.results), CsvOf(Selected))
    BY SelectedType, RowsType, RowsPrefix DEF Selected, MainInv
  <2>3. WritesOwn /\ \A q \in Paths \ {main.opt.csv} : files'[q] = files[q]
    BY <2>1, <2>2, ClosingKeeps
  <2>4. JsonLast
    BY <2>1, <2>3 DEF JsonLast
  <2>. QED  BY <1>1, <2>3, <2>4, ExitKeeps DEF Steps
<1>. QED  BY <1>2, <1>3

LEMMA RunAlgorithmKeeps == MainInv /\ FileInv /\ RunAlgorithm => Steps
<1>. SUFFICES ASSUME MainInv, FileInv, RunAlgorithm PROVE Steps
  OBVIOUS
<1>1. main.at = "run" /\ Len(main.results) < Len(Selected)
  BY DEF RunAlgorithm
<1>2. CASE main' = [main EXCEPT !.results = Append(@, NextAlgorithm)] /\ UNCHANGED files
  <2>1. main' = [at |-> main.at, run |-> main.run, opt |-> main.opt,
                 results |-> Append(main.results, NextAlgorithm), code |-> main.code]
    BY <1>2 DEF MainInv
  <2>2. /\ main'.at = main.at /\ main'.run = main.run /\ main'.opt = main.opt
        /\ main'.results = Append(main.results, NextAlgorithm) /\ main'.code = main.code
        /\ Selected' = Selected
    BY <2>1 DEF Selected
  <2>3. main'.results \in Seq(Names) /\ IsPrefix(main'.results, Selected')
    BY <1>1, <2>2, SelectedType, PrefixGrows DEF MainInv, NextAlgorithm, Selected
  <2>4. MainInv'
    BY <1>1, <2>1, <2>2, <2>3 DEF MainInv
  <2>5. WritesOwn /\ JsonLast
    BY <1>1, <1>2, IdleKeeps DEF JsonLast
  <2>. QED  BY <2>2, <2>4, <2>5 DEF Steps
<1>3. CASE Exit(1) /\ Closes(main.opt.csv, CsvOf(main.results))
  BY <1>1, <1>3, FailsOpen
<1>. QED  BY <1>2, <1>3 DEF RunAlgorithm

LEMMA RanAllKeeps == MainInv /\ FileInv /\ RanAll => Steps
<1>. SUFFICES ASSUME MainInv, FileInv, RanAll PROVE Steps
  OBVIOUS
<1>1. main.at = "run" /\ Len(main.results) = Len(Selected)
  BY DEF RanAll
<1>2. main.results = Selected
  BY <1>1, SelectedType, PrefixGrows DEF MainInv, Selected
<1>3. CASE main.results = <<>>
  BY <1>1, <1>3, FailsOpen DEF RanAll
<1>4. CASE main.results # <<>>
  <2>1. At("close_csv") /\ UNCHANGED files
    BY <1>4 DEF RanAll
  <2>2. MainInv'
    BY <1>2, <1>4, <2>1, AtKeeps DEF MainInv
  <2>3. WritesOwn /\ JsonLast
    BY <1>1, <2>1, IdleKeeps DEF JsonLast
  <2>. QED  BY <2>1, <2>2, <2>3, AtKeeps DEF Steps
<1>. QED  BY <1>3, <1>4

LEMMA CloseCsvKeeps == MainInv /\ FileInv /\ CloseCsv => Steps
<1>. SUFFICES ASSUME MainInv, FileInv, CloseCsv PROVE Steps
  OBVIOUS
<1>1. /\ main.at = "close_csv" /\ At("open_json") /\ main.results = Selected /\ Selected # <<>>
      /\ Closes(main.opt.csv, CsvOf(Selected))
  BY DEF CloseCsv, MainInv
<1>2. CASE main.opt.csv = NULL
  <2>1. CsvDone(files, main)'
    BY <1>1, <1>2, AtKeeps DEF CsvDone
  <2>2. MainInv'
    BY <1>1, <2>1, AtKeeps DEF MainInv
  <2>3. WritesOwn /\ JsonLast
    BY <1>1, <1>2, IdleKeeps DEF Closes, JsonLast
  <2>. QED  BY <1>1, <2>2, <2>3, AtKeeps DEF Steps
<1>3. CASE main.opt.csv # NULL
  <2>1. main.opt.csv \in Paths /\ main.opt.csv # main.opt.json
    BY <1>3 DEF MainInv
  <2>2. CsvOf(Selected) \in Seq(Items) /\ IsPrefix(CsvOf(Selected), CsvOf(Selected))
    BY SelectedType, RowsType, PrefixIs DEF Selected
  <2>3. /\ WritesOwn /\ \A q \in Paths \ {main.opt.csv} : files'[q] = files[q]
        /\ files'[main.opt.csv].run = main.run
        /\ files'[main.opt.csv].items = CsvOf(Selected) \/ files'[main.opt.csv].lost
    BY <1>1, <2>1, <2>2, ClosingKeeps
  <2>4. CsvDone(files, main)'
    BY <1>1, <2>3, AtKeeps DEF CsvDone, Selected
  <2>5. MainInv'
    BY <1>1, <2>4, AtKeeps DEF MainInv
  <2>6. JsonLast
    BY <1>1, <2>1, <2>3 DEF JsonLast
  <2>. QED  BY <1>1, <2>3, <2>5, <2>6, AtKeeps DEF Steps
<1>. QED  BY <1>2, <1>3

LEMMA OpenJsonKeeps == MainInv /\ FileInv /\ OpenJson => Steps
<1>. SUFFICES ASSUME MainInv, FileInv, OpenJson PROVE Steps
  OBVIOUS
<1>1. main.at = "open_json" /\ CsvDone(files, main) /\ Selected # <<>> /\ main.results = Selected
  BY DEF OpenJson, MainInv
<1>2. CASE UNCHANGED files /\ (Exit(1) \/ (Exit(0) /\ main.opt.json = NULL))
  <2>1. CsvDone(files, main)' /\ CsvDone(files', main)
    BY <1>1, <1>2, ExitKeeps DEF CsvDone
  <2>2. main'.code = 0 => JsonDone(files, main)'
    BY <1>2, ExitKeeps DEF JsonDone
  <2>3. MainInv'
    BY <1>1, <1>2, <2>1, <2>2, ExitKeeps DEF MainInv
  <2>4. WritesOwn /\ JsonLast
    BY <1>1, <1>2, <2>1, IdleKeeps DEF JsonLast
  <2>. QED  BY <1>2, <2>3, <2>4, ExitKeeps DEF Steps
<1>3. CASE main.opt.json # NULL /\ At("write_json") /\ Truncates(main.opt.json)
  <2>1. main.opt.json \in Paths /\ main.opt.csv # main.opt.json
    BY <1>3, PathsAssumption DEF MainInv
  <2>2. JsonOf(Selected) \in Seq(Items)
    BY SelectedType, RowsType DEF Selected
  <2>3. WritesOwn /\ \A q \in Paths \ {main.opt.json} : files'[q] = files[q]
    BY <1>1, <1>3, <2>1, <2>2, WritingKeeps, NothingIsPrefix DEF Truncates
  <2>4. CsvDone(files', main)
    BY <1>1, <2>1, <2>3 DEF CsvDone, MainInv
  <2>5. CsvDone(files, main)'
    BY <1>3, <2>4, AtKeeps DEF CsvDone
  <2>6. MainInv'
    BY <1>1, <1>3, <2>5, AtKeeps DEF MainInv
  <2>7. JsonLast
    BY <1>1, <2>4 DEF JsonLast
  <2>. QED  BY <1>3, <2>3, <2>6, <2>7, AtKeeps DEF Steps
<1>. QED  BY <1>2, <1>3 DEF OpenJson

LEMMA WriteJsonKeeps == MainInv /\ FileInv /\ WriteJson => Steps
<1>. SUFFICES ASSUME MainInv, FileInv, WriteJson PROVE Steps
  OBVIOUS
<1>1. /\ main.at = "write_json" /\ CsvDone(files, main) /\ Selected # <<>> /\ main.results = Selected
      /\ Exit(0) \/ Exit(1)
      /\ Closes(main.opt.json, JsonOf(Selected))
  BY DEF WriteJson, MainInv
<1>2. CASE main.opt.json = NULL
  <2>1. UNCHANGED files
    BY <1>1, <1>2 DEF Closes
  <2>2. CsvDone(files, main)' /\ CsvDone(files', main) /\ JsonDone(files, main)'
    BY <1>1, <1>2, <2>1, ExitKeeps DEF CsvDone, JsonDone
  <2>3. MainInv'
    BY <1>1, <2>2, ExitKeeps DEF MainInv
  <2>. QED  BY <1>1, <2>1, <2>2, <2>3, IdleKeeps, ExitKeeps DEF Steps, JsonLast
<1>3. CASE main.opt.json # NULL
  <2>1. main.opt.json \in Paths /\ main.opt.csv # main.opt.json
    BY <1>3, PathsAssumption DEF MainInv
  <2>2. JsonOf(Selected) \in Seq(Items) /\ IsPrefix(JsonOf(Selected), JsonOf(Selected))
    BY SelectedType, RowsType, PrefixIs DEF Selected
  <2>3. /\ WritesOwn /\ \A q \in Paths \ {main.opt.json} : files'[q] = files[q]
        /\ files'[main.opt.json].run = main.run
        /\ files'[main.opt.json].items = JsonOf(Selected) \/ files'[main.opt.json].lost
    BY <1>1, <2>1, <2>2, ClosingKeeps
  <2>4. CsvDone(files', main)
    BY <1>1, <2>1, <2>3 DEF CsvDone, MainInv
  <2>5. CsvDone(files, main)' /\ JsonDone(files, main)'
    BY <1>1, <2>3, <2>4, ExitKeeps DEF CsvDone, JsonDone, Selected
  <2>6. MainInv'
    BY <1>1, <2>5, ExitKeeps DEF MainInv
  <2>7. JsonLast
    BY <1>1, <2>4 DEF JsonLast
  <2>. QED  BY <1>1, <2>3, <2>6, <2>7, ExitKeeps DEF Steps
<1>. QED  BY <1>2, <1>3

\* Every step of main keeps what main knows, and what it writes are its own files.
LEMMA MainSteps == MainInv /\ FileInv /\ MainStep => Steps
<1>1. MainInv /\ FileInv /\ GiveUp => Steps
  BY FailsClean DEF GiveUp
<1>. QED  BY <1>1, OpenCsvKeeps, RunAlgorithmKeeps, RanAllKeeps, CloseCsvKeeps, OpenJsonKeeps,
             WriteJsonKeeps DEF MainStep

\* A kill at any moment leaves prefixes, in its own files, and nothing else.
LEMMA KilledKeeps ==
  ASSUME MainInv, FileInv, MainKilled
  PROVE  MainInv' /\ WritesOwn /\ JsonLast /\ main' = Idle
<1>1. main' = Idle
  BY DEF MainKilled
<1>2. MainInv'
  <2>1. <<>> \in Seq(Names) /\ IsPrefix(<<>>, Selected')
    BY SelectedType, NothingIsPrefix DEF Selected
  <2>. QED  BY <1>1, <2>1 DEF MainInv, Idle
<1>3. CASE /\ ~(main.at \in {"run", "close_csv"} /\ main.opt.csv # NULL) /\ main.at # "write_json"
           /\ UNCHANGED files
  BY <1>1, <1>2, <1>3, IdleKeeps DEF JsonLast, CsvDone, MainInv
<1>4. CASE /\ main.at \in {"run", "close_csv"} /\ main.opt.csv # NULL
           /\ \E kept \in Prefixes(CsvOf(main.results)) :
                files' = [files EXCEPT ![main.opt.csv] = File(main.run, kept, FALSE)]
  <2>1. PICK kept \in Prefixes(CsvOf(main.results)) :
          files' = [files EXCEPT ![main.opt.csv] = File(main.run, kept, FALSE)]
    BY <1>4
  <2>2. main.opt.csv \in Paths /\ main.opt.csv # main.opt.json
    BY <1>4 DEF MainInv
  <2>3. /\ CsvOf(main.results) \in Seq(Items) /\ CsvOf(Selected) \in Seq(Items)
        /\ IsPrefix(CsvOf(main.results), CsvOf(Selected))
    BY SelectedType, RowsType, RowsPrefix DEF Selected, MainInv
  <2>4. kept \in Seq(Items) /\ IsPrefix(kept, CsvOf(Selected))
    BY <2>3, PrefixesType, PrefixOfPrefix
  <2>5. WritesOwn /\ \A q \in Paths \ {main.opt.csv} : files'[q] = files[q]
    BY <2>1, <2>2, <2>4, WritingKeeps
  <2>6. JsonLast
    BY <1>4, <2>2, <2>5 DEF JsonLast
  <2>. QED  BY <1>1, <1>2, <2>5, <2>6
<1>5. CASE /\ main.at = "write_json"
           /\ \E kept \in Prefixes(JsonOf(main.results)) :
                files' = [files EXCEPT ![main.opt.json] = File(main.run, kept, FALSE)]
  <2>1. PICK kept \in Prefixes(JsonOf(main.results)) :
          files' = [files EXCEPT ![main.opt.json] = File(main.run, kept, FALSE)]
    BY <1>5
  <2>2. main.opt.json \in Paths /\ main.opt.csv # main.opt.json
    BY <1>5, PathsAssumption DEF MainInv
  <2>3. JsonOf(Selected) \in Seq(Items) /\ main.results = Selected /\ Selected # <<>>
    BY <1>5, SelectedType, RowsType DEF Selected, MainInv
  <2>4. kept \in Seq(Items) /\ IsPrefix(kept, JsonOf(Selected))
    BY <2>1, <2>3, PrefixesType
  <2>5. WritesOwn /\ \A q \in Paths \ {main.opt.json} : files'[q] = files[q]
    BY <2>1, <2>2, <2>3, <2>4, WritingKeeps
  <2>6. CsvDone(files', main)
    BY <1>5, <2>2, <2>5 DEF CsvDone, MainInv
  <2>7. JsonLast
    BY <1>5, <2>6 DEF JsonLast
  <2>. QED  BY <1>1, <1>2, <2>5, <2>7
<1>. QED  BY <1>3, <1>4, <1>5 DEF MainKilled

\* A process that starts has written nothing and knows its options.
LEMMA StartKeeps ==
  ASSUME MainInv, FileInv, NEW r \in Nat, NEW opt, Start(r, opt),
         opt.csv \in Paths \cup {NULL}, opt.json \in Paths \cup {NULL},
         opt.csv = NULL \/ opt.csv # opt.json
  PROVE  MainInv' /\ WritesOwn
<1>1. main' = [at |-> "start", run |-> r, opt |-> opt, results |-> <<>>, code |-> 0]
  BY DEF Start
<1>2. <<>> \in Seq(Names) /\ IsPrefix(<<>>, Selected')
  BY SelectedType, NothingIsPrefix DEF Selected
<1>3. MainInv'
  BY <1>1, <1>2 DEF MainInv
<1>. QED  BY <1>3, IdleKeeps DEF Start

LEMMA FilesStay ==
  ASSUME MainInv, FileInv, WritesOwn
  PROVE  FileInv'
<1>1. \A path \in Paths :
        /\ files'[path].run \in Nat /\ files'[path].items \in Seq(Items) /\ files'[path].lost \in BOOLEAN
        /\ ~files'[path].there => files'[path].items = <<>> /\ ~files'[path].lost
  BY DEF FileInv, MainInv, WritesOwn
<1>. QED  BY <1>1 DEF FileInv, WritesOwn

LEMMA NothingYet == MainInit => MainInv /\ FileInv
<1>. SUFFICES ASSUME MainInit PROVE MainInv /\ FileInv
  OBVIOUS
<1>1. <<>> \in Seq(Names) /\ IsPrefix(<<>>, Selected)
  BY SelectedType, NothingIsPrefix DEF Selected
<1>2. MainInv
  BY <1>1 DEF MainInit, MainInv, Idle
<1>3. <<>> \in Seq(Items)
  OBVIOUS
<1>. QED  BY <1>2, <1>3 DEF MainInit, FileInv, Absent
------------------------------------------------------------------------------
\* The runs of a user: what a run leaves carries its number, the numbers grow, and
\* what carries the number of this one are its own files, the json only when the csv
\* is finished.
RunsInv ==
  /\ main.opt.algo \in Algorithms
  /\ main.at # "none" =>
       \A path \in Paths : files[path].there =>
         /\ files[path].run <= main.run
         /\ files[path].run = main.run => path \in {main.opt.csv, main.opt.json}
  /\ \A path \in Paths :
       (path = main.opt.json /\ files[path].there /\ files[path].run = main.run) =>
         /\ main.at \in {"write_json", "exited"} /\ CsvDone(files, main)
         /\ IsPrefix(files[path].items, JsonOf(Selected))

RunsIInv == MainInv /\ FileInv /\ RunsInv /\ JsonAfterCsv

\* What main or a kill leaves in the files, by the options main had.
RunsAfter ==
  \A path \in Paths : files'[path].there =>
    /\ files'[path].run <= main.run
    /\ files'[path].run = main.run => path \in {main.opt.csv, main.opt.json}
    /\ (path = main.opt.json /\ files'[path].run = main.run) =>
         CsvDone(files', main) /\ IsPrefix(files'[path].items, JsonOf(Selected))

LEMMA RunsGoOn ==
  ASSUME RunsIInv, main.at # "none", WritesOwn, JsonLast
  PROVE  RunsAfter
<1>. SUFFICES ASSUME NEW path \in Paths, files'[path].there
              PROVE  /\ files'[path].run <= main.run
                     /\ files'[path].run = main.run => path \in {main.opt.csv, main.opt.json}
                     /\ (path = main.opt.json /\ files'[path].run = main.run) =>
                          /\ CsvDone(files', main)
                          /\ IsPrefix(files'[path].items, JsonOf(Selected))
  BY DEF RunsAfter
<1>1. main.run \in Nat
  BY DEF RunsIInv, MainInv
<1>2. /\ files'[path].run <= main.run
      /\ files'[path].run = main.run => path \in {main.opt.csv, main.opt.json}
  BY <1>1 DEF WritesOwn, RunsIInv, RunsInv
<1>3. ASSUME path = main.opt.json, files'[path].run = main.run
      PROVE  CsvDone(files', main) /\ IsPrefix(files'[path].items, JsonOf(Selected))
  <2>1. CASE main.at \in {"open_json", "write_json"}
    <3>1. CsvDone(files', main)
      BY <2>1 DEF JsonLast, RunsIInv, MainInv
    <3>2. IsPrefix(files'[path].items, JsonOf(Selected))
      BY <1>3 DEF WritesOwn, RunsIInv, RunsInv
    <3>. QED  BY <3>1, <3>2
  <2>2. CASE main.at \notin {"open_json", "write_json"}
    <3>1. files'[path] = files[path]
      BY <1>3, <2>2 DEF JsonLast
    <3>2. /\ main.at = "exited" /\ CsvDone(files, main)
          /\ IsPrefix(files[path].items, JsonOf(Selected))
      BY <1>3, <2>2, <3>1 DEF RunsIInv, RunsInv
    <3>3. CsvDone(files', main)
      BY <3>2 DEF JsonLast
    <3>. QED  BY <3>1, <3>2, <3>3
  <2>. QED  BY <2>1, <2>2
<1>. QED  BY <1>2, <1>3

\* Two files of one run: both are of an earlier one and were not touched, or they are
\* the csv and the json of this one.
LEMMA PairsGoOn ==
  ASSUME RunsIInv, main.at # "none", WritesOwn, RunsAfter
  PROVE  JsonAfterCsv'
<1>. SUFFICES ASSUME NEW p \in Paths, NEW q \in Paths, p # q,
                     files'[p].there, files'[q].there, files'[p].run = files'[q].run
              PROVE  \E algo \in Algorithms : FinishedBefore(p, q, algo)' \/ FinishedBefore(q, p, algo)'
  BY DEF JsonAfterCsv
<1>1. CASE files'[p].run # main.run
  <2>1. files'[p] = files[p] /\ files'[q] = files[q]
    BY <1>1 DEF WritesOwn
  <2>2. PICK algo \in Algorithms : FinishedBefore(p, q, algo) \/ FinishedBefore(q, p, algo)
    BY <2>1 DEF RunsIInv, JsonAfterCsv
  <2>3. FinishedBefore(p, q, algo)' \/ FinishedBefore(q, p, algo)'
    BY <2>1, <2>2 DEF FinishedBefore
  <2>. QED  BY <2>3
<1>2. CASE files'[p].run = main.run
  <2>1. /\ {p, q} = {main.opt.csv, main.opt.json}
        /\ main.opt.csv # NULL
    BY <1>2, PathsAssumption DEF RunsAfter
  <2>2. CsvDone(files', main) /\ IsPrefix(files'[main.opt.json].items, JsonOf(Selected))
    BY <1>2, <2>1 DEF RunsAfter
  <2>3. PICK algo \in Algorithms : algo = main.opt.algo
    BY DEF RunsIInv, RunsInv
  <2>4. /\ files'[main.opt.csv].items = CsvOf(SelectedBy(algo)) \/ files'[main.opt.csv].lost
        /\ IsPrefix(files'[main.opt.json].items, JsonOf(SelectedBy(algo)))
    BY <2>1, <2>2, <2>3 DEF CsvDone, Selected
  <2>5. (p = main.opt.csv /\ q = main.opt.json) \/ (p = main.opt.json /\ q = main.opt.csv)
    BY <2>1
  <2>6. FinishedBefore(p, q, algo)' \/ FinishedBefore(q, p, algo)'
    BY <2>4, <2>5 DEF FinishedBefore
  <2>. QED  BY <2>6
<1>. QED  BY <1>1, <1>2

LEMMA StepsKeep == RunsIInv /\ MainStep => RunsIInv'
<1>. SUFFICES ASSUME RunsIInv, MainStep PROVE RunsIInv'
  OBVIOUS
<1>1. Steps /\ main.at # "none"
  <2>1. main.at # "none"
    BY DEF MainStep, GiveUp, OpenCsv, RunAlgorithm, RanAll, CloseCsv, OpenJson, WriteJson
  <2>. QED  BY <2>1, MainSteps DEF RunsIInv
<1>2. RunsAfter /\ JsonAfterCsv'
  BY <1>1, RunsGoOn, PairsGoOn DEF Steps
<1>3. FileInv'
  BY <1>1, FilesStay DEF Steps, RunsIInv
<1>4. RunsInv'
  <2>1. /\ main'.run = main.run /\ main'.opt = main.opt /\ Selected' = Selected
    BY <1>1 DEF Steps, Selected
  <2>2. main'.opt.algo \in Algorithms
    BY <2>1 DEF RunsIInv, RunsInv
  <2>3. ASSUME NEW path \in Paths, path = main'.opt.json, files'[path].there,
               files'[path].run = main'.run
        PROVE  /\ main'.at \in {"write_json", "exited"} /\ CsvDone(files', main')
               /\ IsPrefix(files'[path].items, JsonOf(Selected'))
    <3>1. CsvDone(files', main) /\ IsPrefix(files'[path].items, JsonOf(Selected))
      BY <1>2, <2>1, <2>3 DEF RunsAfter
    <3>2. main'.at \in {"write_json", "exited"}
      <4>1. CASE main.at \in {"open_json", "write_json"}
        BY <4>1 DEF MainStep, GiveUp, OpenCsv, RunAlgorithm, RanAll, CloseCsv, OpenJson, WriteJson,
                    At, Exit, RunsIInv, MainInv
      <4>2. CASE main.at \notin {"open_json", "write_json"}
        <5>1. files'[path] = files[path]
          BY <1>1, <2>1, <2>3, <4>2 DEF Steps, JsonLast
        <5>2. main.at \in {"write_json", "exited"}
          BY <2>1, <2>3, <5>1 DEF RunsIInv, RunsInv
        <5>. QED  BY <4>2, <5>2
                  DEF MainStep, GiveUp, OpenCsv, RunAlgorithm, RanAll, CloseCsv, OpenJson, WriteJson
      <4>. QED  BY <4>1, <4>2
    <3>3. CsvDone(files', main')
      BY <2>1, <3>1 DEF CsvDone
    <3>. QED  BY <2>1, <3>1, <3>2, <3>3
  <2>4. \A path \in Paths : files'[path].there =>
          /\ files'[path].run <= main'.run
          /\ files'[path].run = main'.run => path \in {main'.opt.csv, main'.opt.json}
    BY <1>2, <2>1 DEF RunsAfter
  <2>. QED  BY <2>2, <2>3, <2>4 DEF RunsInv
<1>. QED  BY <1>1, <1>2, <1>3, <1>4 DEF RunsIInv, Steps

LEMMA KillKeeps == RunsIInv /\ Kill => RunsIInv'
<1>. SUFFICES ASSUME RunsIInv, Kill PROVE RunsIInv'
  OBVIOUS
<1>1. main.at # "none" /\ MainKilled
  BY DEF Kill, Running
<1>2. MainInv' /\ WritesOwn /\ JsonLast /\ main' = Idle
  BY <1>1, KilledKeeps DEF RunsIInv
<1>3. JsonAfterCsv'
  BY <1>1, <1>2, RunsGoOn, PairsGoOn
<1>4. FileInv'
  BY <1>2, FilesStay DEF RunsIInv
<1>5. RunsInv'
  BY <1>2, PathsAssumption DEF RunsInv, Idle, Algorithms
<1>. QED  BY <1>2, <1>3, <1>4, <1>5 DEF RunsIInv

LEMMA LaunchKeeps == RunsIInv /\ Launch => RunsIInv'
<1>. SUFFICES ASSUME RunsIInv, NEW r \in 1..MaxRuns, NEW opt \in Commands,
                     \A path \in Paths : files[path].run < r, Start(r, opt)
              PROVE  RunsIInv'
  BY DEF Launch
<1>1. /\ opt.csv \in Paths \cup {NULL} /\ opt.json \in Paths \cup {NULL}
      /\ opt.csv = NULL \/ opt.csv # opt.json
      /\ opt.algo \in Algorithms
  BY DEF Commands
<1>2. r \in Nat
  OBVIOUS
<1>3. MainInv' /\ WritesOwn
  BY <1>1, <1>2, StartKeeps DEF RunsIInv
<1>4. FileInv'
  BY <1>3, FilesStay DEF RunsIInv
<1>5. files' = files /\ main'.run = r /\ main'.opt = opt
  BY DEF Start
<1>6. \A path \in Paths : files[path].run \in Nat /\ files[path].run < r
  BY DEF RunsIInv, FileInv
<1>7. RunsInv'
  BY <1>1, <1>2, <1>5, <1>6 DEF RunsInv
<1>8. JsonAfterCsv'
  BY <1>5 DEF RunsIInv, JsonAfterCsv, FinishedBefore
<1>. QED  BY <1>3, <1>4, <1>7, <1>8 DEF RunsIInv

LEMMA RunsBegin == MainInit => RunsIInv
<1>. SUFFICES ASSUME MainInit PROVE RunsIInv
  OBVIOUS
<1>1. MainInv /\ FileInv
  BY NothingYet
<1>2. RunsInv /\ JsonAfterCsv
  BY PathsAssumption DEF MainInit, RunsInv, JsonAfterCsv, Idle, Absent, Algorithms
<1>. QED  BY <1>1, <1>2 DEF RunsIInv

LEMMA RunsInductive == RunsIInv /\ [MainNext]_<<files, main>> => RunsIInv'
<1>1. RunsIInv /\ UNCHANGED <<files, main>> => RunsIInv'
  BY DEF RunsIInv, MainInv, FileInv, RunsInv, JsonAfterCsv, FinishedBefore, CsvDone, JsonDone, Selected
<1>. QED  BY <1>1, StepsKeep, KillKeeps, LaunchKeeps DEF MainNext
------------------------------------------------------------------------------
\* An exit code of 0 is never a lie, for any registry, options and number of runs:
\* what fails before both files are closed is in the code.
THEOREM ZeroIsComplete == MainSpec => []ExitZeroComplete
<1>1. MainInit => RunsIInv
  BY RunsBegin
<1>2. RunsIInv => ExitZeroComplete
  BY DEF RunsIInv, MainInv, ExitZeroComplete, CsvDone, JsonDone, Selected
<1>. QED  BY <1>1, <1>2, RunsInductive, PTL DEF MainSpec

\* A json is begun only when the csv of its run is finished, and that is still to be
\* seen in the files when the process was killed and others have run since.
THEOREM JsonComesLast == MainSpec => []JsonAfterCsv
<1>1. MainInit => RunsIInv
  BY RunsBegin
<1>2. RunsIInv => JsonAfterCsv
  BY DEF RunsIInv
<1>. QED  BY <1>1, <1>2, RunsInductive, PTL DEF MainSpec

\* How many more steps main can take at most.
MainLeft ==
  CASE main.at = "start" -> Len(Selected) + 5
    [] main.at = "run" -> (Len(Selected) - Len(main.results)) + 4
    [] main.at = "close_csv" -> 3
    [] main.at = "open_json" -> 2
    [] main.at = "write_json" -> 1
    [] OTHER -> 0

MainCloser == MainLeft' \in Nat /\ MainLeft' < MainLeft
MainLeftIs ==
  /\ main.at = "start" => MainLeft = Len(Selected) + 5
  /\ main.at = "run" => MainLeft = (Len(Selected) - Len(main.results)) + 4
  /\ main.at = "close_csv" => MainLeft = 3
  /\ main.at = "open_json" => MainLeft = 2
  /\ main.at = "write_json" => MainLeft = 1
  /\ main.at = "exited" => MainLeft = 0

LEMMA MainLeftByPlace == MainLeftIs
<1>1. /\ main.at = "start" => MainLeft = Len(Selected) + 5
      /\ main.at = "run" => MainLeft = (Len(Selected) - Len(main.results)) + 4
  BY DEF MainLeft
<1>2. /\ main.at = "close_csv" => MainLeft = 3
      /\ main.at = "open_json" => MainLeft = 2
      /\ main.at = "write_json" => MainLeft = 1
      /\ main.at = "exited" => MainLeft = 0
  BY DEF MainLeft
<1>. QED  BY <1>1, <1>2 DEF MainLeftIs

LEMMA MainLeftWillBe == MainLeftIs'
  BY MainLeftByPlace, PTL

LEMMA ResultsFit ==
  ASSUME MainInv
  PROVE  /\ Len(Selected) \in Nat /\ Len(main.results) \in Nat
         /\ Len(main.results) <= Len(Selected)
<1>1. Selected \in Seq(Names) /\ main.results \in Seq(Names) /\ IsPrefix(main.results, Selected)
  BY SelectedType DEF MainInv, Selected
<1>. QED  BY <1>1, PrefixIs

\* The results of n algorithms that are left, one fewer with each.
LEMMA OneFewer ==
  \A n, r \in Nat : r <= n =>
    /\ (n - r) + 4 \in Nat /\ (n - r) + 4 \in 0..n + 5 /\ (n - r) + 4 >= 4 /\ (n - r) + 4 < n + 5
    /\ r < n => (n - (r + 1)) + 4 \in Nat /\ (n - (r + 1)) + 4 < (n - r) + 4
  OBVIOUS

\* How near the end of main its places are.
LEMMA MainLeftType ==
  MainInv =>
    /\ MainLeft \in 0..Len(Selected) + 5
    /\ main.at \in {"start", "run"} => MainLeft >= 4
<1>. SUFFICES ASSUME MainInv PROVE /\ MainLeft \in 0..Len(Selected) + 5
                                   /\ main.at \in {"start", "run"} => MainLeft >= 4
  OBVIOUS
<1>1. /\ Len(Selected) \in Nat /\ Len(main.results) \in Nat
      /\ Len(main.results) <= Len(Selected)
  BY ResultsFit
<1>2. CASE main.at = "start"
  BY <1>1, <1>2, MainLeftByPlace DEF MainLeftIs
<1>3. CASE main.at = "run"
  <2>1. MainLeft = (Len(Selected) - Len(main.results)) + 4
    BY <1>3, MainLeftByPlace DEF MainLeftIs
  <2>2. /\ (Len(Selected) - Len(main.results)) + 4 \in 0..Len(Selected) + 5
        /\ (Len(Selected) - Len(main.results)) + 4 >= 4
    BY <1>1, OneFewer, Zenon
  <2>. QED  BY <2>1, <2>2, Zenon
<1>4. CASE main.at \in {"close_csv", "open_json", "write_json", "exited"}
  <2>1. MainLeft \in 0..3
    BY <1>4, MainLeftByPlace DEF MainLeftIs
  <2>. QED  BY <1>1, <1>4, <2>1
<1>5. CASE main.at = "none"
  <2>1. MainLeft = 0
    BY <1>5 DEF MainLeft
  <2>. QED  BY <1>1, <1>5, <2>1
<1>. QED  BY <1>2, <1>3, <1>4, <1>5 DEF MainInv

\* A step to the end, or past the loop over the algorithms.
LEMMA ExitCloser ==
  ASSUME MainInv, main.at \in {"start", "run", "open_json", "write_json"}, NEW code, Exit(code)
  PROVE  MainCloser
<1>1. MainLeft' = 0
  BY ExitKeeps, MainLeftWillBe DEF MainLeftIs
<1>2. MainLeft \in Nat /\ MainLeft > 0
  <2>1. CASE main.at \in {"start", "run"}
    BY <2>1, MainLeftType, ResultsFit
  <2>2. CASE main.at \in {"open_json", "write_json"}
    BY <2>2, MainLeftByPlace DEF MainLeftIs
  <2>. QED  BY <2>1, <2>2
<1>. QED  BY <1>1, <1>2 DEF MainCloser

LEMMA AtCloser ==
  ASSUME MainInv, NEW place, At(place),
         \/ main.at = "start" /\ place = "run"
         \/ main.at = "run" /\ place = "close_csv"
         \/ main.at = "close_csv" /\ place = "open_json"
         \/ main.at = "open_json" /\ place = "write_json"
  PROVE  MainCloser
<1>1. main'.at = place /\ Selected' = Selected /\ main'.results = main.results
  BY AtKeeps
<1>2. /\ Len(Selected) \in Nat /\ Len(main.results) \in Nat
      /\ Len(main.results) <= Len(Selected)
  BY ResultsFit
<1>3. CASE main.at = "start" /\ place = "run"
  <2>1. /\ MainLeft = Len(Selected) + 5
        /\ MainLeft' = (Len(Selected) - Len(main.results)) + 4
    BY <1>1, <1>3, MainLeftByPlace, MainLeftWillBe DEF MainLeftIs
  <2>2. /\ (Len(Selected) - Len(main.results)) + 4 \in Nat
        /\ (Len(Selected) - Len(main.results)) + 4 < Len(Selected) + 5
    BY <1>2, OneFewer, Zenon
  <2>. QED  BY <2>1, <2>2, Zenon DEF MainCloser
<1>4. CASE main.at = "run" /\ place = "close_csv"
  <2>1. MainLeft >= 4 /\ MainLeft \in 0..Len(Selected) + 5 /\ MainLeft' = 3
    BY <1>1, <1>4, MainLeftType, MainLeftWillBe DEF MainLeftIs
  <2>. QED  BY <1>2, <2>1 DEF MainCloser
<1>5. CASE \/ main.at = "close_csv" /\ place = "open_json"
           \/ main.at = "open_json" /\ place = "write_json"
  BY <1>1, <1>5, MainLeftByPlace, MainLeftWillBe DEF MainLeftIs, MainCloser
<1>. QED  BY <1>3, <1>4, <1>5

LEMMA MainIsCloser == MainInv /\ MainStep => MainCloser
<1>. SUFFICES ASSUME MainInv, MainStep PROVE MainCloser
  OBVIOUS
<1>1. CASE GiveUp \/ OpenCsv
  BY <1>1, ExitCloser, AtCloser DEF GiveUp, OpenCsv
<1>2. CASE RunAlgorithm
  <2>1. main.at = "run" /\ Len(main.results) < Len(Selected)
    BY <1>2 DEF RunAlgorithm
  <2>2. CASE main' = [main EXCEPT !.results = Append(@, NextAlgorithm)]
    <3>1. main' = [at |-> main.at, run |-> main.run, opt |-> main.opt,
                   results |-> Append(main.results, NextAlgorithm), code |-> main.code]
      BY <2>2 DEF MainInv
    <3>2. main.results \in Seq(Names) /\ NextAlgorithm \in Names
      <4>1. Selected \in Seq(Names) /\ Len(main.results) \in Nat
        BY SelectedType, ResultsFit DEF Selected
      <4>2. Len(main.results) + 1 \in 1..Len(Selected)
        BY <2>1, <4>1
      <4>. QED  BY <4>1, <4>2 DEF MainInv, NextAlgorithm
    <3>3. Len(Append(main.results, NextAlgorithm)) = Len(main.results) + 1
      BY <3>2
    <3>4. main'.at = "run" /\ Len(main'.results) = Len(main.results) + 1 /\ Selected' = Selected
      BY <2>1, <3>1, <3>3 DEF Selected
    <3>5. /\ MainLeft = (Len(Selected) - Len(main.results)) + 4
          /\ MainLeft' = (Len(Selected) - (Len(main.results) + 1)) + 4
      BY <2>1, <3>4, MainLeftByPlace, MainLeftWillBe DEF MainLeftIs
    <3>6. /\ (Len(Selected) - (Len(main.results) + 1)) + 4 \in Nat
          /\ (Len(Selected) - (Len(main.results) + 1)) + 4
               < (Len(Selected) - Len(main.results)) + 4
      BY <2>1, ResultsFit, OneFewer, Zenon
    <3>. QED  BY <3>5, <3>6, Zenon DEF MainCloser
  <2>3. CASE Exit(1)
    BY <2>1, <2>3, ExitCloser
  <2>. QED  BY <1>2, <2>2, <2>3 DEF RunAlgorithm
<1>3. CASE RanAll \/ CloseCsv
  BY <1>3, ExitCloser, AtCloser DEF RanAll, CloseCsv
<1>4. CASE OpenJson \/ WriteJson
  BY <1>4, ExitCloser, AtCloser DEF OpenJson, WriteJson
<1>. QED  BY <1>1, <1>2, <1>3, <1>4 DEF MainStep

\* main ends after at most five steps more than it has algorithms to run, whatever
\* fails: no step of it is ever taken twice for the same algorithm or file.
THEOREM MainEnds ==
  MainSpec => [][/\ main.at = "start" => MainLeft = Len(Selected) + 5
                 /\ MainStep => MainLeft' \in Nat /\ MainLeft' < MainLeft]_<<files, main>>
<1>1. MainInit => RunsIInv
  BY RunsBegin
<1>2. main.at = "start" => MainLeft = Len(Selected) + 5
  BY MainLeftByPlace DEF MainLeftIs
<1>3. RunsIInv /\ MainStep => MainLeft' \in Nat /\ MainLeft' < MainLeft
  BY MainIsCloser DEF RunsIInv, MainCloser
<1>. QED  BY <1>1, <1>2, <1>3, RunsInductive, PTL DEF MainSpec

------------------------------------------------------------------------------
\* The script.
Modes == {"seq", "batch", "all"}

\* The requests of a mode are pairs, at most two for each job.
LEMMA RequestsAre ==
  ASSUME NEW mode \in Modes
  PROVE  /\ Len(Requests(mode)) \in 0..2 * Len(Jobs)
         /\ DOMAIN Requests(mode) = 1..Len(Requests(mode))
         /\ \A k \in 1..Len(Requests(mode)) : Requests(mode)[k] \in Pairs
<1> DEFINE n == Len(Kinds(mode))
           total == Len(Jobs) * n
<1>1. Len(Jobs) \in Nat /\ DOMAIN Jobs = 1..Len(Jobs)
  BY JobsAssumption
<1>2. /\ n \in {1, 2} /\ \A i \in 1..n : Kinds(mode)[i] \in {"seq", "batch"}
  BY DEF Kinds, Modes
<1>3. total \in 0..2 * Len(Jobs)
  BY <1>1, <1>2
<1>4. \A k \in 1..total : ((k - 1) \div n) + 1 \in 1..Len(Jobs) /\ ((k - 1) % n) + 1 \in 1..n
  BY <1>1, <1>2
<1>5. Requests(mode) = [k \in 1..total |-> <<Jobs[((k - 1) \div n) + 1], Kinds(mode)[((k - 1) % n) + 1]>>]
  BY DEF Requests
<1>. HIDE DEF n, total
<1>6. \A k \in 1..total : Requests(mode)[k] \in Pairs
  BY <1>1, <1>2, <1>4, <1>5 DEF Pairs
<1>7. Len(Requests(mode)) = total /\ DOMAIN Requests(mode) = 1..total
  BY <1>3, <1>5, <1>1
<1>. QED  BY <1>3, <1>6, <1>7

\* Every path is a published or a temporary one, of one pair and one extension.
LEMMA PathsAre ==
  /\ \A p \in Pairs, e \in Exts :
       /\ Out(p, e) \in Paths /\ Out(p, e)[1] = p /\ Out(p, e)[2] = e /\ Out(p, e)[3] = "out"
       /\ Tmp(p, e) \in Paths /\ Tmp(p, e)[1] = p /\ Tmp(p, e)[2] = e /\ Tmp(p, e)[3] = "tmp"
  /\ \A path \in Paths : \E p \in Pairs, e \in Exts : path \in {Out(p, e), Tmp(p, e)}
  BY ScriptPathsAssumption DEF ScriptPaths, Out, Tmp

\* What main selects for a job: its algorithm, or nothing if no algorithm has that
\* name; then the prefixes that main writes are prefixes of a whole file.
LEMMA SelectedForJob ==
  ASSUME NEW pair \in Pairs, NEW items \in Seq(Items)
  PROVE  /\ SelectedBy(pair[1].algo) # <<>> => SelectedBy(pair[1].algo) = <<pair[1].algo>>
         /\ IsPrefix(items, CsvOf(SelectedBy(pair[1].algo))) => IsPrefix(items, Whole(pair, "csv"))
<1> DEFINE algo == pair[1].algo
<1>1. algo # "all"
  BY JobsAssumption DEF Pairs
<1>2. SelectedBy(algo) \in {<<>>, <<algo>>}
  BY <1>1 DEF SelectedBy
<1>3. Whole(pair, "csv") = CsvOf(<<algo>>)
  BY DEF Whole
<1>4. ASSUME IsPrefix(items, CsvOf(<<>>)) PROVE IsPrefix(items, CsvOf(<<algo>>))
  <2> DEFINE S == Items \cup {algo}
             s == CsvOf(<<>>)
             t == CsvOf(<<algo>>)
  <2>1. "header" \in S /\ algo \in S
    BY DEF Items
  <2>2. s \in Seq(S) /\ t \in Seq(S) /\ Len(s) = 1 /\ Len(t) = 2 /\ s[1] = "header" /\ t[1] = "header"
    BY <2>1 DEF CsvOf
  <2>3. items \in Seq(S)
    BY SeqMonotonic, items \in Seq(Items), Items \subseteq S
  <2>. HIDE DEF s, t, S
  <2>4. IsPrefix(s, t)
    <3>1. Len(s) <= Len(t) /\ \A i \in 1..Len(s) : s[i] = t[i]
      BY <2>2
    <3>. QED  BY <2>2, <3>1, PrefixIs
  <2>5. IsPrefix(items, s)
    BY <1>4 DEF s
  <2>6. IsPrefix(items, t)
    BY <2>2, <2>3, <2>4, <2>5, PrefixOfPrefix
  <2>. QED  BY <2>6 DEF t
<1>. QED  BY <1>2, <1>3, <1>4

\* A file that is not there is a prefix of everything.
LEMMA NothingIsWhole ==
  ASSUME NEW pair, NEW ext
  PROVE  IsPrefix(<<>>, Whole(pair, ext))
<1> DEFINE algo == pair[1].algo
           S == {algo, "header", "config", "end"}
<1>1. Whole(pair, ext) \in Seq(S)
  <2>1. <<algo>> \in Seq(S) /\ <<"header">> \in Seq(S) /\ <<"config">> \in Seq(S) /\ <<"end">> \in Seq(S)
    OBVIOUS
  <2>. HIDE DEF S
  <2>2. <<"config">> \o <<algo>> \in Seq(S)
    BY <2>1
  <2>. QED  BY <2>1, <2>2 DEF Whole, CsvOf, JsonOf
<1>. QED  BY <1>1, NothingIsPrefix
------------------------------------------------------------------------------
Busy == {"call", "wait", "mv_csv", "mv_json"}

\* The script: where it is, with a pair at hand while it is busy with one, and with
\* every pair behind it when it ends well.
ScriptInv ==
  /\ script \in [at : Places, k : Nat, code : {"none", "ok", "failed", "crashed"}]
  /\ script.k \in 1..2 * Len(Jobs) + 1
  /\ confs \in Seq(Options) /\ torn \subseteq Pairs
  /\ script.at # "stopped" =>
       run > 0 /\ script.k \in 1..Len(Requests(conf.mode)) + 1 /\ script.code = "none"
  /\ script.code = "ok" => run > 0 /\ script.k = Len(Requests(conf.mode)) + 1
  /\ script.at \in Busy => script.k <= Len(Requests(conf.mode)) /\ ~conf.dry

\* The files: prefixes of what their pair is to hold, of no later run.
Prefixed ==
  \A path \in Paths :
    IsPrefix(files[path].items, Whole(path[1], path[2])) /\ files[path].run \in 0..run

\* main runs while the script waits for it, for this pair, into its temporary files.
MainOfPair ==
  /\ main.at # "none" <=> script.at = "wait"
  /\ script.at = "wait" =>
       /\ main.run = run
       /\ main.opt = [algo |-> Pair[1].algo, csv |-> Tmp(Pair, "csv"), json |-> Tmp(Pair, "json")]

\* What is about to be renamed is whole and of this run, and so is what was renamed.
Made(path) == files[path].run = run /\ WholeOrLost(path) /\ files[path].there
Moving ==
  /\ script.at = "mv_csv" => \A ext \in Exts : Made(Tmp(Pair, ext))
  /\ script.at = "mv_json" => Made(Tmp(Pair, "json")) /\ Made(Out(Pair, "csv")) /\ Pair \in torn

\* The pairs before the one at hand are published, unless one of them is the same pair
\* again (a batch size that was asked for twice) and is being made anew.
PairDone(pair) ==
  \A ext \in Exts :
    LET path == Out(pair, ext) IN
      files[path].there /\ WholeOrLost(path) /\ (conf.skip \/ files[path].run = run)
Done ==
  ((script.at # "stopped" \/ script.code = "ok") /\ ~conf.dry) =>
    \A i \in 1..script.k - 1 :
      \/ PairDone(Requests(conf.mode)[i])
      \/ script.at \in Busy /\ Requests(conf.mode)[i] = Pair

IInv ==
  /\ MainInv /\ FileInv /\ ScriptInv /\ Prefixed /\ MainOfPair /\ Moving /\ Done
  /\ PublishedWhole /\ PairOfOneRun
------------------------------------------------------------------------------
\* What a script that runs works with.
LEMMA AtHand ==
  ASSUME ScriptInv, script.at # "stopped" \/ script.code = "ok"
  PROVE  /\ run \in Nat \ {0} /\ conf \in Options
         /\ conf.mode \in Modes /\ conf.skip \in BOOLEAN /\ conf.dry \in BOOLEAN
         /\ Len(Requests(conf.mode)) \in 0..2 * Len(Jobs)
         /\ \A k \in 1..Len(Requests(conf.mode)) : Requests(conf.mode)[k] \in Pairs
         /\ script.k \in 1..Len(Requests(conf.mode)) + 1
         /\ script.k <= Len(Requests(conf.mode)) => Pair \in Pairs
<1>1. run \in Nat \ {0} /\ conf \in Options
  BY DEF ScriptInv, run, conf
<1>2. conf.mode \in Modes /\ conf.skip \in BOOLEAN /\ conf.dry \in BOOLEAN
  BY <1>1, OptionsAssumption DEF Modes
<1>3. /\ Len(Requests(conf.mode)) \in 0..2 * Len(Jobs)
      /\ \A k \in 1..Len(Requests(conf.mode)) : Requests(conf.mode)[k] \in Pairs
  BY <1>2, RequestsAre
<1>4. script.k \in 1..Len(Requests(conf.mode)) + 1
  BY <1>3 DEF ScriptInv
<1>. QED  BY <1>1, <1>2, <1>3, <1>4 DEF Pair

\* A step that does not change the options is of the same invocation and pair.
LEMMA ConfStays ==
  ASSUME UNCHANGED confs
  PROVE  run' = run /\ conf' = conf /\ (script'.k = script.k => Pair' = Pair)
<1>1. run' = run /\ conf' = conf
  BY DEF run, conf
<1>. QED  BY <1>1 DEF Pair

\* What is published stays as it is; what is not empty stays there.
OutsStay == \A pair \in Pairs, ext \in Exts : files'[Out(pair, ext)] = files[Out(pair, ext)]
StaysThere == \A pair \in Pairs, ext \in Exts : Filled(Out(pair, ext)) => files'[Out(pair, ext)].there

\* A file that is not empty is there.
LEMMA FilledIsThere ==
  ASSUME FileInv, NEW pair \in Pairs, NEW ext \in Exts, Filled(Out(pair, ext))
  PROVE  files[Out(pair, ext)].there
  BY PathsAre DEF FileInv, Filled

LEMMA OutsKept ==
  ASSUME FileInv, PublishedWhole, PairOfOneRun, UNCHANGED torn, OutsStay
  PROVE  PublishedWhole' /\ PairOfOneRun' /\ StaysThere
<1>1. \A pair \in Pairs, ext \in Exts : files'[Out(pair, ext)] = files[Out(pair, ext)]
  BY DEF OutsStay
<1>2. PublishedWhole'
  BY <1>1 DEF PublishedWhole, WholeOrLost
<1>3. PairOfOneRun'
  BY <1>1 DEF PairOfOneRun, Published, Filled, Exts
<1>4. StaysThere
  BY <1>1, FilledIsThere DEF StaysThere
<1>. QED  BY <1>2, <1>3, <1>4

\* The pairs behind stay published, unless the script is busy to make them anew.
LEMMA DoneKept ==
  ASSUME ScriptInv, Done, UNCHANGED confs, script.at # "stopped", script'.k = script.k,
         script.at \in Busy => script'.at \in Busy,
         \A pair \in Pairs, ext \in Exts :
           (script'.at \notin Busy \/ pair # Pair) => files'[Out(pair, ext)] = files[Out(pair, ext)]
  PROVE  Done'
<1>1. run' = run /\ conf' = conf /\ Pair' = Pair
  BY ConfStays
<1>2. SUFFICES ASSUME ~conf.dry, NEW i \in 1..script.k - 1
      PROVE  \/ PairDone(Requests(conf.mode)[i])'
             \/ script'.at \in Busy /\ Requests(conf.mode)[i] = Pair
  BY <1>1 DEF Done
<1>3. PICK pair \in Pairs : pair = Requests(conf.mode)[i]
  BY AtHand
<1>4. PairDone(pair) \/ (script.at \in Busy /\ pair = Pair)
  BY <1>2, <1>3 DEF Done
<1>5. CASE script'.at \in Busy /\ pair = Pair
  BY <1>3, <1>5
<1>6. CASE ~(script'.at \in Busy /\ pair = Pair)
  <2>1. \A ext \in Exts : files'[Out(pair, ext)] = files[Out(pair, ext)]
    BY <1>6
  <2>2. PairDone(pair)
    BY <1>4, <1>6
  <2>3. \A ext \in Exts :
          /\ files'[Out(pair, ext)].there /\ WholeOrLost(Out(pair, ext))'
          /\ conf.skip \/ files'[Out(pair, ext)].run = run
    BY <2>1, <2>2 DEF PairDone, WholeOrLost
  <2>4. PairDone(Requests(conf.mode)[i])'
    BY <1>1, <1>3, <2>3 DEF PairDone
  <2>. QED  BY <2>4
<1>. QED  BY <1>5, <1>6

\* A script that stops without success promises nothing.
LEMMA StopsUndone ==
  ASSUME script'.at = "stopped", script'.code # "ok"
  PROVE  Done' /\ Moving'
  BY DEF Done, Moving
------------------------------------------------------------------------------
\* What every step has to keep, and the action property with it.
Keeps == IInv' /\ StaysThere

\* Steps that leave the files, main and the options alone.
LEMMA ScriptMoves ==
  ASSUME IInv, UNCHANGED <<files, main, confs, torn>>, script.at # "stopped",
         script.at # "wait", script'.at # "wait"
  PROVE  /\ MainInv' /\ FileInv' /\ Prefixed' /\ MainOfPair'
         /\ PublishedWhole' /\ PairOfOneRun' /\ StaysThere
<1>1. run' = run /\ conf' = conf
  BY ConfStays
<1>2. MainInv' /\ FileInv'
  BY DEF IInv, MainInv, FileInv, CsvDone, JsonDone, Selected
<1>3. Prefixed'
  BY <1>1 DEF IInv, Prefixed
<1>4. MainOfPair'
  BY DEF IInv, MainOfPair
<1>5. OutsStay
  BY DEF OutsStay
<1>6. PublishedWhole' /\ PairOfOneRun' /\ StaysThere
  BY <1>5, OutsKept DEF IInv
<1>. QED  BY <1>2, <1>3, <1>4, <1>6

\* Where the script goes.
LEMMA GoesTo ==
  ASSUME ScriptInv, NEW place \in Places, GoTo(place)
  PROVE  /\ script'.at = place /\ script'.k = script.k /\ script'.code = script.code
         /\ script' \in [at : Places, k : Nat, code : {"none", "ok", "failed", "crashed"}]
  BY DEF GoTo, ScriptInv

LEMMA NextIs ==
  ASSUME ScriptInv, NextPair
  PROVE  /\ script'.at = "next" /\ script'.k = script.k + 1 /\ script'.code = script.code
         /\ script' \in [at : Places, k : Nat, code : {"none", "ok", "failed", "crashed"}]
<1>1. script = [at |-> script.at, k |-> script.k, code |-> script.code]
  BY DEF ScriptInv
<1>2. script' = [at |-> "next", k |-> script.k + 1, code |-> script.code]
  BY <1>1 DEF NextPair
<1>3. script.k + 1 \in Nat /\ script.code \in {"none", "ok", "failed", "crashed"} /\ "next" \in Places
  BY DEF ScriptInv, Places
<1>. QED  BY <1>2, <1>3

LEMMA StopKeeps ==
  ASSUME ScriptInv, UNCHANGED confs, torn' \subseteq Pairs,
         NEW code \in {"failed", "crashed"}, Stop(code)
  PROVE  ScriptInv'
<1>1. run' = run /\ conf' = conf
  BY ConfStays
<1>2. script'.at = "stopped" /\ script'.k = script.k /\ script'.code = code
      /\ script' \in [at : Places, k : Nat, code : {"none", "ok", "failed", "crashed"}]
  BY DEF ScriptInv, Stop, Places
<1>. QED  BY <1>1, <1>2 DEF ScriptInv, Busy

LEMMA InvokeKeeps == IInv /\ Invoke => Keeps
<1>. SUFFICES ASSUME IInv, Invoke PROVE Keeps
  OBVIOUS
<1>1. PICK opt \in Options : confs' = Append(confs, opt)
  BY DEF Invoke
<1>2. /\ script.at = "stopped" /\ script' = [at |-> "build", k |-> 1, code |-> "none"]
      /\ UNCHANGED <<files, main, torn, raw>>
  BY DEF Invoke
<1>3. confs \in Seq(Options) /\ confs' \in Seq(Options) /\ run' = run + 1 /\ conf' = opt /\ run \in Nat
  BY <1>1 DEF IInv, ScriptInv, run, conf
<1>4. opt.mode \in Modes
  BY OptionsAssumption DEF Modes
<1>5. Len(Requests(opt.mode)) \in Nat
  BY <1>4, RequestsAre
<1>6. Len(Jobs) \in Nat
  BY JobsAssumption
<1>7. ScriptInv'
  BY <1>2, <1>3, <1>5, <1>6 DEF IInv, ScriptInv, Places, Busy
<1>8. MainInv' /\ FileInv'
  BY <1>2 DEF IInv, MainInv, FileInv, CsvDone, JsonDone, Selected
<1>9. Prefixed'
  BY <1>2, <1>3 DEF IInv, Prefixed
<1>10. MainOfPair' /\ Moving' /\ Done'
  BY <1>2 DEF IInv, MainOfPair, Moving, Done
<1>11. OutsStay
  BY <1>2 DEF OutsStay
<1>12. PublishedWhole' /\ PairOfOneRun' /\ StaysThere
  BY <1>2, <1>11, OutsKept DEF IInv
<1>. QED  BY <1>7, <1>8, <1>9, <1>10, <1>12 DEF IInv, Keeps

LEMMA BuildKeeps == IInv /\ Build => Keeps
<1>. SUFFICES ASSUME IInv, Build PROVE Keeps
  OBVIOUS
<1>1. script.at = "build" /\ UNCHANGED <<files, main, confs, torn, raw>>
  BY DEF Build
<1>2. run' = run /\ conf' = conf
  BY <1>1, ConfStays
<1>3. ASSUME GoTo("next") PROVE ScriptInv' /\ Done' /\ Moving' /\ script'.at # "wait"
  <2>1. /\ script'.at = "next" /\ script'.k = script.k /\ script'.code = script.code
        /\ script' \in [at : Places, k : Nat, code : {"none", "ok", "failed", "crashed"}]
    BY <1>3 DEF GoTo, IInv, ScriptInv, Places
  <2>2. ScriptInv'
    BY <1>1, <1>2, <2>1 DEF IInv, ScriptInv, Busy
  <2>3. Done'
    BY <1>1, <2>1, DoneKept DEF IInv, Busy
  <2>. QED  BY <2>1, <2>2, <2>3 DEF Moving
<1>4. ASSUME Stop("failed") PROVE ScriptInv' /\ Done' /\ Moving' /\ script'.at # "wait"
  <2>1. script'.at = "stopped" /\ script'.code = "failed"
    BY <1>4 DEF Stop, IInv, ScriptInv
  <2>2. torn' \subseteq Pairs
    BY <1>1 DEF IInv, ScriptInv
  <2>. QED  BY <1>1, <1>4, <2>1, <2>2, StopKeeps, StopsUndone DEF IInv
<1>5. ScriptInv' /\ Done' /\ Moving' /\ script'.at # "wait"
  BY <1>3, <1>4 DEF Build
<1>. QED  BY <1>1, <1>5, ScriptMoves DEF IInv, Keeps

LEMMA SkipKeeps == IInv /\ Skip => Keeps
<1>. SUFFICES ASSUME IInv, Skip PROVE Keeps
  OBVIOUS
<1>1. /\ script.at = "next" /\ script.k <= Len(Requests(conf.mode))
      /\ conf.skip /\ Published(Pair) /\ NextPair /\ UNCHANGED <<files, main, confs, torn, raw>>
  BY DEF Skip, Skips
<1>2. run' = run /\ conf' = conf
  BY <1>1, ConfStays
<1>3. /\ Len(Requests(conf.mode)) \in 0..2 * Len(Jobs) /\ script.k \in 1..Len(Requests(conf.mode)) + 1
      /\ Len(Jobs) \in Nat
  BY <1>1, AtHand, JobsAssumption DEF IInv
<1>4. /\ script'.at = "next" /\ script'.k = script.k + 1 /\ script'.code = script.code
      /\ script' \in [at : Places, k : Nat, code : {"none", "ok", "failed", "crashed"}]
  BY <1>1, NextIs DEF IInv
<1>5. ScriptInv'
  BY <1>1, <1>2, <1>3, <1>4 DEF IInv, ScriptInv, Busy
<1>6. PICK pair \in Pairs : pair = Pair /\ pair = Requests(conf.mode)[script.k]
  BY <1>1, AtHand DEF IInv, Pair
<1>7. PairDone(pair)
  <2>1. \A ext \in Exts : files[Out(pair, ext)].there
    BY <1>1, <1>6, FilledIsThere DEF IInv, Published
  <2>2. \A ext \in Exts : WholeOrLost(Out(pair, ext))
    BY <2>1 DEF IInv, PublishedWhole
  <2>. QED  BY <1>1, <2>1, <2>2 DEF PairDone
<1>8. Done'
  <2>1. ASSUME ~conf.dry, NEW i \in 1..script.k PROVE PairDone(Requests(conf.mode)[i])
    <3>1. CASE i = script.k
      BY <1>6, <1>7, <3>1
    <3>2. CASE i # script.k
      BY <1>1, <1>3, <2>1, <3>2 DEF IInv, Done, Busy
    <3>. QED  BY <3>1, <3>2
  <2>2. ASSUME ~conf.dry, NEW i \in 1..script'.k - 1 PROVE PairDone(Requests(conf.mode)[i])'
    <3>1. i \in 1..script.k
      BY <1>3, <1>4
    <3>2. PICK q \in Pairs : q = Requests(conf.mode)[i]
      BY <1>1, <1>3, <3>1, AtHand DEF IInv
    <3>3. PairDone(q)'
      BY <1>1, <1>2, <2>1, <2>2, <3>1, <3>2 DEF PairDone, WholeOrLost
    <3>. QED  BY <1>2, <3>2, <3>3 DEF PairDone
  <2>. QED  BY <1>2, <2>2 DEF Done
<1>9. Moving'
  BY <1>4 DEF Moving
<1>. QED  BY <1>1, <1>4, <1>5, <1>8, <1>9, ScriptMoves DEF IInv, Keeps

LEMMA PlotKeeps == IInv /\ Plot => Keeps
<1>. SUFFICES ASSUME IInv, Plot PROVE Keeps
  OBVIOUS
<1>1. /\ script.at = "next" /\ script.k > Len(Requests(conf.mode))
      /\ Stop("ok") /\ UNCHANGED <<files, main, confs, torn>>
  BY DEF Plot
<1>2. run' = run /\ conf' = conf
  BY <1>1, ConfStays
<1>3. /\ Len(Requests(conf.mode)) \in 0..2 * Len(Jobs) /\ script.k \in 1..Len(Requests(conf.mode)) + 1
      /\ run \in Nat \ {0}
  BY <1>1, AtHand DEF IInv
<1>4. /\ script'.at = "stopped" /\ script'.k = script.k /\ script'.code = "ok"
      /\ script' \in [at : Places, k : Nat, code : {"none", "ok", "failed", "crashed"}]
  BY <1>1 DEF Stop, IInv, ScriptInv, Places
<1>5. ScriptInv'
  BY <1>1, <1>2, <1>3, <1>4 DEF IInv, ScriptInv, Busy
<1>6. Done'
  BY <1>1, <1>4, DoneKept DEF IInv, Busy
<1>7. Moving'
  BY <1>4 DEF Moving
<1>. QED  BY <1>1, <1>4, <1>5, <1>6, <1>7, ScriptMoves DEF IInv, Keeps

\* While the script is busy it goes from place to place with its pair.
LEMMA BusyKeeps ==
  ASSUME IInv, script.at # "stopped", script.at \in Busy \/ ~conf.dry,
         script.k <= Len(Requests(conf.mode)), UNCHANGED confs, torn' \subseteq Pairs,
         NEW place \in Busy, GoTo(place),
         \A pair \in Pairs, ext \in Exts :
           pair # Pair => files'[Out(pair, ext)] = files[Out(pair, ext)]
  PROVE  /\ ScriptInv' /\ Done' /\ script'.at = place /\ run' = run /\ conf' = conf /\ Pair' = Pair
<1>1. /\ script'.at = place /\ script'.k = script.k /\ script'.code = script.code
      /\ script' \in [at : Places, k : Nat, code : {"none", "ok", "failed", "crashed"}]
  BY GoesTo DEF IInv, Busy, Places
<1>2. run' = run /\ conf' = conf /\ Pair' = Pair
  BY <1>1, ConfStays
<1>3. ScriptInv'
  BY <1>1, <1>2 DEF IInv, ScriptInv, Busy
<1>4. Done'
  BY <1>1, DoneKept DEF IInv, Busy
<1>. QED  BY <1>1, <1>2, <1>3, <1>4

LEMMA CallKeeps == IInv /\ Call => Keeps
<1>. SUFFICES ASSUME IInv, Call PROVE Keeps
  OBVIOUS
<1> DEFINE opt == [algo |-> Pair[1].algo, csv |-> Tmp(Pair, "csv"), json |-> Tmp(Pair, "json")]
<1>1. script.at = "call" /\ GoTo("wait") /\ Start(run, opt) /\ UNCHANGED <<confs, torn, raw>>
  BY DEF Call
<1>2. /\ UNCHANGED files /\ ~Running
      /\ main' = [at |-> "start", run |-> run, opt |-> opt, results |-> <<>>, code |-> 0]
  BY <1>1 DEF Start
<1>3. script.k <= Len(Requests(conf.mode)) /\ torn \subseteq Pairs
  BY <1>1 DEF IInv, ScriptInv, Busy
<1>4. Pair \in Pairs /\ run \in Nat
  BY <1>1, <1>3, AtHand DEF IInv
<1>5. opt.csv \in Paths /\ opt.json \in Paths /\ opt.csv # opt.json
  BY <1>4, PathsAre DEF Exts
<1>. HIDE DEF opt
<1>6. MainInv' /\ WritesOwn
  BY <1>1, <1>4, <1>5, StartKeeps DEF IInv
<1>7. FileInv'
  BY <1>6, FilesStay DEF IInv
<1>8. /\ ScriptInv' /\ Done' /\ script'.at = "wait" /\ run' = run /\ conf' = conf /\ Pair' = Pair
  BY <1>1, <1>2, <1>3, BusyKeeps DEF IInv, Busy
<1>9. Prefixed'
  BY <1>2, <1>8 DEF IInv, Prefixed
<1>10. MainOfPair'
  BY <1>2, <1>8 DEF MainOfPair, opt
<1>11. OutsStay
  BY <1>2 DEF OutsStay
<1>12. PublishedWhole' /\ PairOfOneRun' /\ StaysThere
  BY <1>1, <1>11, OutsKept DEF IInv
<1>13. Moving'
  BY <1>8 DEF Moving
<1>. QED  BY <1>6, <1>7, <1>8, <1>9, <1>10, <1>12, <1>13 DEF IInv, Keeps

\* What the benchmark, or a kill of it, does to the files of the script: only the
\* temporary files of the pair change, and hold prefixes.
LEMMA ChildWrites ==
  ASSUME IInv, WritesOwn, script.at = "wait", UNCHANGED confs
  PROVE  FileInv' /\ OutsStay /\ Prefixed'
<1>1. script.k <= Len(Requests(conf.mode))
  BY DEF IInv, ScriptInv, Busy
<1>2. PICK pair \in Pairs : pair = Pair
  BY <1>1, AtHand DEF IInv
<1>3. /\ main.run = run
      /\ main.opt = [algo |-> pair[1].algo, csv |-> Tmp(pair, "csv"), json |-> Tmp(pair, "json")]
  BY <1>2 DEF IInv, MainOfPair
<1>4. main.opt.csv = Tmp(pair, "csv") /\ main.opt.json = Tmp(pair, "json")
      /\ Selected = SelectedBy(pair[1].algo)
  BY <1>3 DEF Selected
<1>5. /\ Tmp(pair, "csv")[1] = pair /\ Tmp(pair, "csv")[2] = "csv" /\ Tmp(pair, "csv")[3] = "tmp"
      /\ Tmp(pair, "json")[1] = pair /\ Tmp(pair, "json")[2] = "json" /\ Tmp(pair, "json")[3] = "tmp"
  BY DEF Tmp
<1>6. OutsStay
  <2>1. SUFFICES ASSUME NEW p \in Pairs, NEW e \in Exts PROVE files'[Out(p, e)] = files[Out(p, e)]
    BY DEF OutsStay
  <2>2. Out(p, e)[3] = "out" /\ Out(p, e) \in Paths
    BY PathsAre
  <2>3. Out(p, e) \notin {main.opt.csv, main.opt.json}
    BY <1>4, <1>5, <2>2
  <2>. QED  BY <2>2, <2>3 DEF WritesOwn
<1>7. ASSUME NEW path \in Paths
      PROVE  IsPrefix(files'[path].items, Whole(path[1], path[2])) /\ files'[path].run \in 0..run
  <2>1. CASE files'[path] = files[path]
    BY <2>1 DEF IInv, Prefixed
  <2>2. CASE files'[path] # files[path]
    <3>1. /\ path \in {main.opt.csv, main.opt.json}
          /\ files'[path].run = main.run /\ files'[path].items \in Seq(Items)
          /\ path = main.opt.csv => IsPrefix(files'[path].items, CsvOf(Selected))
          /\ path = main.opt.json => Selected # <<>> /\ IsPrefix(files'[path].items, JsonOf(Selected))
      BY <2>2 DEF WritesOwn
    <3>2. run \in Nat
      BY AtHand DEF IInv
    <3>3. CASE path = main.opt.csv
      <4>1. path[1] = pair /\ path[2] = "csv"
        BY <1>4, <1>5, <3>3
      <4>2. IsPrefix(files'[path].items, Whole(pair, "csv"))
        BY <1>4, <3>1, <3>3, SelectedForJob
      <4>. QED  BY <1>3, <3>1, <3>2, <4>1, <4>2
    <3>4. CASE path = main.opt.json
      <4>1. path[1] = pair /\ path[2] = "json"
        BY <1>4, <1>5, <3>4
      <4>2. Selected = <<pair[1].algo>>
        BY <1>4, <3>1, <3>4, SelectedForJob, <<>> \in Seq(Items)
      <4>3. Whole(pair, "json") = JsonOf(Selected)
        BY <4>2 DEF Whole
      <4>. QED  BY <1>3, <3>1, <3>2, <3>4, <4>1, <4>3
    <3>. QED  BY <3>1, <3>3, <3>4
  <2>. QED  BY <2>1, <2>2
<1>8. FileInv'
  BY FilesStay DEF IInv
<1>9. run' = run
  BY ConfStays
<1>. QED  BY <1>6, <1>7, <1>8, <1>9 DEF Prefixed

LEMMA BenchmarkKeeps == IInv /\ Benchmark => Keeps
<1>. SUFFICES ASSUME IInv, Benchmark PROVE Keeps
  OBVIOUS
<1>1. script.at = "wait" /\ MainStep /\ UNCHANGED <<script, confs, torn, raw>>
  BY DEF Benchmark
<1>2. MainInv /\ FileInv
  BY DEF IInv
<1>3. MainInv' /\ WritesOwn /\ main'.run = main.run /\ main'.opt = main.opt
  BY <1>1, <1>2, MainSteps DEF Steps
<1>4. main'.at # "none"
  BY <1>1, <1>2, AtKeeps, ExitKeeps
     DEF MainInv, MainStep, GiveUp, OpenCsv, RunAlgorithm, RanAll, CloseCsv, OpenJson, WriteJson
<1>5. FileInv' /\ OutsStay /\ Prefixed'
  BY <1>1, <1>3, ChildWrites
<1>6. run' = run /\ conf' = conf /\ Pair' = Pair
  BY <1>1, ConfStays
<1>7. ScriptInv'
  BY <1>1, <1>6 DEF IInv, ScriptInv, Busy
<1>8. MainOfPair'
  BY <1>1, <1>3, <1>4, <1>6 DEF IInv, MainOfPair
<1>9. Moving'
  BY <1>1 DEF Moving
<1>10. Done'
  BY <1>1, <1>5, DoneKept DEF IInv, OutsStay
<1>11. PublishedWhole' /\ PairOfOneRun' /\ StaysThere
  BY <1>1, <1>5, OutsKept DEF IInv
<1>. QED  BY <1>3, <1>5, <1>7, <1>8, <1>9, <1>10, <1>11 DEF IInv, Keeps

LEMMA CrashKeeps == IInv /\ Crash => Keeps
<1>. SUFFICES ASSUME IInv, Crash PROVE Keeps
  OBVIOUS
<1>1. script.at # "stopped" /\ MainKilled /\ Stop("crashed") /\ UNCHANGED <<confs, torn, raw>>
  BY DEF Crash
<1>2. MainInv' /\ WritesOwn /\ main' = Idle
  BY <1>1, KilledKeeps DEF IInv
<1>3. FileInv' /\ OutsStay /\ Prefixed'
  <2>1. CASE script.at = "wait"
    BY <1>1, <1>2, <2>1, ChildWrites
  <2>2. CASE script.at # "wait"
    <3>1. UNCHANGED files
      BY <1>1, <2>2 DEF IInv, MainOfPair, MainKilled
    <3>2. run' = run
      BY <1>1, ConfStays
    <3>. QED  BY <3>1, <3>2 DEF IInv, FileInv, OutsStay, Prefixed
  <2>. QED  BY <2>1, <2>2
<1>4. torn' \subseteq Pairs
  BY <1>1 DEF IInv, ScriptInv
<1>5. script'.at = "stopped" /\ script'.code = "crashed"
  BY <1>1 DEF Stop, IInv, ScriptInv
<1>6. ScriptInv' /\ Done' /\ Moving'
  BY <1>1, <1>4, <1>5, StopKeeps, StopsUndone DEF IInv
<1>7. MainOfPair'
  BY <1>2, <1>5 DEF MainOfPair, Idle
<1>8. PublishedWhole' /\ PairOfOneRun' /\ StaysThere
  BY <1>1, <1>3, OutsKept DEF IInv
<1>. QED  BY <1>2, <1>3, <1>6, <1>7, <1>8 DEF IInv, Keeps

\* Whether a file is whole, by its pair and extension.
LEMMA WholeIs ==
  ASSUME NEW p, NEW e
  PROVE  /\ WholeOrLost(Out(p, e)) <=> files[Out(p, e)].items = Whole(p, e) \/ files[Out(p, e)].lost
         /\ WholeOrLost(Tmp(p, e)) <=> files[Tmp(p, e)].items = Whole(p, e) \/ files[Tmp(p, e)].lost
         /\ WholeOrLost(Out(p, e))' <=> files'[Out(p, e)].items = Whole(p, e) \/ files'[Out(p, e)].lost
         /\ WholeOrLost(Tmp(p, e))' <=> files'[Tmp(p, e)].items = Whole(p, e) \/ files'[Tmp(p, e)].lost
<1>1. Out(p, e)[1] = p /\ Out(p, e)[2] = e /\ Tmp(p, e)[1] = p /\ Tmp(p, e)[2] = e
  BY DEF Out, Tmp
<1>. QED  BY <1>1 DEF WholeOrLost

LEMMA WholeIsSome ==
  ASSUME NEW p, NEW e
  PROVE  Whole(p, e) # <<>>
<1> DEFINE a == p[1]
           S == {a, "header", "config", "end"}
<1>1. <<"header">> \o <<a>> \in Seq(S) /\ Len(<<"header">> \o <<a>>) = 2
  OBVIOUS
<1>2. /\ <<"config">> \o <<a>> \in Seq(S) /\ <<"end">> \in Seq(S)
      /\ Len(<<"config">> \o <<a>>) = 2 /\ Len(<<"end">>) = 1
  OBVIOUS
<1>. HIDE DEF S
<1>3. Len(<<"config">> \o <<a>> \o <<"end">>) = 3
  BY <1>2
<1>4. Len(<<>>) = 0
  OBVIOUS
<1>. QED  BY <1>1, <1>3, <1>4 DEF Whole, CsvOf, JsonOf

LEMMA WaitedKeeps == IInv /\ Waited => Keeps
<1>. SUFFICES ASSUME IInv, Waited PROVE Keeps
  OBVIOUS
<1>1. /\ script.at = "wait" /\ main.at = "exited" /\ main' = Idle /\ UNCHANGED <<files, confs, torn, raw>>
      /\ IF ExitedBadly THEN Stop("failed") ELSE GoTo("mv_csv")
  BY DEF Waited
<1>2. MainInv'
  BY <1>1, KilledKeeps DEF IInv, MainKilled
<1>3. FileInv' /\ OutsStay
  BY <1>1 DEF IInv, FileInv, OutsStay
<1>4. run' = run
  BY <1>1, ConfStays
<1>5. Prefixed'
  BY <1>1, <1>4 DEF IInv, Prefixed
<1>6. PublishedWhole' /\ PairOfOneRun' /\ StaysThere
  BY <1>1, <1>3, OutsKept DEF IInv
<1>7. torn' \subseteq Pairs /\ script.k <= Len(Requests(conf.mode))
  BY <1>1 DEF IInv, ScriptInv, Busy
<1>8. CASE ExitedBadly
  <2>1. script'.at = "stopped" /\ script'.code = "failed"
    BY <1>1, <1>8 DEF Stop, IInv, ScriptInv
  <2>2. ScriptInv' /\ Done' /\ Moving'
    BY <1>1, <1>7, <1>8, <2>1, StopKeeps, StopsUndone DEF IInv
  <2>3. MainOfPair'
    BY <1>1, <2>1 DEF MainOfPair, Idle
  <2>. QED  BY <1>2, <1>3, <1>5, <1>6, <2>2, <2>3 DEF IInv, Keeps
<1>9. CASE ~ExitedBadly
  <2>1. /\ ScriptInv' /\ Done' /\ script'.at = "mv_csv" /\ conf' = conf /\ Pair' = Pair
    BY <1>1, <1>7, <1>9, BusyKeeps DEF IInv, Busy
  <2>2. MainOfPair'
    BY <1>1, <2>1 DEF MainOfPair, Idle
  <2>3. PICK pair \in Pairs : pair = Pair
    BY <1>1, <1>7, AtHand DEF IInv
  <2>4. /\ main.run = run
        /\ main.opt = [algo |-> pair[1].algo, csv |-> Tmp(pair, "csv"), json |-> Tmp(pair, "json")]
    BY <1>1, <2>3 DEF IInv, MainOfPair
  <2>5. /\ main.opt.csv = Tmp(pair, "csv") /\ main.opt.json = Tmp(pair, "json")
        /\ main.opt.algo = pair[1].algo
    BY <2>4
  <2>6. Tmp(pair, "csv") \in Paths /\ Tmp(pair, "json") \in Paths
    BY PathsAre DEF Exts
  <2>7. SelectedBy(pair[1].algo) # <<>> /\ CsvDone(files, main) /\ JsonDone(files, main)
    BY <1>1, <1>9, <2>5 DEF ExitedBadly, IInv, MainInv, Selected
  <2>8. SelectedBy(pair[1].algo) = <<pair[1].algo>>
    BY <2>7, SelectedForJob, <<>> \in Seq(Items)
  <2>9. CsvOf(<<pair[1].algo>>) = Whole(pair, "csv") /\ JsonOf(<<pair[1].algo>>) = Whole(pair, "json")
    BY DEF Whole
  <2>10. /\ files[Tmp(pair, "csv")].run = run
         /\ files[Tmp(pair, "csv")].items = Whole(pair, "csv") \/ files[Tmp(pair, "csv")].lost
    BY <2>4, <2>5, <2>6, <2>7, <2>8, <2>9, PathsAssumption DEF CsvDone
  <2>11. /\ files[Tmp(pair, "json")].run = run
         /\ files[Tmp(pair, "json")].items = Whole(pair, "json") \/ files[Tmp(pair, "json")].lost
    BY <2>4, <2>5, <2>6, <2>7, <2>8, <2>9, PathsAssumption DEF JsonDone
  <2>12. \A ext \in Exts : Made(Tmp(pair, ext))
    <3>1. \A ext \in Exts : files[Tmp(pair, ext)].there
      BY <2>6, <2>10, <2>11, WholeIsSome DEF IInv, FileInv, Exts
    <3>. QED  BY <2>10, <2>11, <3>1, WholeIs DEF Made, Exts
  <2>13. Moving'
    BY <1>1, <1>4, <2>1, <2>3, <2>12 DEF Moving, Made, WholeOrLost
  <2>. QED  BY <1>2, <1>3, <1>5, <1>6, <2>1, <2>2, <2>13 DEF IInv, Keeps
<1>. QED  BY <1>8, <1>9

\* Paths are equal only when all of their parts are.
LEMMA PathsDiffer ==
  ASSUME NEW p, NEW e, NEW q, NEW f
  PROVE  /\ Out(p, e) = Out(q, f) <=> p = q /\ e = f
         /\ Tmp(p, e) = Tmp(q, f) <=> p = q /\ e = f
         /\ Out(p, e) # Tmp(q, f)
<1>1. "out" # "tmp"
  OBVIOUS
<1>. QED  BY <1>1 DEF Out, Tmp

LEMMA AbsentIs ==
  /\ Absent.run = 0 /\ Absent.items = <<>> /\ ~Absent.lost /\ ~Absent.there
  /\ Absent.run \in Nat /\ Absent.items \in Seq(Items) /\ Absent.lost \in BOOLEAN
<1>1. <<>> \in Seq(Items)
  OBVIOUS
<1>. QED  BY <1>1 DEF Absent

\* Removing files of the pair keeps what is said of the files.
LEMMA RemovingKeeps ==
  ASSUME FileInv, Prefixed, UNCHANGED confs, NEW S, Removes(S)
  PROVE  /\ \A path \in Paths : files'[path] = IF path \in S THEN Absent ELSE files[path]
         /\ FileInv' /\ Prefixed'
<1>1. \A path \in Paths : files'[path] = IF path \in S THEN Absent ELSE files[path]
  BY DEF Removes
<1>2. FileInv'
  <2>1. files' = [path \in Paths |-> files'[path]]
    BY DEF Removes
  <2>2. ASSUME NEW path \in Paths
        PROVE  /\ files'[path].run \in Nat /\ files'[path].items \in Seq(Items)
               /\ files'[path].lost \in BOOLEAN
               /\ ~files'[path].there => files'[path].items = <<>> /\ ~files'[path].lost
    <3>1. files'[path] = Absent \/ files'[path] = files[path]
      BY <1>1
    <3>. QED  BY <3>1, AbsentIs DEF FileInv
  <2>. QED  BY <2>1, <2>2 DEF FileInv
<1>3. Prefixed'
  <2>1. run' = run /\ run \in Nat
    BY ConfStays DEF Prefixed, FileInv, run
  <2>. QED  BY <1>1, <2>1, NothingIsWhole DEF Prefixed, Absent
<1>. QED  BY <1>1, <1>2, <1>3

LEMMA CleanKeeps == IInv /\ Clean => Keeps
<1>. SUFFICES ASSUME IInv, Clean PROVE Keeps
  OBVIOUS
<1>0. PICK S : /\ S \subseteq Temporary \cup Empty(Exts) /\ Removes(S)
               /\ \/ IF conf.dry THEN NextPair ELSE GoTo("call")
                  \/ Stop("failed")
  <2>1. Empty({"csv"}) \subseteq Empty(Exts)
    BY DEF Empty, Exts
  <2>. QED  BY <2>1 DEF Clean
<1>1. /\ script.at = "next" /\ script.k <= Len(Requests(conf.mode)) /\ Removes(S)
      /\ UNCHANGED <<main, confs, torn, raw>>
  BY <1>0 DEF Clean
<1>2. PICK pair \in Pairs : pair = Pair
  BY <1>1, AtHand DEF IInv
<1>3. /\ \A path \in Paths : files'[path] = IF path \in S THEN Absent ELSE files[path]
      /\ FileInv' /\ Prefixed'
  BY <1>1, RemovingKeeps DEF IInv
<1>4. \A q \in Pairs, ext \in Exts :
        /\ Out(q, ext) \in S => q = pair /\ ~Filled(Out(q, ext))
        /\ files'[Out(q, ext)] = IF Out(q, ext) \in S THEN Absent ELSE files[Out(q, ext)]
  <2>1. ASSUME NEW q \in Pairs, NEW ext \in Exts, Out(q, ext) \in S
        PROVE  q = pair /\ ~Filled(Out(q, ext))
    BY <1>0, <1>2, <2>1, PathsDiffer DEF Temporary, Empty
  <2>. QED  BY <1>3, <2>1, PathsAre
<1>5. run' = run /\ conf' = conf
  BY <1>1, ConfStays
<1>6. PublishedWhole'
  BY <1>4, WholeIs DEF IInv, PublishedWhole, Absent
<1>7. PairOfOneRun'
  <2>1. SUFFICES ASSUME NEW q \in Pairs \ torn, Published(q)'
        PROVE  files'[Out(q, "csv")].run = files'[Out(q, "json")].run
    BY <1>1 DEF PairOfOneRun
  <2>2. \A ext \in Exts : files'[Out(q, ext)].items # <<>>
    BY <2>1 DEF Published, Filled
  <2>3. \A ext \in Exts : files'[Out(q, ext)] = files[Out(q, ext)]
    BY <1>4, <2>2 DEF Absent
  <2>4. Published(q)
    BY <2>2, <2>3 DEF Published, Filled
  <2>. QED  BY <2>3, <2>4 DEF IInv, PairOfOneRun, Exts
<1>8. StaysThere
  BY <1>4, FilledIsThere DEF IInv, StaysThere
<1>9. MainInv'
  BY <1>1 DEF IInv, MainInv, MainOfPair, Selected
<1>10. torn' \subseteq Pairs
  BY <1>1 DEF IInv, ScriptInv
<1>11. CASE conf.dry /\ NextPair
  <2>1. /\ script'.at = "next" /\ script'.k = script.k + 1 /\ script'.code = script.code
        /\ script' \in [at : Places, k : Nat, code : {"none", "ok", "failed", "crashed"}]
    BY <1>1, <1>11, NextIs DEF IInv
  <2>2. /\ Len(Requests(conf.mode)) \in 0..2 * Len(Jobs) /\ script.k \in 1..Len(Requests(conf.mode)) + 1
        /\ Len(Jobs) \in Nat
    BY <1>1, AtHand, JobsAssumption DEF IInv
  <2>3. ScriptInv'
    BY <1>1, <1>5, <1>10, <2>1, <2>2 DEF IInv, ScriptInv, Busy
  <2>4. Done' /\ Moving' /\ MainOfPair'
    BY <1>1, <1>5, <1>11, <2>1 DEF IInv, Done, Moving, MainOfPair
  <2>. QED  BY <1>3, <1>6, <1>7, <1>8, <1>9, <2>3, <2>4 DEF IInv, Keeps
<1>12. CASE ~conf.dry /\ GoTo("call")
  <2>1. \A q \in Pairs, ext \in Exts : q # Pair => files'[Out(q, ext)] = files[Out(q, ext)]
    BY <1>2, <1>4
  <2>2. /\ ScriptInv' /\ Done' /\ script'.at = "call"
    BY <1>1, <1>10, <1>12, <2>1, BusyKeeps DEF IInv, Busy
  <2>3. Moving' /\ MainOfPair'
    BY <1>1, <2>2 DEF IInv, Moving, MainOfPair
  <2>. QED  BY <1>3, <1>6, <1>7, <1>8, <1>9, <2>2, <2>3 DEF IInv, Keeps
<1>13. CASE Stop("failed")
  <2>1. script'.at = "stopped" /\ script'.code = "failed"
    BY <1>13 DEF Stop, IInv, ScriptInv
  <2>2. ScriptInv' /\ Done' /\ Moving'
    BY <1>1, <1>10, <1>13, <2>1, StopKeeps, StopsUndone DEF IInv
  <2>3. MainOfPair'
    BY <1>1, <2>1 DEF IInv, MainOfPair
  <2>. QED  BY <1>3, <1>6, <1>7, <1>8, <1>9, <2>2, <2>3 DEF IInv, Keeps
<1>. QED  BY <1>0, <1>11, <1>12, <1>13

\* A rename moves what was made to where it is published, and touches nothing else.
LEMMA Renamed ==
  ASSUME FileInv, Prefixed, UNCHANGED confs, Pair \in Pairs, NEW e \in Exts, Renames(e)
  PROVE  /\ FileInv' /\ Prefixed'
         /\ \A q \in Pairs, ext \in Exts :
              /\ files'[Out(q, ext)] = IF q = Pair /\ ext = e THEN files[Tmp(q, ext)]
                                                              ELSE files[Out(q, ext)]
              /\ files'[Tmp(q, ext)] = IF q = Pair /\ ext = e THEN Absent ELSE files[Tmp(q, ext)]
<1>1. PICK pair \in Pairs : pair = Pair
  OBVIOUS
<1>2. /\ Out(pair, e) \in Paths /\ Out(pair, e)[1] = pair /\ Out(pair, e)[2] = e
      /\ Tmp(pair, e) \in Paths /\ Tmp(pair, e)[1] = pair /\ Tmp(pair, e)[2] = e
      /\ Out(pair, e) # Tmp(pair, e)
  BY PathsAre, PathsDiffer
<1>3. files' = [files EXCEPT ![Out(pair, e)] = files[Tmp(pair, e)], ![Tmp(pair, e)] = Absent]
  BY <1>1 DEF Renames
<1>4. /\ files' = [path \in Paths |-> files'[path]]
      /\ \A path \in Paths :
           files'[path] = IF path = Tmp(pair, e) THEN Absent
                          ELSE IF path = Out(pair, e) THEN files[Tmp(pair, e)] ELSE files[path]
  BY <1>2, <1>3 DEF FileInv
<1>5. FileInv'
  <2>1. ASSUME NEW path \in Paths
        PROVE  /\ files'[path].run \in Nat /\ files'[path].items \in Seq(Items)
               /\ files'[path].lost \in BOOLEAN
               /\ ~files'[path].there => files'[path].items = <<>> /\ ~files'[path].lost
    <3>1. files'[path] \in {Absent, files[Tmp(pair, e)], files[path]}
      BY <1>4
    <3>. QED  BY <1>2, <3>1, AbsentIs DEF FileInv
  <2>. QED  BY <1>4, <2>1 DEF FileInv
<1>6. Prefixed'
  <2>1. run' = run /\ run \in Nat
    BY <1>2, ConfStays DEF Prefixed, FileInv, run
  <2>. QED  BY <1>2, <1>4, <2>1, NothingIsWhole DEF Prefixed, Absent
<1>7. \A q \in Pairs, ext \in Exts :
        /\ Out(q, ext) \in Paths /\ Tmp(q, ext) \in Paths
        /\ Out(q, ext) # Tmp(pair, e) /\ Tmp(q, ext) # Out(pair, e)
        /\ Out(q, ext) = Out(pair, e) <=> q = pair /\ ext = e
        /\ Tmp(q, ext) = Tmp(pair, e) <=> q = pair /\ ext = e
  BY PathsAre, PathsDiffer
<1>. QED  BY <1>1, <1>4, <1>5, <1>6, <1>7

\* A rename that fails stops the script and changes nothing.
LEMMA FailedMove ==
  ASSUME IInv, script.at \in {"mv_csv", "mv_json"}, Stop("failed"),
         UNCHANGED <<files, main, confs, torn, raw>>
  PROVE  Keeps
<1>1. script'.at = "stopped" /\ script'.code = "failed"
  BY DEF Stop, IInv, ScriptInv
<1>2. torn' \subseteq Pairs
  BY DEF IInv, ScriptInv
<1>3. ScriptInv' /\ Done' /\ Moving'
  BY <1>1, <1>2, StopKeeps, StopsUndone DEF IInv
<1>. QED  BY <1>1, <1>3, ScriptMoves DEF IInv, Keeps

LEMMA MoveCsvKeeps == IInv /\ MoveCsv => Keeps
<1>. SUFFICES ASSUME IInv, MoveCsv PROVE Keeps
  OBVIOUS
<1>1. script.at = "mv_csv" /\ UNCHANGED <<main, confs, raw>>
  BY DEF MoveCsv
<1>2. CASE Stop("failed") /\ UNCHANGED <<files, torn>>
  BY <1>1, <1>2, FailedMove
<1>3. CASE Renames("csv") /\ GoTo("mv_json") /\ torn' = torn \cup {Pair}
  <2>1. script.k <= Len(Requests(conf.mode)) /\ torn \subseteq Pairs
    BY <1>1 DEF IInv, ScriptInv, Busy
  <2>2. PICK pair \in Pairs : pair = Pair
    BY <1>1, <2>1, AtHand DEF IInv
  <2>3. "csv" \in Exts /\ "json" \in Exts /\ "csv" # "json" /\ torn' \subseteq Pairs
    BY <1>3, <2>1, <2>2 DEF Exts
  <2>4. /\ FileInv' /\ Prefixed'
        /\ \A q \in Pairs, ext \in Exts :
             /\ files'[Out(q, ext)] = IF q = pair /\ ext = "csv" THEN files[Tmp(q, ext)]
                                                                 ELSE files[Out(q, ext)]
             /\ files'[Tmp(q, ext)] = IF q = pair /\ ext = "csv" THEN Absent ELSE files[Tmp(q, ext)]
    BY <1>1, <1>3, <2>2, <2>3, Renamed DEF IInv
  <2>5. Made(Tmp(pair, "csv")) /\ Made(Tmp(pair, "json"))
    BY <1>1, <2>2, <2>3 DEF IInv, Moving
  <2>6. /\ ScriptInv' /\ Done' /\ script'.at = "mv_json" /\ run' = run /\ conf' = conf /\ Pair' = pair
    BY <1>1, <1>3, <2>1, <2>2, <2>3, <2>4, BusyKeeps DEF IInv, Busy
  <2>7. Made(Out(pair, "csv"))' /\ Made(Tmp(pair, "json"))'
    BY <2>3, <2>4, <2>5, <2>6, WholeIs DEF Made
  <2>8. Moving'
    BY <1>3, <2>2, <2>6, <2>7 DEF Moving
  <2>9. PublishedWhole'
    BY <2>4, <2>5, WholeIs DEF IInv, PublishedWhole, Made
  <2>10. PairOfOneRun'
    <3>1. SUFFICES ASSUME NEW q \in Pairs \ torn', Published(q)'
          PROVE  files'[Out(q, "csv")].run = files'[Out(q, "json")].run
      BY DEF PairOfOneRun
    <3>2. q # pair /\ q \in Pairs \ torn
      BY <1>3, <2>2
    <3>3. \A ext \in Exts : files'[Out(q, ext)] = files[Out(q, ext)]
      BY <2>4, <3>2
    <3>4. Published(q)
      BY <3>1, <3>3 DEF Published, Filled
    <3>. QED  BY <2>3, <3>2, <3>3, <3>4 DEF IInv, PairOfOneRun
  <2>11. StaysThere
    BY <2>4, <2>5, FilledIsThere DEF IInv, StaysThere, Made
  <2>12. MainInv' /\ MainOfPair'
    BY <1>1, <2>6 DEF IInv, MainInv, MainOfPair, Selected
  <2>. QED  BY <2>4, <2>6, <2>8, <2>9, <2>10, <2>11, <2>12 DEF IInv, Keeps
<1>. QED  BY <1>2, <1>3 DEF MoveCsv

LEMMA MoveJsonKeeps == IInv /\ MoveJson => Keeps
<1>. SUFFICES ASSUME IInv, MoveJson PROVE Keeps
  OBVIOUS
<1>1. script.at = "mv_json" /\ UNCHANGED <<main, confs, raw>>
  BY DEF MoveJson
<1>2. CASE Stop("failed") /\ UNCHANGED <<files, torn>>
  BY <1>1, <1>2, FailedMove
<1>3. CASE Renames("json") /\ NextPair /\ torn' = torn \ {Pair}
  <2>1. script.k <= Len(Requests(conf.mode)) /\ torn \subseteq Pairs /\ ~conf.dry
    BY <1>1 DEF IInv, ScriptInv, Busy
  <2>2. PICK pair \in Pairs : pair = Pair /\ pair = Requests(conf.mode)[script.k]
    BY <1>1, <2>1, AtHand DEF IInv, Pair
  <2>3. "csv" \in Exts /\ "json" \in Exts /\ "csv" # "json" /\ torn' \subseteq Pairs
    BY <1>3, <2>1, <2>2 DEF Exts
  <2>4. /\ FileInv' /\ Prefixed'
        /\ \A q \in Pairs, ext \in Exts :
             /\ files'[Out(q, ext)] = IF q = pair /\ ext = "json" THEN files[Tmp(q, ext)]
                                                                  ELSE files[Out(q, ext)]
             /\ files'[Tmp(q, ext)] = IF q = pair /\ ext = "json" THEN Absent ELSE files[Tmp(q, ext)]
    BY <1>1, <1>3, <2>2, <2>3, Renamed DEF IInv
  <2>5. Made(Out(pair, "csv")) /\ Made(Tmp(pair, "json"))
    BY <1>1, <2>2 DEF IInv, Moving
  <2>6. run' = run /\ conf' = conf
    BY <1>1, ConfStays
  <2>7. /\ script'.at = "next" /\ script'.k = script.k + 1 /\ script'.code = script.code
        /\ script' \in [at : Places, k : Nat, code : {"none", "ok", "failed", "crashed"}]
    BY <1>3, NextIs DEF IInv
  <2>8. /\ Len(Requests(conf.mode)) \in 0..2 * Len(Jobs) /\ script.k \in 1..Len(Requests(conf.mode)) + 1
        /\ Len(Jobs) \in Nat
    BY <1>1, AtHand, JobsAssumption DEF IInv
  <2>9. ScriptInv'
    BY <1>1, <2>1, <2>3, <2>6, <2>7, <2>8 DEF IInv, ScriptInv, Busy
  <2>10. \A ext \in Exts :
           /\ files'[Out(pair, ext)].run = run /\ files'[Out(pair, ext)].there
           /\ WholeOrLost(Out(pair, ext))'
    BY <2>3, <2>4, <2>5, WholeIs DEF Made, Exts
  <2>11. PublishedWhole'
    BY <2>4, <2>5, WholeIs DEF IInv, PublishedWhole, Made
  <2>12. PairOfOneRun'
    <3>1. SUFFICES ASSUME NEW q \in Pairs \ torn', Published(q)'
          PROVE  files'[Out(q, "csv")].run = files'[Out(q, "json")].run
      BY DEF PairOfOneRun
    <3>2. CASE q = pair
      BY <2>3, <2>10, <3>2
    <3>3. CASE q # pair
      <4>1. q \in Pairs \ torn
        BY <1>3, <2>2, <3>3
      <4>2. \A ext \in Exts : files'[Out(q, ext)] = files[Out(q, ext)]
        BY <2>4, <3>3
      <4>3. Published(q)
        BY <3>1, <4>2 DEF Published, Filled
      <4>. QED  BY <2>3, <4>1, <4>2, <4>3 DEF IInv, PairOfOneRun
    <3>. QED  BY <3>2, <3>3
  <2>13. StaysThere
    BY <2>4, <2>5, FilledIsThere DEF IInv, StaysThere, Made
  <2>14. MainInv' /\ MainOfPair' /\ Moving'
    BY <1>1, <2>7 DEF IInv, MainInv, MainOfPair, Moving, Selected
  <2>15. Done'
    <3>1. ASSUME NEW i \in 1..script.k PROVE PairDone(Requests(conf.mode)[i])'
      <4>1. PICK q \in Pairs : q = Requests(conf.mode)[i]
        BY <1>1, <2>1, <2>8, AtHand DEF IInv
      <4>2. CASE q = pair
        <5>1. PairDone(q)'
          BY <2>6, <2>10, <4>2 DEF PairDone
        <5>. QED  BY <2>6, <4>1, <5>1 DEF PairDone
      <4>3. CASE q # pair
        <5>1. i \in 1..script.k - 1
          BY <2>2, <2>8, <4>1, <4>3
        <5>2. PairDone(q)
          BY <1>1, <2>1, <2>2, <4>1, <4>3, <5>1 DEF IInv, Done
        <5>3. \A ext \in Exts : files'[Out(q, ext)] = files[Out(q, ext)]
          BY <2>4, <4>3
        <5>4. PairDone(q)'
          BY <2>6, <5>2, <5>3, WholeIs DEF PairDone
        <5>. QED  BY <2>6, <4>1, <5>4 DEF PairDone
      <4>. QED  BY <4>2, <4>3
    <3>2. \A i \in 1..script'.k - 1 : i \in 1..script.k
      BY <2>7, <2>8
    <3>. QED  BY <2>6, <3>1, <3>2 DEF Done
  <2>. QED  BY <2>4, <2>9, <2>11, <2>12, <2>13, <2>14, <2>15 DEF IInv, Keeps
<1>. QED  BY <1>2, <1>3 DEF MoveJson
------------------------------------------------------------------------------
LEMMA InitEstablishes == Init => IInv
<1>. SUFFICES ASSUME Init PROVE IInv
  OBVIOUS
<1>1. /\ MainInit /\ script = [at |-> "stopped", k |-> 1, code |-> "none"] /\ confs = <<>> /\ torn = {}
  BY DEF Init
<1>2. MainInv /\ FileInv
  BY <1>1, NothingYet
<1>3. confs \in Seq(Options) /\ run = 0 /\ Len(Jobs) \in Nat
  BY <1>1, JobsAssumption DEF run
<1>4. ScriptInv
  BY <1>1, <1>3 DEF ScriptInv, Places, Busy
<1>5. \A path \in Paths : files[path] = Absent
  BY <1>1 DEF MainInit
<1>6. Prefixed
  BY <1>3, <1>5, AbsentIs, NothingIsWhole DEF Prefixed
<1>7. MainOfPair /\ Moving /\ Done
  BY <1>1 DEF MainInit, Idle, MainOfPair, Moving, Done
<1>8. \A pair \in Pairs, ext \in Exts : files[Out(pair, ext)] = Absent
  BY <1>5, PathsAre
<1>9. PublishedWhole /\ PairOfOneRun
  BY <1>8, AbsentIs DEF PublishedWhole, PairOfOneRun, Published, Filled, Exts
<1>. QED  BY <1>2, <1>4, <1>6, <1>7, <1>9 DEF IInv

LEMMA Inductive == IInv /\ [Next]_vars => Keeps
<1>1. ASSUME IInv, UNCHANGED vars PROVE Keeps
  <2>1. UNCHANGED <<files, main, script, confs, torn>>
    BY <1>1 DEF vars
  <2>2. run' = run /\ conf' = conf /\ Pair' = Pair
    BY <2>1, ConfStays
  <2>3. MainInv' /\ FileInv'
    BY <1>1, <2>1 DEF IInv, MainInv, FileInv, CsvDone, JsonDone, Selected
  <2>4. ScriptInv' /\ Prefixed' /\ MainOfPair'
    BY <1>1, <2>1, <2>2 DEF IInv, ScriptInv, Prefixed, MainOfPair
  <2>5. Moving'
    BY <1>1, <2>1, <2>2 DEF IInv, Moving, Made, WholeOrLost
  <2>6. Done'
    BY <1>1, <2>1, <2>2 DEF IInv, Done, PairDone, WholeOrLost
  <2>7. OutsStay
    BY <2>1 DEF OutsStay
  <2>8. PublishedWhole' /\ PairOfOneRun' /\ StaysThere
    BY <1>1, <2>1, <2>7, OutsKept DEF IInv
  <2>. QED  BY <2>3, <2>4, <2>5, <2>6, <2>8 DEF IInv, Keeps
<1>. QED  BY <1>1, InvokeKeeps, BuildKeeps, SkipKeeps, CleanKeeps, CallKeeps, BenchmarkKeeps,
             WaitedKeeps, MoveCsvKeeps, MoveJsonKeeps, PlotKeeps, CrashKeeps DEF Next, ScriptStep
------------------------------------------------------------------------------
\* The files hold prefixes of what their pair is to hold, the temporary files that are
\* about to be renamed are whole, and main runs only while the script waits.
THEOREM TypeCorrect == Spec => []TypeOK
<1>1. Init => IInv
  BY InitEstablishes
<1>2. IInv => TypeOK
  BY DEF IInv, ScriptInv, Prefixed, MainOfPair, Moving, Made, TypeOK
<1>3. IInv /\ [Next]_vars => IInv'
  BY Inductive DEF Keeps
<1>. QED  BY <1>1, <1>2, <1>3, PTL DEF Spec

\* Nothing half written is ever published, for any jobs (the same one twice, one that
\* no algorithm has), options, number of invocations and moment of a kill.
THEOREM OnlyWholeIsPublished == Spec => []PublishedWhole
<1>1. Init => IInv
  BY InitEstablishes
<1>2. IInv => PublishedWhole
  BY DEF IInv
<1>3. IInv /\ [Next]_vars => IInv'
  BY Inductive DEF Keeps
<1>. QED  BY <1>1, <1>2, <1>3, PTL DEF Spec

\* Two published files that --skip-existing trusts are of one run, unless the script
\* that last published the pair was stopped between its renames.
THEOREM OneRunPerPair == Spec => []PairOfOneRun
<1>1. Init => IInv
  BY InitEstablishes
<1>2. IInv => PairOfOneRun
  BY DEF IInv
<1>3. IInv /\ [Next]_vars => IInv'
  BY Inductive DEF Keeps
<1>. QED  BY <1>1, <1>2, <1>3, PTL DEF Spec

\* With code 0 everything that was asked for is published, whole.
THEOREM ZeroIsPublished == Spec => []ExitZeroPublished
<1>1. Init => IInv
  BY InitEstablishes
<1>2. IInv => ExitZeroPublished
  <2>. SUFFICES ASSUME IInv, script.at = "stopped", script.code = "ok", ~conf.dry,
                       NEW k \in DOMAIN Requests(conf.mode), NEW ext \in Exts
                PROVE  LET path == Out(Requests(conf.mode)[k], ext) IN
                         /\ files[path].there /\ WholeOrLost(path)
                         /\ (conf.skip \/ files[path].run = run)
    BY DEF ExitZeroPublished
  <2>1. DOMAIN Requests(conf.mode) = 1..Len(Requests(conf.mode)) /\ Len(Requests(conf.mode)) \in Nat
    BY AtHand, RequestsAre DEF IInv
  <2>2. k \in 1..script.k - 1
    BY <2>1 DEF IInv, ScriptInv
  <2>3. PairDone(Requests(conf.mode)[k])
    BY <2>2 DEF IInv, Done, Busy
  <2>. QED  BY <2>3 DEF PairDone
<1>3. IInv /\ [Next]_vars => IInv'
  BY Inductive DEF Keeps
<1>. QED  BY <1>1, <1>2, <1>3, PTL DEF Spec

\* A published result is never lost: no step, and no kill, takes it away or leaves
\* something half written in its place.
THEOREM NothingIsUnpublished == Spec => NothingUnpublished
<1>1. Init => IInv
  BY InitEstablishes
<1>2. IInv /\ [Next]_vars =>
        IInv' /\ [\A pair \in Pairs, ext \in Exts :
                    Filled(Out(pair, ext)) =>
                      files'[Out(pair, ext)].there /\ WholeOrLost(Out(pair, ext))']_vars
  BY Inductive DEF Keeps, StaysThere, IInv, PublishedWhole
<1>. QED  BY <1>1, <1>2, PTL DEF Spec, NothingUnpublished
------------------------------------------------------------------------------
\* How many more steps the script can take at most, those of the benchmarks it waits
\* for included: what is left for the pair at hand, and 11 for each pair after it.
PairsAfter == (Len(Requests(conf.mode)) - script.k) * 11
ScriptLeft ==
  CASE script.at = "build" -> PairsAfter + 13
    [] script.at = "next" -> PairsAfter + 12
    [] script.at = "call" -> PairsAfter + 11
    [] script.at = "wait" -> PairsAfter + 4 + MainLeft
    [] script.at = "mv_csv" -> PairsAfter + 3
    [] script.at = "mv_json" -> PairsAfter + 2
    [] OTHER -> 0

ScriptCloser == ScriptLeft' \in Nat /\ ScriptLeft' < ScriptLeft
ScriptLeftIs ==
  /\ script.at = "build" => ScriptLeft = PairsAfter + 13
  /\ script.at = "next" => ScriptLeft = PairsAfter + 12
  /\ script.at = "call" => ScriptLeft = PairsAfter + 11
  /\ script.at = "wait" => ScriptLeft = PairsAfter + 4 + MainLeft
  /\ script.at = "mv_csv" => ScriptLeft = PairsAfter + 3
  /\ script.at = "mv_json" => ScriptLeft = PairsAfter + 2
  /\ script.at = "stopped" => ScriptLeft = 0

LEMMA ScriptLeftByPlace == ScriptLeftIs
<1>1. /\ script.at = "build" => ScriptLeft = PairsAfter + 13
      /\ script.at = "next" => ScriptLeft = PairsAfter + 12
      /\ script.at = "call" => ScriptLeft = PairsAfter + 11
  BY DEF ScriptLeft
<1>2. /\ script.at = "wait" => ScriptLeft = PairsAfter + 4 + MainLeft
      /\ script.at = "mv_csv" => ScriptLeft = PairsAfter + 3
  BY DEF ScriptLeft
<1>3. /\ script.at = "mv_json" => ScriptLeft = PairsAfter + 2
      /\ script.at = "stopped" => ScriptLeft = 0
  BY DEF ScriptLeft
<1>. QED  BY <1>1, <1>2, <1>3 DEF ScriptLeftIs

LEMMA ScriptLeftWillBe == ScriptLeftIs'
  BY ScriptLeftByPlace, PTL

\* The pairs after the one at hand: none is missing but when all are done.
LEMMA PairsAfterType ==
  ASSUME ScriptInv, script.at # "stopped"
  PROVE  /\ PairsAfter \in Int /\ PairsAfter >= -11
         /\ script.k <= Len(Requests(conf.mode)) => PairsAfter \in Nat
<1>1. /\ Len(Requests(conf.mode)) \in Nat /\ script.k \in Nat
      /\ script.k <= Len(Requests(conf.mode)) + 1
  <2>1. /\ Len(Requests(conf.mode)) \in 0..2 * Len(Jobs) /\ Len(Jobs) \in Nat
        /\ script.k \in 1..Len(Requests(conf.mode)) + 1
    BY AtHand, JobsAssumption
  <2>. QED  BY <2>1
<1>2. \A n, k \in Nat : k <= n + 1 =>
        /\ (n - k) * 11 \in Int /\ (n - k) * 11 >= -11
        /\ k <= n => (n - k) * 11 \in Nat
  OBVIOUS
<1>3. /\ (Len(Requests(conf.mode)) - script.k) * 11 \in Int
      /\ (Len(Requests(conf.mode)) - script.k) * 11 >= -11
      /\ script.k <= Len(Requests(conf.mode)) => (Len(Requests(conf.mode)) - script.k) * 11 \in Nat
  BY <1>1, <1>2, Zenon
<1>. QED  BY <1>3, Zenon DEF PairsAfter

\* The benchmark of one pair runs one algorithm at most.
LEMMA OneAlgorithm ==
  ASSUME IInv, script.at = "wait"
  PROVE  Len(Selected) \in 0..1 /\ MainLeft \in 0..6
<1>1. script.k <= Len(Requests(conf.mode))
  BY DEF IInv, ScriptInv, Busy
<1>2. PICK pair \in Pairs : pair = Pair
  BY <1>1, AtHand DEF IInv
<1>3. Selected = SelectedBy(pair[1].algo)
  BY <1>2 DEF IInv, MainOfPair, Selected
<1>4. <<>> \in Seq(Items)
  OBVIOUS
<1>5. Selected = <<>> \/ Selected = <<pair[1].algo>>
  BY <1>3, <1>4, SelectedForJob
<1>6. Len(Selected) \in 0..1
  BY <1>5
<1>7. MainLeft \in 0..Len(Selected) + 5
  BY MainLeftType DEF IInv
<1>8. \A l \in 0..1 : \A m \in 0..l + 5 : m \in 0..6
  OBVIOUS
<1>. QED  BY <1>6, <1>7, <1>8, Zenon

LEMMA SomethingLeft ==
  ASSUME IInv, script.at # "stopped"
  PROVE  ScriptLeft \in Nat \ {0}
<1>1. PairsAfter \in Int /\ PairsAfter >= -11
  BY PairsAfterType DEF IInv
<1>2. script.at \in Busy => PairsAfter \in Nat
  BY PairsAfterType DEF IInv, ScriptInv
<1>3. CASE script.at \in {"build", "next"}
  BY <1>1, <1>3, ScriptLeftByPlace DEF ScriptLeftIs
<1>4. CASE script.at \in {"call", "mv_csv", "mv_json"}
  BY <1>2, <1>4, ScriptLeftByPlace DEF ScriptLeftIs, Busy
<1>5. CASE script.at = "wait"
  <2>1. PairsAfter \in Nat /\ MainLeft \in Nat
    BY <1>2, <1>5, OneAlgorithm DEF Busy
  <2>2. ScriptLeft = PairsAfter + 4 + MainLeft
    BY <1>5, ScriptLeftByPlace DEF ScriptLeftIs
  <2>. QED  BY <2>1, <2>2
<1>. QED  BY <1>3, <1>4, <1>5 DEF IInv, ScriptInv, Places

\* The script stops, goes to another place of the same pair, or on to the next pair.
LEMMA StopCloser ==
  ASSUME IInv, script.at # "stopped", NEW code, Stop(code)
  PROVE  ScriptCloser
<1>1. script'.at = "stopped"
  BY DEF Stop, IInv, ScriptInv
<1>2. ScriptLeft' = 0
  BY <1>1, ScriptLeftWillBe DEF ScriptLeftIs
<1>. QED  BY <1>2, SomethingLeft DEF ScriptCloser

LEMMA GoCloser ==
  ASSUME IInv, UNCHANGED confs, NEW place \in Places, GoTo(place),
         \/ script.at = "build" /\ place = "next"
         \/ script.at = "wait" /\ place = "mv_csv"
         \/ script.at = "mv_csv" /\ place = "mv_json"
         \/ script.at = "next" /\ place = "call" /\ script.k <= Len(Requests(conf.mode))
  PROVE  ScriptCloser
<1>1. script'.at = place /\ script'.k = script.k
  BY GoesTo DEF IInv
<1>2. PairsAfter' = PairsAfter
  BY <1>1, ConfStays DEF PairsAfter
<1>3. PairsAfter \in Int /\ PairsAfter >= -11
      /\ (script.at # "build" => PairsAfter \in Nat)
  BY PairsAfterType DEF IInv, ScriptInv, Busy
<1>4. CASE \/ script.at = "build" /\ place = "next"
           \/ script.at = "next" /\ place = "call"
           \/ script.at = "mv_csv" /\ place = "mv_json"
  BY <1>1, <1>2, <1>3, <1>4, ScriptLeftByPlace, ScriptLeftWillBe DEF ScriptLeftIs, ScriptCloser
<1>5. CASE script.at = "wait" /\ place = "mv_csv"
  <2>1. ScriptLeft = PairsAfter + 4 + MainLeft /\ ScriptLeft' = PairsAfter + 3
    BY <1>1, <1>2, <1>5, ScriptLeftByPlace, ScriptLeftWillBe DEF ScriptLeftIs
  <2>2. MainLeft \in Nat
    BY <1>5, OneAlgorithm
  <2>. QED  BY <1>3, <1>5, <2>1, <2>2 DEF ScriptCloser
<1>. QED  BY <1>4, <1>5

LEMMA NextPairCloser ==
  ASSUME IInv, UNCHANGED confs, NextPair, script.at \in {"next", "mv_json"},
         script.k <= Len(Requests(conf.mode))
  PROVE  ScriptCloser
<1>1. script'.at = "next" /\ script'.k = script.k + 1
  BY NextIs DEF IInv
<1>2. conf' = conf
  BY ConfStays
<1>3. Len(Requests(conf.mode)) \in Nat /\ script.k \in Nat
  <2>1. /\ Len(Requests(conf.mode)) \in 0..2 * Len(Jobs) /\ Len(Jobs) \in Nat
        /\ script.k \in 1..Len(Requests(conf.mode)) + 1
    BY AtHand, JobsAssumption DEF IInv
  <2>. QED  BY <2>1
<1>4. \A n, k \in Nat : (n - (k + 1)) * 11 = (n - k) * 11 - 11
  OBVIOUS
<1>5. PairsAfter' = PairsAfter - 11
  BY <1>1, <1>2, <1>3, <1>4 DEF PairsAfter
<1>6. PairsAfter \in Nat
  BY PairsAfterType DEF IInv
<1>7. ScriptLeft' = PairsAfter - 11 + 12
  BY <1>1, <1>5, ScriptLeftWillBe DEF ScriptLeftIs
<1>8. ScriptLeft = PairsAfter + 12 \/ ScriptLeft = PairsAfter + 2
  BY ScriptLeftByPlace DEF ScriptLeftIs
<1>. QED  BY <1>6, <1>7, <1>8 DEF ScriptCloser

LEMMA CallCloser == IInv /\ Call => ScriptCloser
<1>. SUFFICES ASSUME IInv, Call PROVE ScriptCloser
  OBVIOUS
<1>1. script.at = "call" /\ GoTo("wait") /\ UNCHANGED confs
  BY DEF Call
<1>2. script'.at = "wait" /\ script'.k = script.k
  BY <1>1, GoesTo DEF IInv, Places
<1>3. PairsAfter' = PairsAfter
  BY <1>1, <1>2, ConfStays DEF PairsAfter
<1>4. PairsAfter \in Nat
  BY <1>1, PairsAfterType DEF IInv, ScriptInv, Busy
<1>5. IInv'
  BY CallKeeps DEF Keeps
<1>6. MainLeft' \in 0..6
  <2>1. IInv /\ script.at = "wait" => MainLeft \in 0..6
    BY OneAlgorithm
  <2>2. (IInv /\ script.at = "wait" => MainLeft \in 0..6)'
    BY OneAlgorithm, PTL
  <2>. QED  BY <1>2, <1>5, <2>2
<1>7. ScriptLeft = PairsAfter + 11 /\ ScriptLeft' = PairsAfter + 4 + MainLeft'
  BY <1>1, <1>2, <1>3, ScriptLeftByPlace, ScriptLeftWillBe DEF ScriptLeftIs
<1>8. \A a \in Nat : \A m \in 0..6 : a + 4 + m \in Nat /\ a + 4 + m < a + 11
  OBVIOUS
<1>9. PairsAfter + 4 + MainLeft' \in Nat /\ PairsAfter + 4 + MainLeft' < PairsAfter + 11
  BY <1>4, <1>6, <1>8, Zenon
<1>. QED  BY <1>7, <1>9, Zenon DEF ScriptCloser

LEMMA BenchmarkCloser == IInv /\ Benchmark => ScriptCloser
<1>. SUFFICES ASSUME IInv, Benchmark PROVE ScriptCloser
  OBVIOUS
<1>1. script.at = "wait" /\ MainStep /\ UNCHANGED <<script, confs>>
  BY DEF Benchmark
<1>2. PairsAfter' = PairsAfter
  BY <1>1, ConfStays DEF PairsAfter
<1>3. PairsAfter \in Nat
  BY <1>1, PairsAfterType DEF IInv, ScriptInv, Busy
<1>4. MainLeft' \in Nat /\ MainLeft' < MainLeft /\ MainLeft \in Nat
  BY <1>1, MainIsCloser, OneAlgorithm DEF IInv, MainCloser
<1>5. ScriptLeft = PairsAfter + 4 + MainLeft /\ ScriptLeft' = PairsAfter + 4 + MainLeft'
  BY <1>1, <1>2, ScriptLeftByPlace, ScriptLeftWillBe DEF ScriptLeftIs
<1>6. \A a, m, n \in Nat : n < m => a + 4 + n \in Nat /\ a + 4 + n < a + 4 + m
  OBVIOUS
<1>7. /\ PairsAfter + 4 + MainLeft' \in Nat
      /\ PairsAfter + 4 + MainLeft' < PairsAfter + 4 + MainLeft
  BY <1>3, <1>4, <1>6, Zenon
<1>. QED  BY <1>5, <1>7, Zenon DEF ScriptCloser

LEMMA ScriptIsCloser == IInv /\ (ScriptStep \/ Crash) => ScriptCloser
<1>. SUFFICES ASSUME IInv, ScriptStep \/ Crash PROVE ScriptCloser
  OBVIOUS
<1>1. CASE Build
  BY <1>1, StopCloser, GoCloser DEF Build, Places
<1>2. CASE Skip
  BY <1>2, NextPairCloser DEF Skip
<1>3. CASE Clean
  BY <1>3, NextPairCloser, GoCloser, StopCloser DEF Clean, Places
<1>4. CASE Waited
  BY <1>4, StopCloser, GoCloser DEF Waited, Places
<1>5. CASE MoveCsv
  BY <1>5, StopCloser, GoCloser DEF MoveCsv, Places
<1>6. CASE MoveJson
  <2>1. script.k <= Len(Requests(conf.mode))
    BY <1>6 DEF MoveJson, IInv, ScriptInv, Busy
  <2>. QED  BY <1>6, <2>1, StopCloser, NextPairCloser DEF MoveJson
<1>7. CASE Plot \/ Crash
  BY <1>7, StopCloser DEF Plot, Crash
<1>. QED  BY <1>1, <1>2, <1>3, <1>4, <1>5, <1>6, <1>7, CallCloser, BenchmarkCloser DEF ScriptStep

\* An invocation for n pairs stops after at most 11 * n + 2 steps, those of the
\* benchmarks included: it retries nothing that failed, and waits for nothing but the
\* benchmark it started, which is nearer its own end with each step.
THEOREM InvocationEnds ==
  Spec => [][/\ Invoke => ScriptLeft' = Len(Requests(conf'.mode)) * 11 + 2
             /\ script.at # "stopped" => ScriptLeft' \in Nat /\ ScriptLeft' < ScriptLeft]_vars
<1>1. Init => IInv
  BY InitEstablishes
<1>2. IInv /\ [Next]_vars => IInv'
  BY Inductive DEF Keeps
<1>3. IInv /\ Next /\ script.at # "stopped" => ScriptLeft' \in Nat /\ ScriptLeft' < ScriptLeft
  BY ScriptIsCloser DEF Next, Invoke, ScriptCloser
<1>4. IInv /\ Invoke => ScriptLeft' = Len(Requests(conf'.mode)) * 11 + 2
  <2>. SUFFICES ASSUME IInv, Invoke PROVE ScriptLeft' = Len(Requests(conf'.mode)) * 11 + 2
    OBVIOUS
  <2>1. PICK opt \in Options : confs' = Append(confs, opt)
    BY DEF Invoke
  <2>2. script'.at = "build" /\ script'.k = 1
    BY DEF Invoke
  <2>3. confs \in Seq(Options)
    BY DEF IInv, ScriptInv
  <2>4. conf' = opt /\ opt.mode \in Modes
    BY <2>1, <2>3, OptionsAssumption DEF conf, run, Modes
  <2>5. Len(Requests(opt.mode)) \in Nat
    BY <2>4, RequestsAre, JobsAssumption
  <2>6. ScriptLeft' = (Len(Requests(opt.mode)) - 1) * 11 + 13
    BY <2>2, <2>4, ScriptLeftWillBe DEF ScriptLeftIs, PairsAfter
  <2>. QED  BY <2>4, <2>5, <2>6
<1>. QED  BY <1>1, <1>2, <1>3, <1>4, PTL DEF Spec
------------------------------------------------------------------------------
\* What the join does keep: each row is of two invocations that there were, with the
\* same label.
JoinedAlike ==
  \A row \in raw : /\ row.seq \in 1..run /\ row.batch \in 1..run
                   /\ Label(row.seq, row.job) = Label(row.batch, row.job)
OneLoad == \A a, b \in 1..run : confs[a].set.load = confs[b].set.load

\* A file that is there was written by some invocation.
Numbered == \A path \in Paths : files[path].there => files[path].run >= 1

LEMMA WritesNumbered ==
  ASSUME IInv, Numbered, WritesOwn, script.at = "wait"
  PROVE  Numbered'
<1>1. main.run = run /\ run \in Nat \ {0}
  BY AtHand DEF IInv, MainOfPair
<1>2. \A path \in Paths : files'[path] = files[path] \/ files'[path].run = run
  BY <1>1 DEF WritesOwn
<1>. QED  BY <1>1, <1>2 DEF Numbered

LEMMA RenamesNumbered ==
  ASSUME IInv, Numbered, UNCHANGED confs, script.at \in Busy, NEW ext \in Exts, Renames(ext)
  PROVE  Numbered'
<1>1. Pair \in Pairs
  BY AtHand DEF IInv, ScriptInv, Busy
<1>2. \A q \in Pairs, e \in Exts :
        /\ files'[Out(q, e)] \in {files[Tmp(q, e)], files[Out(q, e)]}
        /\ files'[Tmp(q, e)] \in {Absent, files[Tmp(q, e)]}
  BY <1>1, Renamed DEF IInv
<1>3. \A q \in Pairs, e \in Exts : Out(q, e) \in Paths /\ Tmp(q, e) \in Paths
  BY PathsAre
<1>. SUFFICES ASSUME NEW path \in Paths, files'[path].there PROVE files'[path].run >= 1
  BY DEF Numbered
<1>4. PICK q \in Pairs, e \in Exts : path \in {Out(q, e), Tmp(q, e)}
  BY PathsAre
<1>5. files'[path] \in {Absent, files[Tmp(q, e)], files[Out(q, e)]}
  BY <1>2, <1>4
<1>6. files'[path] # Absent
  BY AbsentIs
<1>. QED  BY <1>3, <1>5, <1>6 DEF Numbered

LEMMA NumberedNext == IInv /\ Numbered /\ [Next]_vars => Numbered'
<1>. SUFFICES ASSUME IInv, Numbered, [Next]_vars PROVE Numbered'
  OBVIOUS
<1>1. UNCHANGED files => Numbered'
  BY DEF Numbered
<1>2. CASE Benchmark
  <2>1. WritesOwn /\ script.at = "wait"
    BY <1>2, MainSteps DEF Benchmark, IInv, Steps
  <2>. QED  BY <2>1, WritesNumbered
<1>3. CASE Crash
  <2>1. WritesOwn
    BY <1>3, KilledKeeps DEF Crash, IInv
  <2>2. script.at # "wait" => UNCHANGED files
    BY <1>3 DEF Crash, IInv, MainOfPair, MainKilled
  <2>. QED  BY <1>1, <2>1, <2>2, WritesNumbered
<1>4. CASE Clean
  <2>1. \A path \in Paths : files'[path] \in {Absent, files[path]}
    BY <1>4 DEF Clean, Removes
  <2>. QED  BY <2>1, AbsentIs DEF Numbered
<1>5. CASE MoveCsv \/ MoveJson
  BY <1>1, <1>5, RenamesNumbered DEF MoveCsv, MoveJson, Busy, Exts
<1>6. CASE Invoke \/ Build \/ Skip \/ Call \/ Waited \/ Plot
  BY <1>1, <1>6 DEF Invoke, Build, Skip, Call, Start, Waited, Plot
<1>7. CASE UNCHANGED vars
  BY <1>1, <1>7 DEF vars
<1>. QED  BY <1>2, <1>3, <1>4, <1>5, <1>6, <1>7 DEF Next, ScriptStep

\* The run of a row that is joined is the number of an invocation.
LEMMA RunOfIs ==
  ASSUME IInv, Numbered, NEW i \in DOMAIN Jobs, NEW kind \in {"seq", "batch"}, HasRow(Jobs[i], kind)
  PROVE  RunOf(Jobs[i], kind) \in 1..run
<1> DEFINE path == Out(<<Jobs[i], kind>>, "csv")
<1>1. <<Jobs[i], kind>> \in Pairs
  BY DEF Pairs
<1>2. path \in Paths
  BY <1>1, PathsAre DEF Exts
<1>. HIDE DEF path
<1>3. files[path].items \in Seq(Items) /\ Len(files[path].items) > 1
  BY <1>2 DEF IInv, FileInv, HasRow, path
<1>4. files[path].there
  BY <1>2, <1>3 DEF IInv, FileInv
<1>5. files[path].run >= 1 /\ files[path].run \in 0..run
  BY <1>2, <1>4 DEF Numbered, IInv, Prefixed
<1>. QED  BY <1>5 DEF RunOf, path

\* The options of an invocation are never changed.
LEMMA LabelsStay ==
  ASSUME IInv, [Next]_vars, NEW r \in 1..run, NEW job
  PROVE  r \in 1..run' /\ Label(r, job)' = Label(r, job)
<1>1. confs \in Seq(Options) /\ run = Len(confs)
  BY DEF IInv, ScriptInv, run
<1>2. confs' = confs \/ \E opt \in Options : confs' = Append(confs, opt)
  BY DEF Next, ScriptStep, Invoke, Build, Skip, Clean, Call, Benchmark, Waited, MoveCsv, MoveJson,
         Plot, Crash, vars
<1>3. r \in 1..Len(confs') /\ confs'[r] = confs[r]
  BY <1>1, <1>2
<1>. QED  BY <1>3 DEF Label, run

LEMMA JoinedNext == IInv /\ Numbered /\ JoinedAlike /\ [Next]_vars => JoinedAlike'
<1>. SUFFICES ASSUME IInv, Numbered, JoinedAlike, [Next]_vars, NEW row \in raw'
              PROVE  /\ row.seq \in 1..run' /\ row.batch \in 1..run'
                     /\ Label(row.seq, row.job)' = Label(row.batch, row.job)'
  BY DEF JoinedAlike
<1>1. raw' = raw \/ raw' = Joined
  BY DEF Next, ScriptStep, Invoke, Build, Skip, Clean, Call, Benchmark, Waited, MoveCsv, MoveJson,
         Plot, Crash, vars
<1>2. /\ row.seq \in 1..run /\ row.batch \in 1..run
      /\ Label(row.seq, row.job) = Label(row.batch, row.job)
  <2>1. CASE row \in raw
    BY <2>1 DEF JoinedAlike
  <2>2. CASE row \in Joined
    <3>1. PICK i \in DOMAIN Jobs :
            /\ HasRow(Jobs[i], "seq") /\ HasRow(Jobs[i], "batch")
            /\ Label(RunOf(Jobs[i], "seq"), Jobs[i]) = Label(RunOf(Jobs[i], "batch"), Jobs[i])
            /\ row = [job |-> Jobs[i], seq |-> RunOf(Jobs[i], "seq"),
                      batch |-> RunOf(Jobs[i], "batch")]
      BY <2>2 DEF Joined
    <3>2. RunOf(Jobs[i], "seq") \in 1..run /\ RunOf(Jobs[i], "batch") \in 1..run
      BY <3>1, RunOfIs
    <3>3. /\ row.job = Jobs[i] /\ row.seq = RunOf(Jobs[i], "seq")
          /\ row.batch = RunOf(Jobs[i], "batch")
      BY <3>1
    <3>. QED  BY <3>1, <3>2, <3>3
  <2>. QED  BY <1>1, <2>1, <2>2
<1>3. /\ row.seq \in 1..run' /\ Label(row.seq, row.job)' = Label(row.seq, row.job)
      /\ row.batch \in 1..run' /\ Label(row.batch, row.job)' = Label(row.batch, row.job)
  BY <1>2, LabelsStay
<1>. QED  BY <1>2, <1>3

\* What is left of the promise that SameBatch breaks: a speedup always compares two
\* runs of invocations that there were, with the same label; and as long as all
\* invocations in a directory had the same load, it compares the same messages.
THEOREM JoinIsOfOneLabel == Spec => [](JoinedAlike /\ (OneLoad => SameBatch))
<1>1. Init => IInv /\ Numbered /\ JoinedAlike
  <2>1. Init => Numbered
    BY AbsentIs DEF Init, MainInit, Numbered
  <2>2. Init => JoinedAlike
    BY DEF Init, JoinedAlike
  <2>. QED  BY <2>1, <2>2, InitEstablishes
<1>2. IInv /\ [Next]_vars => IInv'
  BY Inductive DEF Keeps
<1>3. JoinedAlike => (OneLoad => SameBatch)
  BY DEF JoinedAlike, OneLoad, SameBatch
<1>. QED  BY <1>1, <1>2, <1>3, NumberedNext, JoinedNext, PTL DEF Spec
==============================================================================
