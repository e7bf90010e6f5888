---------------------------- MODULE MCBenchScript ----------------------------
(***************************************************************************)
(* Instances of BenchScript: one job, settings that differ in the build or *)
(* in the load, and up to three invocations.                               *)
(***************************************************************************)
EXTENDS BenchScript

MCRegistry == <<"hypericum", "shipovnik", "kryzhovnik">>
MCJobs == <<[algo |-> "shipovnik", batch_size |-> 4]>>

\* One benchmark again and again, with and without --skip-existing and --dry-run.
MCOptions == [set : {[params |-> "default", load |-> "a"]}, mode : {"batch"},
              skip : BOOLEAN, dry : {FALSE}]
        \cup [set : {[params |-> "default", load |-> "a"]}, mode : {"all", "seq"},
              skip : {TRUE}, dry : BOOLEAN]

\* Two sets of options, with the same build and another load.
LoadOptions == [set : [params : {"default"}, load : {"a", "b"}], mode : {"seq", "all"},
                skip : {TRUE}, dry : {FALSE}]
==============================================================================
