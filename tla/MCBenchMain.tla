----------------------------- MODULE MCBenchMain -----------------------------
(***************************************************************************)
(* Instances of BenchMain: a user, two files and the registry of the code. *)
(***************************************************************************)
EXTENDS BenchMain

MCRegistry == <<"hypericum", "shipovnik", "kryzhovnik">>
==============================================================================
