------------------------------ MODULE BenchArgs ------------------------------
(***************************************************************************)
(* parse_args, parse_size and parse_int of bench/bench_batch.c; those of   *)
(* bench/bench_seq.c are the same code.  A number as typed is an integer:  *)
(* strtoull takes a sign and wraps it, strtol gives a long that is cut to  *)
(* an int.  File names and labels are not followed here.                   *)
(***************************************************************************)
EXTENDS Integers

CONSTANTS
  SizeMax,    \* SIZE_MAX = ULLONG_MAX
  IntValues   \* number of values of an int; LONG_MAX is SizeMax \div 2

SizeParses(n) == n \in -SizeMax..SizeMax
ParseSize(n) == n % (SizeMax + 1)

IntParses(n) == n \in -(SizeMax \div 2) - 1..SizeMax \div 2
ParseInt(n) == n % IntValues

\* What parse_args makes of the numbers typed.
Parsed(typed) ==
  [batch_size |-> ParseSize(typed.batch_size), iters |-> ParseSize(typed.iters),
   warmup |-> ParseSize(typed.warmup), msg_size |-> ParseSize(typed.msg_size),
   verify |-> ParseInt(typed.verify)]

\* The checks of parse_args.  There is none on warmup.
Accepts(typed) ==
  /\ \A option \in {"batch_size", "iters", "warmup", "msg_size"} : SizeParses(typed[option])
  /\ IntParses(typed.verify)
  /\ LET cfg == Parsed(typed) IN
       cfg.batch_size # 0 /\ cfg.iters # 0 /\ cfg.msg_size # 0 /\ cfg.verify \in {0, 1}

\* The configurations that a set of command lines makes.
ConfigsOf(typed) == {Parsed(t) : t \in {u \in typed : Accepts(u)}}
==============================================================================
