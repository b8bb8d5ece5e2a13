------------------------------ MODULE MCBench ------------------------------
(* Instances of Bench for TLC: a benchmark that waits for its result and one  *)
(* that does not, the latency benchmark, and three revisions of two kernels:  *)
(* one as recorded, one a little slower, one slower and with more registers.  *)
EXTENDS Bench

BenchmarkOf(name, kernel, waits) == [name |-> name, kernel |-> kernel, waits |-> waits]
SuitesTried ==
  [gpu_bench |-> <<BenchmarkOf("relu", "relu", TRUE), BenchmarkOf("mul f16", "mul", FALSE)>>,
   latency_bench |-> <<BenchmarkOf("1", "relu", FALSE), BenchmarkOf("2", "mul", FALSE)>>]

RevisionOf(relu, mul, registers) ==
  [k \in {"relu", "mul"} |-> IF k = "relu" THEN [time |-> relu, registers |-> registers]
                             ELSE [time |-> mul, registers |-> 8]]
RevisionsTried == {RevisionOf(20, 40, 8), RevisionOf(22, 40, 8), RevisionOf(30, 40, 9)}
=============================================================================
