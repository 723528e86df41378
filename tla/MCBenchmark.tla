------------------------------ MODULE MCBenchmark ------------------------------
(* Model-checking instance of Benchmark, see Benchmark.cfg for the values.    *)
EXTENDS Benchmark
==============================================================================
