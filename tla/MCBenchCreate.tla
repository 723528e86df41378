----------------------------- MODULE MCBenchCreate -----------------------------
(* Model-checking instance of BenchCreate, see the .cfg files for the values. *)
EXTENDS BenchCreate
================================================================================
