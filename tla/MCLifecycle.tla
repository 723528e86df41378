------------------------------ MODULE MCLifecycle ------------------------------
(* Model-checking instance of Lifecycle, see the .cfg files for the values.   *)
EXTENDS Lifecycle
================================================================================
