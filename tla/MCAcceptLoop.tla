----------------------------- MODULE MCAcceptLoop -----------------------------
(* Model-checking instance of AcceptLoop, see the .cfg files for the values. *)
EXTENDS AcceptLoop
==============================================================================
