------------------------------ MODULE MCDataDir ------------------------------
(* Constants for model-checking DataDir. *)
EXTENDS DataDir

CONSTANTS i1, i2
=============================================================================
