-------------------------- MODULE MCClientPrograms --------------------------
(* Model-checking instance of ClientPrograms.                              *)
EXTENDS ClientPrograms, TLC
=============================================================================
