--------------------------- MODULE MCFduLifecycle ---------------------------
(* Model-checking instances of FduLifecycle.                               *)
EXTENDS FduLifecycle, TLC

ModelSymmetry ==
  Permutations(Nodes) \cup Permutations(Instances) \cup Permutations(Clients)
=============================================================================
