--------------------------- MODULE MCNetworkPlugin ---------------------------
(* Model-checking instances of NetworkPlugin.                              *)
EXTENDS NetworkPlugin, TLC

ModelSymmetry == Permutations(Ifaces) \cup Permutations(NetNs)
=============================================================================
