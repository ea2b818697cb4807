----------------------------- MODULE MCIdentity -----------------------------
(* Identity for TLC: the descriptors, addresses and packages are symmetric. *)
EXTENDS Identity, TLC

Symmetry ==
  Permutations(G \ {MainG}) \cup Permutations(Addr) \cup Permutations(Hook)
=============================================================================
