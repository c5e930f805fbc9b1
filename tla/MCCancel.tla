------------------------------ MODULE MCCancel ------------------------------
(* Cancel on small instances. *)
EXTENDS Cancel, TLC

Symmetry ==
  Permutations(Request) \cup Permutations(Backend) \cup Permutations(OneShot)
=============================================================================
