----------------------------- MODULE MCSessions -----------------------------
(* Sessions on small instances. *)
EXTENDS Sessions, TLC

Symmetry ==
  Permutations(Worker) \cup Permutations(Slot) \cup Permutations(Conn)
  \cup Permutations(Session)

AllEffects == TransactionEffect
NoOpening == {"None", "Closes"}
=============================================================================
