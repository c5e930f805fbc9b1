---------------------------- MODULE MCPoolCache ----------------------------
(* PoolCache on small instances. *)
EXTENDS PoolCache, TLC

\* Discrete fields, and a connection string that overrides the same fields.
MCParam ==
  {[string |-> "blank", target |-> "db", password |-> "pw", rest |-> "plain"],
   [string |-> "uri",   target |-> "db", password |-> "pw", rest |-> "plain"]}

Symmetry == Permutations(Caller) \cup Permutations(Pool)
=============================================================================
