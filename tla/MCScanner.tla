----------------------------- MODULE MCScanner -----------------------------
(* Small instances of Scanner for TLC. *)
EXTENDS Scanner, TLC

Permutation == Permutations(Repos) \cup Permutations(Users)
=============================================================================
