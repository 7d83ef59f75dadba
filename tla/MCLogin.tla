------------------------------- MODULE MCLogin -------------------------------
(* Login for TLC: one request is like another. *)
EXTENDS Login, TLC

Symmetry == Permutations(Requests)
=============================================================================
