------------------------------ MODULE MCLogin ------------------------------
(* Login for TLC. *)
EXTENDS Login, TLC

Symmetry == Permutations(Sessions)
=============================================================================
