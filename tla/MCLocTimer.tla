----------------------------- MODULE MCLocTimer -----------------------------
(* Instances of LocTimer for TLC. *)
EXTENDS LocTimer, TLC

CONSTANTS t1, t2, d1, d2, d3, d4
DelegateSymmetry == Permutations(Delegates)
=============================================================================
