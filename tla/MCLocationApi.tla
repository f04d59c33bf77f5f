---------------------------- MODULE MCLocationApi ----------------------------
(* Instances of LocationApi for TLC: the addresses of two objects. *)
EXTENDS LocationApi, TLC

CONSTANTS a1, a2

Addresses == Permutations({a1, a2})
=============================================================================
