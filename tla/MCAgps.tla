------------------------------- MODULE MCAgps -------------------------------
(* Instances of Agps for TLC: the nifs carry the names releaseATL knows.   *)
EXTENDS Agps, TLC

CONSTANTS h1, h2, h3

TwoHandles == {h1, h2}
ThreeHandles == {h1, h2, h3}
JustAgnss == {"AGNSS"}
BothNifs == {"AGNSS", "INTERNET"}
HandleSymmetry == Permutations(Handles)
=============================================================================
