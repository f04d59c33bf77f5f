---------------------------- MODULE MCNiSession ----------------------------
(* Instances of NiSession for TLC: requests and their types. *)
EXTENDS NiSession, TLC

CONSTANTS r1, r2, r3

OneEs == (r1 :> "other") @@ (r2 :> "es") @@ (r3 :> "cp")
NoEs == (r1 :> "other") @@ (r2 :> "other") @@ (r3 :> "cp")
=============================================================================
