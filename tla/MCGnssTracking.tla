--------------------------- MODULE MCGnssTracking ---------------------------
(* Instances of GnssTracking for TLC: who owns which session. *)
EXTENDS GnssTracking, TLC

CONSTANTS s1, s2, s3, c1, c2

TwoOwners == (s1 :> c1) @@ (s2 :> c2)
OneOwner == (s1 :> c1) @@ (s2 :> c1)
ThreeSessions == (s1 :> c1) @@ (s2 :> c2) @@ (s3 :> c2)
=============================================================================
