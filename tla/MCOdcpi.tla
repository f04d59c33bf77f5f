------------------------------ MODULE MCOdcpi ------------------------------
(* Odcpi for TLC. *)
EXTENDS Odcpi
=============================================================================
