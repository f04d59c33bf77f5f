------------------------------ MODULE MCMmJpeg ------------------------------
(* Two cameras: the front one replaces its session while the back one has a *)
(* job of its own.                                                          *)
EXTENDS MmJpeg

CONSTANTS front, back

JobsEach == [c \in Clients |-> IF c = front THEN 2 ELSE 1]
SessionsEach == [c \in Clients |-> IF c = front THEN 2 ELSE 1]
=============================================================================
