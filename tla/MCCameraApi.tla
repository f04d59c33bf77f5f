------------------------------ MODULE MCCameraApi ------------------------------
(* CameraApi for TLC: the steps that may fail. *)
EXTENDS CameraApi
FailingSteps == Steps \ {"commit"}
=============================================================================
