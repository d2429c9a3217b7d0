------------------------------ MODULE MCCapture ------------------------------
(* Instances of Capture for TLC: the constants are in the .cfg files. *)
EXTENDS Capture
=============================================================================
