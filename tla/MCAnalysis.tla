----------------------------- MODULE MCAnalysis -----------------------------
(* Instances of Analysis for TLC: the constants are in the .cfg files. *)
EXTENDS Analysis
=============================================================================
