----------------------------- MODULE MCDetection -----------------------------
(* Instances of Detection for TLC. *)
EXTENDS Detection, TLC

(* Devices and the metrics of one subject are interchangeable. *)
Symmetry == Permutations(Devices) \cup Permutations(DeviceMetrics)
=============================================================================
