-------------------------- MODULE MCDeviceRegistry --------------------------
(* Instances of DeviceRegistry for TLC: the constants are in the .cfg files, *)
(* but for the MAC that every uid has, that of one host that was renamed.    *)
EXTENDS DeviceRegistry

CONSTANT Renamed        \* the renamed host's MAC

RenamedHost == [u \in Uids |-> Renamed]
=============================================================================
