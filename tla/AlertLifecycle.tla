---------------------------- MODULE AlertLifecycle ----------------------------
(***************************************************************************)
(* What the alert manager promises (the module comment of                  *)
(* src/detection/alert_manager.py): an anomaly event of a metric is        *)
(* created, stays active, is cleared and may be created again, and one     *)
(* event stores at most one alert, however long it lasts.                  *)
(*                                                                         *)
(* A key is one metric of one device, or of the network.  Several keys     *)
(* change at once because one evaluation covers every metric of a device.  *)
(***************************************************************************)
EXTENDS Naturals

CONSTANT Keys           \* the (subject, metric) pairs that can be anomalous

VARIABLES
  open,                 \* the keys whose event is under way
  stored                \* per key, the alert rows its present event has stored

lifecycleVars == <<open, stored>>

LifecycleInit ==
  /\ open = {}
  /\ stored = [k \in Keys |-> 0]

(* Events begin, each storing its one alert or losing it when the database *)
(* refuses it, and other events end.                                       *)
Advance(begun, ended, lost) ==
  /\ begun \cap open = {}
  /\ ended \subseteq open
  /\ open' = (open \cup begun) \ ended
  /\ stored' = [k \in Keys |->
                  CASE k \in begun \ lost -> 1
                    [] k \in ended -> 0
                    [] OTHER -> stored[k]]

(* The process that remembers the events ends: every event is forgotten.   *)
Forget ==
  /\ open' = {}
  /\ stored' = [k \in Keys |-> 0]

LifecycleNext ==
  \/ \E begun, ended, lost \in SUBSET Keys : Advance(begun, ended, lost)
  \/ Forget

LifecycleSpec == LifecycleInit /\ [][LifecycleNext]_lifecycleVars

(* One event never stores two alerts, and nothing is stored outside one.   *)
OneAlertPerEvent ==
  \A k \in Keys : stored[k] \in {0, 1} /\ (stored[k] = 1 => k \in open)
=============================================================================
