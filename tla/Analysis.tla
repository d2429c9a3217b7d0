-------------------------------- MODULE Analysis --------------------------------
(***************************************************************************)
(* The analysis pipeline (src/analysis/pipeline.py): one thread for every  *)
(* capture file that the assembler completes, each running Zeek and then   *)
(* saving what it found through a dozen transactions of                    *)
(* src/database/repository.py, beside the ISP probe                        *)
(* (src/monitoring/isp_probe.py), which writes other columns of the same   *)
(* network row.  Nothing orders the threads: Zeek may take up to two       *)
(* minutes and a file is completed every thirty seconds.                   *)
(*                                                                         *)
(* Files are numbered in the order of their completion, and what a thread  *)
(* writes is named by its file.  The rows one file puts into a table it    *)
(* replaces as a whole (the ranking, the recent connections) are one       *)
(* element.  PostgreSQL runs the transactions at READ COMMITTED: a DELETE  *)
(* removes the rows committed before it began, after waiting for whoever   *)
(* is deleting them already.                                               *)
(***************************************************************************)
EXTENDS Naturals, FiniteSets

CONSTANTS
  Devices,              \* local devices with a row of current metrics
  MaxFiles,             \* bound: files that are completed
  MaxProbes,            \* bound: measurements of the ISP probe
  MaxFailures           \* bound: transactions the database refuses

ASSUME AnalysisAssumption ==
  MaxFiles \in Nat /\ MaxProbes \in Nat /\ MaxFailures \in Nat

Files == 1 .. MaxFiles
Tables == {"talkers", "recent"}        \* top_talker_current, recent_connection
Absent == [exists |-> FALSE, isp |-> 0, traffic |-> 0]

VARIABLES
  completed,            \* files handed over so far
  pc,                   \* where each file's thread is
  todo,                 \* devices its present loop has yet to visit
  rows,                 \* tables it has rows for
  loaded,               \* whether its upsert has found the network row
  stage,                \* its replacing transaction: "idle", "deleting", "deleted"
  target,               \* the rows its DELETE saw
  traffic,              \* device_current_metrics: file of the traffic columns
  network,              \* network_current_metrics: the row and its columns
  table,                \* the replaced tables: files whose rows they hold
  snapshots,            \* network_snapshot: files
  endpoints,            \* endpoint_snapshot: files and devices
  rankings,             \* top_talker: files
  probe,                \* the ISP probe: where it is and what it has loaded
  measured,             \* history: its last measurement that was saved
  overlapped,           \* history: tables two threads have replaced at once
  failures              \* transactions refused so far

thread == <<pc, todo, rows, loaded, stage, target>>
history == <<snapshots, endpoints, rankings>>
isp == <<probe, measured>>
vars == <<completed, thread, traffic, network, table, history, isp, overlapped,
          failures>>

Places == {"none", "zeek", "devices", "network", "snapshot", "endpoints",
           "done"} \cup Tables

TypeOK ==
  /\ completed \in 0 .. MaxFiles
  /\ pc \in [Files -> Places]
  /\ todo \in [Files -> SUBSET Devices]
  /\ rows \in [Files -> SUBSET Tables]
  /\ loaded \in [Files -> BOOLEAN]
  /\ stage \in [Files -> {"idle", "deleting", "deleted"}]
  /\ target \in [Files -> SUBSET Files]
  /\ traffic \in [Devices -> 0 .. MaxFiles]
  /\ network \in [exists : BOOLEAN, isp : 0 .. MaxProbes, traffic : 0 .. MaxFiles]
  /\ table \in [Tables -> SUBSET Files]
  /\ snapshots \subseteq Files
  /\ endpoints \subseteq Files \X Devices
  /\ rankings \subseteq Files
  /\ probe \in [at : {"sleep", "upsert"}, loaded : BOOLEAN, n : 0 .. MaxProbes]
  /\ measured \in 0 .. MaxProbes
  /\ overlapped \subseteq Tables
  /\ failures \in 0 .. MaxFailures

Init ==
  /\ completed = 0
  /\ pc = [f \in Files |-> "none"]
  /\ todo = [f \in Files |-> {}]
  /\ rows = [f \in Files |-> {}]
  /\ loaded = [f \in Files |-> FALSE]
  /\ stage = [f \in Files |-> "idle"]
  /\ target = [f \in Files |-> {}]
  /\ traffic = [d \in Devices |-> 0]
  /\ network = Absent
  /\ table = [t \in Tables |-> {}]
  /\ snapshots = {} /\ endpoints = {} /\ rankings = {}
  /\ probe = [at |-> "sleep", loaded |-> FALSE, n |-> 0]
  /\ measured = 0
  /\ overlapped = {}
  /\ failures = 0

Goto(f, place) == pc' = [pc EXCEPT ![f] = place]

(* A transaction commits, or the database refuses it: its exception is     *)
(* logged and its changes are rolled back.                                 *)
Commits == failures' = failures
Fails == failures < MaxFailures /\ failures' = failures + 1
-----------------------------------------------------------------------------
(* A thread's life.                                                        *)

(* on_rotation starts a thread for the completed file. *)
Complete ==
  /\ completed < MaxFiles
  /\ completed' = completed + 1
  /\ Goto(completed + 1, "zeek")
  /\ UNCHANGED <<todo, rows, loaded, stage, target, traffic, network, table,
                 history, isp, failures, overlapped>>

(* Zeek and the parsers yield connections, of some devices that have a row *)
(* of metrics, and rows for some of the replaced tables; or they fail, or  *)
(* find no connection, which ends the thread.                              *)
Zeek(f) ==
  /\ pc[f] = "zeek"
  /\ \/ /\ \E ds \in SUBSET Devices : todo' = [todo EXCEPT ![f] = ds]
        /\ \E ts \in SUBSET Tables : rows' = [rows EXCEPT ![f] = ts]
        /\ Goto(f, "devices")
     \/ Goto(f, "done") /\ UNCHANGED <<todo, rows>>
  /\ UNCHANGED <<completed, loaded, stage, target, traffic, network, table,
                 history, isp, failures, overlapped>>

(* update_device_traffic_metrics for the next device. *)
SaveTraffic(f, d) ==
  /\ pc[f] = "devices" /\ d \in todo[f]
  /\ \/ Commits /\ traffic' = [traffic EXCEPT ![d] = f]
     \/ Fails /\ UNCHANGED traffic
  /\ todo' = [todo EXCEPT ![f] = @ \ {d}]
  /\ UNCHANGED <<completed, pc, rows, loaded, stage, target, network, table,
                 history, isp, overlapped>>

(* update_network_metrics, after the last device, looks for the row ... *)
LoadNetwork(f) ==
  /\ pc[f] = "devices" /\ todo[f] = {}
  /\ loaded' = [loaded EXCEPT ![f] = network.exists]
  /\ Goto(f, "network")
  /\ UNCHANGED <<completed, todo, rows, stage, target, traffic, network, table,
                 history, isp, failures, overlapped>>

(* Mutant: the row found is replaced by a new one, not updated. *)
SaveNetworkMerging(f) ==
  /\ pc[f] = "network"
  /\ Commits
  /\ network' = [exists |-> TRUE, isp |-> 0, traffic |-> f]
  /\ loaded' = [loaded EXCEPT ![f] = FALSE]
  /\ Goto(f, "talkers")
  /\ UNCHANGED <<completed, todo, rows, stage, target, traffic, table, history,
                 isp, overlapped>>

(* ... and updates the traffic columns of the one it found, or inserts     *)
(* one.  The insert of a row that has come into being meanwhile is refused.*)
SaveNetwork(f) ==
  /\ pc[f] = "network"
  /\ \/ /\ Commits
        /\ loaded[f] \/ ~network.exists
        /\ network' = [network EXCEPT !.exists = TRUE, !.traffic = f]
     \/ Fails /\ UNCHANGED network
     \/ ~loaded[f] /\ network.exists /\ UNCHANGED <<network, failures>>
  /\ loaded' = [loaded EXCEPT ![f] = FALSE]
  /\ Goto(f, "talkers")
  /\ UNCHANGED <<completed, todo, rows, stage, target, traffic, table, history,
                 isp, overlapped>>
-----------------------------------------------------------------------------
(* Replacing a table: update_top_talkers and save_recent_connections.      *)

(* The DELETE begins: it will remove the rows committed so far. *)
BeginDelete(f) ==
  /\ pc[f] \in Tables /\ stage[f] = "idle"
  /\ stage' = [stage EXCEPT ![f] = "deleting"]
  /\ target' = [target EXCEPT ![f] = table[pc[f]]]
  /\ overlapped' = overlapped \cup
       {pc[g] : g \in {h \in Files : pc[h] = pc[f] /\ stage[h] # "idle"}}
  /\ UNCHANGED <<completed, pc, todo, rows, loaded, traffic, network, table,
                 history, isp, failures>>

(* Mutant: the deletion is a transaction of its own. *)
DeleteCommitting(f) ==
  /\ stage[f] = "deleting"
  /\ table' = [table EXCEPT ![pc[f]] = @ \ target[f]]
  /\ stage' = [stage EXCEPT ![f] = "deleted"]
  /\ UNCHANGED <<completed, pc, todo, rows, loaded, target, traffic, network,
                 history, isp, overlapped, failures>>

(* It locks those rows, unless another transaction has. *)
Delete(f) ==
  /\ stage[f] = "deleting"
  /\ \A g \in Files :
       stage[g] = "deleted" /\ pc[g] = pc[f] => target[g] \cap target[f] = {}
  /\ stage' = [stage EXCEPT ![f] = "deleted"]
  /\ UNCHANGED <<completed, pc, todo, rows, loaded, target, traffic, network,
                 table, history, isp, overlapped, failures>>

After == [talkers |-> "snapshot", recent |-> "done"]

Own(f, t) == IF t \in rows[f] THEN {f} ELSE {}

(* Mutant: a transaction that is refused goes on from its savepoint, the   *)
(* inserts, and leaves the rows of the earlier cycle in place.             *)
ReplaceKeeping(f) ==
  /\ stage[f] = "deleted"
  /\ \/ /\ Commits
        /\ table' = [table EXCEPT ![pc[f]] = (@ \ target[f]) \cup Own(f, pc[f])]
     \/ Fails /\ table' = [table EXCEPT ![pc[f]] = @ \cup Own(f, pc[f])]
  /\ stage' = [stage EXCEPT ![f] = "idle"]
  /\ target' = [target EXCEPT ![f] = {}]
  /\ rows' = [rows EXCEPT ![f] = @ \ {pc[f]}]
  /\ Goto(f, After[pc[f]])
  /\ UNCHANGED <<completed, todo, loaded, traffic, network, history, isp,
                 overlapped>>

(* The inserts, and the commit of both; or a rollback of both. *)
Replace(f) ==
  /\ stage[f] = "deleted"
  /\ \/ /\ Commits
        /\ table' = [table EXCEPT ![pc[f]] = (@ \ target[f]) \cup Own(f, pc[f])]
     \/ Fails /\ UNCHANGED table
  /\ stage' = [stage EXCEPT ![f] = "idle"]
  /\ target' = [target EXCEPT ![f] = {}]
  /\ rows' = [rows EXCEPT ![f] = @ \ {pc[f]}]
  /\ Goto(f, After[pc[f]])
  /\ UNCHANGED <<completed, todo, loaded, traffic, network, history, isp,
                 overlapped>>
-----------------------------------------------------------------------------
(* The snapshots.                                                          *)

(* Mutant: the -1 of a refused snapshot is taken for an identifier. *)
SaveSnapshotUnchecked(f) ==
  /\ pc[f] = "snapshot"
  /\ \/ Commits /\ snapshots' = snapshots \cup {f}
     \/ Fails /\ UNCHANGED snapshots
  /\ \E ds \in SUBSET Devices : todo' = [todo EXCEPT ![f] = ds]
  /\ Goto(f, "endpoints")
  /\ UNCHANGED <<completed, rows, loaded, stage, target, traffic, network, table,
                 endpoints, rankings, isp, overlapped>>

(* save_network_snapshot returns the snapshot it committed, or -1, for     *)
(* which the other snapshots are left out: also when the commit succeeds   *)
(* and reading the snapshot back does not.                                 *)
SaveSnapshot(f) ==
  /\ pc[f] = "snapshot"
  /\ \/ /\ Commits
        /\ snapshots' = snapshots \cup {f}
        /\ \E ds \in SUBSET Devices : todo' = [todo EXCEPT ![f] = ds]
        /\ Goto(f, "endpoints")
     \/ /\ Fails
        /\ snapshots' \in {snapshots, snapshots \cup {f}}
        /\ Goto(f, "recent") /\ UNCHANGED todo
  /\ UNCHANGED <<completed, rows, loaded, stage, target, traffic, network, table,
                 endpoints, rankings, isp, overlapped>>

(* Mutant: device_id and network_snapshot_id are exchanged. *)
KeepEndpointExchanged(f, d) ==
  \/ Commits /\ endpoints' = endpoints \cup {<<d, f>>}
  \/ Fails /\ UNCHANGED endpoints

(* save_endpoint_snapshot *)
KeepEndpoint(f, d) ==
  \/ Commits /\ endpoints' = endpoints \cup {<<f, d>>}
  \/ Fails /\ UNCHANGED endpoints

(* The snapshot of the next device.  The look-up before it is not          *)
(* protected: when the database refuses it the whole thread ends.          *)
SaveEndpoint(f, d) ==
  /\ pc[f] = "endpoints" /\ d \in todo[f]
  /\ \/ KeepEndpoint(f, d) /\ todo' = [todo EXCEPT ![f] = @ \ {d}] /\ UNCHANGED pc
     \/ Fails /\ todo' = [todo EXCEPT ![f] = {}] /\ Goto(f, "done")
        /\ UNCHANGED endpoints
  /\ UNCHANGED <<completed, rows, loaded, stage, target, traffic, network,
                 table, snapshots, rankings, isp, overlapped>>

(* save_top_talker_snapshot, after the last device. *)
SaveRanking(f) ==
  /\ pc[f] = "endpoints" /\ todo[f] = {}
  /\ \/ Commits /\ rankings' = rankings \cup {f}
     \/ Fails /\ UNCHANGED rankings
  /\ Goto(f, "recent")
  /\ UNCHANGED <<completed, todo, rows, loaded, stage, target, traffic, network,
                 table, snapshots, endpoints, isp, overlapped>>
-----------------------------------------------------------------------------
(* The ISP probe's upsert of the same row, and the end of the process.     *)

Measure ==
  /\ probe.at = "sleep" /\ probe.n < MaxProbes
  /\ probe' = [at |-> "upsert", loaded |-> network.exists, n |-> probe.n + 1]
  /\ UNCHANGED <<completed, thread, traffic, network, table, history, measured,
                 failures, overlapped>>

SaveMeasurement ==
  /\ probe.at = "upsert"
  /\ \/ /\ Commits
        /\ probe.loaded \/ ~network.exists
        /\ network' = [network EXCEPT !.exists = TRUE, !.isp = probe.n]
        /\ measured' = probe.n
     \/ Fails /\ UNCHANGED <<network, measured>>
     \/ ~probe.loaded /\ network.exists /\ UNCHANGED <<network, measured, failures>>
  /\ probe' = [probe EXCEPT !.at = "sleep", !.loaded = FALSE]
  /\ UNCHANGED <<completed, thread, traffic, table, history, overlapped>>

(* The process ends, its threads with it, and is started again: nobody     *)
(* takes the files it was analysing up.                                    *)
Restart ==
  /\ pc' = [f \in Files |-> IF f <= completed THEN "done" ELSE "none"]
  /\ todo' = [f \in Files |-> {}]
  /\ stage' = [f \in Files |-> "idle"]
  /\ loaded' = [f \in Files |-> FALSE]
  /\ rows' = [f \in Files |-> {}]
  /\ target' = [f \in Files |-> {}]
  /\ probe' = [probe EXCEPT !.at = "sleep", !.loaded = FALSE]
  /\ UNCHANGED <<completed, traffic, network, table, history,
                 measured, failures, overlapped>>

Step(f) ==
  \/ Zeek(f) \/ LoadNetwork(f) \/ SaveNetwork(f)
  \/ BeginDelete(f) \/ Delete(f) \/ Replace(f)
  \/ SaveSnapshot(f) \/ SaveRanking(f)
  \/ \E d \in Devices : SaveTraffic(f, d) \/ SaveEndpoint(f, d)

Next ==
  \/ Complete
  \/ \E f \in Files : Step(f)
  \/ Measure \/ SaveMeasurement
  \/ Restart

Spec == Init /\ [][Next]_vars
-----------------------------------------------------------------------------
(* Properties.                                                             *)

(* Every endpoint snapshot and every ranking kept for the trend graphs has *)
(* the network snapshot of its own file, whichever of the transactions     *)
(* fail and wherever the process ends.                                     *)
SnapshotsHaveParents ==
  {e[1] : e \in endpoints} \cup rankings \subseteq snapshots

(* The pipeline's threads and the ISP probe update one row at once and do  *)
(* not lose each other's columns: the ISP columns are always those of the  *)
(* last measurement saved.                                                 *)
MeasurementsAreKept == network.isp = measured

(* Readers never find the ranking or the recent connections gone while     *)
(* they are being replaced, nor after a failure in between: deletion and   *)
(* insertion are one transaction, and only a file without rows of its own  *)
(* leaves a table empty.                                                   *)
TablesStayFilled ==
  [][\A t \in Tables : table[t] # {} =>
       \/ table'[t] # {}
       \/ \E f \in Files : pc[f] = t /\ pc'[f] # t /\ t \notin rows[f]]_vars

(* Each of these tables holds the rows of one file as long as no two       *)
(* threads replace it at once: neither a failure nor a restart in the      *)
(* middle leaves the rows of an earlier cycle behind.                      *)
RowsAreOfOneFile ==
  \A t \in Tables \ overlapped : Cardinality(table[t]) <= 1
=============================================================================
