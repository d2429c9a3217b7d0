------------------------------- MODULE Detection -------------------------------
(***************************************************************************)
(* The anomaly detection engine (src/detection): one background thread     *)
(* that, every cycle, reads the current metrics of every device with an    *)
(* active agent, scores each metric against its EWMA baseline, filters     *)
(* single spikes, and lets the alert manager create, keep or clear the     *)
(* anomaly event of each metric; then it does the same for the network.    *)
(*                                                                         *)
(* Data abstraction.  A Z-score is the band the detector puts it in (its   *)
(* sign never matters to the code).  A value measured since the last       *)
(* evaluation may score in any band.  A value that is read a second time   *)
(* is scored against the baseline it has just moved: with alpha = 0.10,    *)
(* run.py's, its score can only shrink, by the amounts in Rescored.        *)
(***************************************************************************)
EXTENDS Naturals, FiniteSets

CONSTANTS
  Devices,              \* devices with an agent
  Network,              \* the subject of the network-wide metrics
  DeviceMetrics,        \* the metrics of a device (METRIC_CONFIG)
  NetworkMetrics,       \* the metrics of the network (NETWORK_METRIC_CONFIG)
  MinSamples            \* observations before a baseline may raise alerts

ASSUME SubjectsAssumption == Network \notin Devices
ASSUME MinSamplesAssumption == MinSamples \in Nat \ {0}

Subjects == Devices \cup {Network}
Keys == (Devices \X DeviceMetrics) \cup ({Network} \X NetworkMetrics)
KeysOf(s) == {k \in Keys : k[1] = s}

Bands == {"normal", "info", "warning", "critical"}
Alerting == {"warning", "critical"}      \* |Z| > Z_WARNING

(* The band a value falls in when it is scored again with no new           *)
(* measurement: z'^2 lies between 0.9 z^2 / (1 + z^2 / 10) and 0.9 z^2 and *)
(* never passes 9, so a critical score comes back as a warning (as         *)
(* critical only when a score of exactly 3 is rounded up).                 *)
Rescored ==
  [b \in Bands |-> CASE b = "critical" -> {"critical", "warning"}
                     [] b = "warning" -> {"warning", "info"}
                     [] b = "info" -> {"info", "normal"}
                     [] b = "normal" -> {"normal"}]

VARIABLES
  status,               \* device row: "active" or "disconnected"
  row,                  \* current-metrics column of each key: "absent" (no
                        \* row), "null", "fresh" (never scored) or "scored"
  running,              \* the engine's _running flag
  pc,                   \* the engine thread: "sleep", "devices" or "ended"
  pending,              \* devices this cycle has yet to look at
  samples,              \* per key, observations seen; only counted up to
                        \* MinSamples, the value the code compares it with
  prevZ,                \* per key, the band of the baseline's prev_z
  activeEvents,         \* AlertManager._active_events
  saved,                \* history: alert rows stored by the present event
  pushed                \* history: alerts of it handed to on_alert

tables == <<status, row>>
thread == <<running, pc, pending>>
baselines == <<samples, prevZ>>
alerts == <<activeEvents, saved, pushed>>
vars == <<status, row, running, pc, pending, samples, prevZ,
          activeEvents, saved, pushed>>

TypeOK ==
  /\ status \in [Devices -> {"active", "disconnected"}]
  /\ row \in [Keys -> {"absent", "null", "fresh", "scored"}]
  /\ running \in BOOLEAN
  /\ pc \in {"sleep", "devices", "ended"}
  /\ pending \subseteq Devices
  /\ samples \in [Keys -> 0 .. MinSamples]
  /\ prevZ \in [Keys -> Bands]
  /\ activeEvents \subseteq Keys
  /\ saved \in [Keys -> Nat]
  /\ pushed \in [Keys -> Nat]

FreshMemory ==
  /\ running = TRUE
  /\ pc = "sleep"
  /\ pending = {}
  /\ samples = [k \in Keys |-> 0]
  /\ prevZ = [k \in Keys |-> "normal"]
  /\ activeEvents = {}
  /\ saved = [k \in Keys |-> 0]
  /\ pushed = [k \in Keys |-> 0]

Init ==
  /\ status = [d \in Devices |-> "active"]
  /\ row = [k \in Keys |-> "absent"]
  /\ FreshMemory
-----------------------------------------------------------------------------
(* The other writers of the database, as the engine sees them.             *)

(* A write to a subject's row, by the UDP thread, the pipeline or the ISP  *)
(* probe: it puts a measurement in some columns, NULL in those its payload *)
(* lacks and leaves the others alone, which are NULL if it creates the row.*)
Report(s) ==
  /\ \E measured, lacking \in SUBSET KeysOf(s) :
       row' = [k \in Keys |->
                 CASE k \in measured -> "fresh"
                   [] k \in KeysOf(s) \ measured
                        /\ (k \in lacking \/ row[k] = "absent") -> "null"
                   [] OTHER -> row[k]]
  /\ UNCHANGED <<status, thread, baselines, alerts>>

(* The health checker disconnects a silent device; a heartbeat brings it   *)
(* back.                                                                   *)
ChangeStatus(d) ==
  /\ status' = [status EXCEPT ![d] =
                  IF @ = "active" THEN "disconnected" ELSE "active"]
  /\ UNCHANGED <<row, thread, baselines, alerts>>
-----------------------------------------------------------------------------
(* Scoring.                                                                *)

HasValue(k) == row[k] \in {"fresh", "scored"}
HasRow(s) == \A k \in KeysOf(s) : row[k] # "absent"

(* MetricBaseline.update: the bands the next score of k may fall in.  The  *)
(* first observation only initialises the baseline and leaves prev_z at 0, *)
(* and reading that same value again finds it on the baseline.             *)
Scores(k) ==
  CASE samples[k] = 0 -> {"normal"}
    [] samples[k] > 0 /\ row[k] = "fresh" -> Bands
    [] samples[k] > 0 /\ row[k] # "fresh" -> Rescored[prevZ[k]]

(* The score is reported only past the warm-up: not for the observation    *)
(* that initialises the baseline, and not before MinSamples of them.       *)
Warm(k) == samples[k] > 0 /\ samples[k] + 1 >= MinSamples

(* Mutant: persistence asks for the same band twice. *)
SeverityOfSameBand(k, band) ==
  CASE ~Warm(k) -> "normal"
    [] Warm(k) /\ band \in Alerting /\ prevZ[k] # band -> "normal"
    [] Warm(k) /\ (band \in Alerting => prevZ[k] = band) -> band

(* DeviceDetector.evaluate's severity and persistence filter: a warning or *)
(* a critical score counts only when the score before it did too.          *)
Severity(k, band) ==
  CASE ~Warm(k) -> "normal"
    [] Warm(k) /\ band \in Alerting /\ prevZ[k] \notin Alerting -> "normal"
    [] Warm(k) /\ (band \in Alerting => prevZ[k] \in Alerting) -> band

(* Every metric of s that has a value is scored.                           *)
EvaluateBaselines(s, z) ==
  LET scored == {k \in KeysOf(s) : HasValue(k)}
  IN  /\ samples' = [k \in Keys |->
                       IF k \in scored /\ samples[k] < MinSamples
                       THEN samples[k] + 1 ELSE samples[k]]
      /\ prevZ' = [k \in Keys |-> IF k \in scored THEN z[k] ELSE prevZ[k]]
      /\ row' = [k \in Keys |-> IF k \in scored THEN "scored" ELSE row[k]]
-----------------------------------------------------------------------------
(* The alert manager.                                                      *)

(* Mutant: the deduplication is lost. *)
ProcessResultsUndeduplicated(events, results, failing) ==
  LET evaluated == DOMAIN results
      alerting == {k \in evaluated : results[k] \in Alerting}
  IN  [events  |-> (events \cup alerting) \ (evaluated \ alerting),
       created |-> alerting \ failing]

(* Mutant: a metric that is back to normal does not clear its event. *)
ProcessResultsUncleared(events, results, failing) ==
  LET alerting == {k \in DOMAIN results : results[k] \in Alerting}
  IN  [events  |-> events \cup alerting,
       created |-> (alerting \ events) \ failing]

(* AlertManager.process_..._results: results gives the severity of every   *)
(* evaluated key, failing the keys whose row the database would refuse.    *)
(* An event is marked active even when its alert could not be saved.       *)
ProcessResults(events, results, failing) ==
  LET evaluated == DOMAIN results
      alerting == {k \in evaluated : results[k] \in Alerting}
  IN  [events  |-> (events \cup alerting) \ (evaluated \ alerting),
       created |-> (alerting \ events) \ failing]

One(k, S) == IF k \in S THEN 1 ELSE 0

(* The bookkeeping of the history: an event's counts start again at 0 once *)
(* it is cleared.                                                          *)
CountAlerts(events, savedNow1, savedNow2, pushedNow) ==
  /\ activeEvents' = events
  /\ saved' = [k \in Keys |->
                 IF k \in events
                 THEN saved[k] + One(k, savedNow1) + One(k, savedNow2)
                 ELSE 0]
  /\ pushed' = [k \in Keys |->
                  IF k \in events THEN pushed[k] + One(k, pushedNow) ELSE 0]
-----------------------------------------------------------------------------
(* The engine thread.                                                      *)

(* Mutant: every row with metrics is taken for a device. *)
BeginCycleWithNetwork ==
  /\ pc = "sleep" /\ running
  /\ pc' = "devices"
  /\ pending' = {s \in Subjects : s \in Devices => status[s] = "active"}
  /\ UNCHANGED <<running, tables, baselines, alerts>>

(* A cycle starts by reading which devices are active and have an agent.   *)
BeginCycle ==
  /\ pc = "sleep" /\ running
  /\ pc' = "devices"
  /\ pending' = {d \in Devices : status[d] = "active"}
  /\ UNCHANGED <<running, tables, baselines, alerts>>

(* Mutant: the loop is left instead. *)
SkipTheRest(d) ==
  /\ pc = "devices" /\ d \in pending
  /\ ~HasRow(d)
  /\ pending' = {}
  /\ UNCHANGED <<running, pc, tables, baselines, alerts>>

(* A device without a metrics row is passed over: no baseline and no event *)
(* of it changes.                                                          *)
SkipDevice(d) ==
  /\ pc = "devices" /\ d \in pending
  /\ ~HasRow(d)
  /\ pending' = pending \ {d}
  /\ UNCHANGED <<running, pc, tables, baselines, alerts>>

(* A device is evaluated and its results are processed twice: the first    *)
(* call's list of created alerts is dropped, the second call's is pushed.  *)
EvaluateDevice(d) ==
  /\ pc = "devices" /\ d \in pending
  /\ HasRow(d)
  /\ pending' = pending \ {d}
  /\ \E z \in [{k \in KeysOf(d) : HasValue(k)} -> Bands],
        failing \in SUBSET KeysOf(d) :
       /\ \A k \in DOMAIN z : z[k] \in Scores(k)
       /\ EvaluateBaselines(d, z)
       /\ LET results == [k \in DOMAIN z |-> Severity(k, z[k])]
              first == ProcessResults(activeEvents, results, failing)
              second == ProcessResults(first.events, results, failing)
          IN  CountAlerts(second.events, first.created, second.created,
                          second.created)
  /\ UNCHANGED <<status, running, pc>>

(* Mutant: every new event is pushed, its alert saved or not. *)
EvaluateNetworkPushingAll ==
  /\ pc = "devices" /\ pending = {}
  /\ pc' = "sleep"
  /\ \E z \in [{k \in KeysOf(Network) : HasValue(k)} -> Bands],
        failing \in SUBSET KeysOf(Network) :
       /\ \A k \in DOMAIN z : z[k] \in Scores(k)
       /\ EvaluateBaselines(Network, z)
       /\ LET results == [k \in DOMAIN z |-> Severity(k, z[k])]
              only == ProcessResults(activeEvents, results, failing)
          IN  CountAlerts(only.events, only.created, {},
                          only.events \ activeEvents)
  /\ UNCHANGED <<status, running, pending>>

(* With every device done the network is evaluated, its new alerts are     *)
(* pushed, and the thread sleeps until the next cycle.                     *)
EvaluateNetwork ==
  /\ pc = "devices" /\ pending = {}
  /\ pc' = "sleep"
  /\ \E z \in [{k \in KeysOf(Network) : HasValue(k)} -> Bands],
        failing \in SUBSET KeysOf(Network) :
       /\ \A k \in DOMAIN z : z[k] \in Scores(k)
       /\ EvaluateBaselines(Network, z)
       /\ LET results == [k \in DOMAIN z |-> Severity(k, z[k])]
              only == ProcessResults(activeEvents, results, failing)
          IN  CountAlerts(only.events, only.created, {}, only.created)
  /\ UNCHANGED <<status, running, pending>>

(* A query fails: the rest of the cycle, the network included, is dropped. *)
CycleError ==
  /\ pc = "devices"
  /\ pc' = "sleep"
  /\ pending' = {}
  /\ UNCHANGED <<running, tables, baselines, alerts>>

(* stop() only clears the flag: the loop sees it after its present cycle.  *)
Stop ==
  /\ running
  /\ running' = FALSE
  /\ UNCHANGED <<pc, pending, tables, baselines, alerts>>

EndLoop ==
  /\ pc = "sleep" /\ ~running
  /\ pc' = "ended"
  /\ UNCHANGED <<running, pending, tables, baselines, alerts>>

(* Mutant: the events outlive the process, the baselines do not. *)
RestartKeepingEvents ==
  /\ running' = TRUE
  /\ pc' = "sleep"
  /\ pending' = {}
  /\ samples' = [k \in Keys |-> 0]
  /\ prevZ' = [k \in Keys |-> "normal"]
  /\ UNCHANGED activeEvents
  /\ saved' = [k \in Keys |-> 0]
  /\ pushed' = [k \in Keys |-> 0]
  /\ row' = [k \in Keys |-> IF HasValue(k) THEN "fresh" ELSE row[k]]
  /\ UNCHANGED status

(* The server process is started again: it remembers no baseline and no    *)
(* event, and has scored none of the values in the tables.                 *)
Restart ==
  /\ running' = TRUE
  /\ pc' = "sleep"
  /\ pending' = {}
  /\ samples' = [k \in Keys |-> 0]
  /\ prevZ' = [k \in Keys |-> "normal"]
  /\ activeEvents' = {}
  /\ saved' = [k \in Keys |-> 0]
  /\ pushed' = [k \in Keys |-> 0]
  /\ row' = [k \in Keys |-> IF HasValue(k) THEN "fresh" ELSE row[k]]
  /\ UNCHANGED status

Engine ==
  \/ BeginCycle
  \/ \E d \in Devices : SkipDevice(d) \/ EvaluateDevice(d)
  \/ EvaluateNetwork
  \/ EndLoop

Next ==
  \/ Engine
  \/ CycleError
  \/ Stop
  \/ Restart
  \/ \E s \in Subjects : Report(s)
  \/ \E d \in Devices : ChangeStatus(d)

Spec == Init /\ [][Next]_vars

(* The engine is a thread that never waits for anyone: each step of its    *)
(* loop is eventually taken.                                               *)
FairSpec == Spec /\ WF_vars(Engine)
-----------------------------------------------------------------------------
(* Properties.                                                             *)

(* An active event is about an anomaly that is still there: its baseline   *)
(* has finished warming up and its last score was above the warning        *)
(* threshold.  Events live in the alert manager and scores in the          *)
(* baselines, each updated by its own calls; values that are skipped must  *)
(* leave both alone, and a restart must lose both.                         *)
EventsAreOngoing ==
  \A k \in activeEvents : prevZ[k] \in Alerting /\ samples[k] = MinSamples

(* However long an anomaly lasts, its event stores one alert at most,      *)
(* although every evaluation of a device processes its results twice.      *)
OneAlertPerEvent == \A k \in Keys : saved[k] <= 1

(* Nothing is announced to clients that is not in the alert table.         *)
PushedIsStored == \A k \in Keys : pushed[k] <= saved[k]

(* The engine keeps the alert manager's promise.                           *)
Lifecycle == INSTANCE AlertLifecycle WITH open <- activeEvents, stored <- saved
KeepsLifecycle == Lifecycle!LifecycleSpec

(* The engine runs on, its queries succeed and the subject stays active.   *)
(* An evaluation of the network that changes nothing is no disturbance,    *)
(* though a failing query or a restart could have left things the same.    *)
Undisturbed(s) ==
  /\ <>[](running /\ (s \in Devices => status[s] = "active"))
  /\ <>[][CycleError \/ Restart => EvaluateNetwork]_vars

(* Undisturbed, the engine gets round to everybody again and again, and    *)
(* scores what it finds: neither a device with a metrics row nor the       *)
(* network is starved by other devices, by those without a row or by a     *)
(* cycle that has no device to look at.  A value that is overwritten       *)
(* between two cycles is never scored, and after a failing query nobody    *)
(* is until the next cycle.                                                *)
MeasurementsAreScored ==
  /\ \A d \in Devices :
       Undisturbed(d) /\ <>[]HasRow(d) => []<><<EvaluateDevice(d)>>_vars
  /\ Undisturbed(Network) => []<><<EvaluateNetwork>>_vars

(* Undisturbed, an anomaly that every later evaluation confirms ends up as *)
(* an active event for good, whatever spikes and gaps came before it.      *)
AnomaliesAreRaised ==
  \A k \in Keys :
    /\ Undisturbed(k[1])
    /\ <>[](HasValue(k) /\ samples[k] = MinSamples /\ prevZ[k] \in Alerting)
    => <>[](k \in activeEvents)

(* What the code's own words say and the code does not do.                 *)

(* "Push new alerts to WebSocket immediately" (engine.py): an alert that   *)
(* is stored is handed to on_alert in the same evaluation.                 *)
StoredIsPushed == \A k \in Keys : saved[k] <= pushed[k]
=============================================================================
