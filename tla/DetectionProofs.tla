---------------------------- MODULE DetectionProofs ----------------------------
(***************************************************************************)
(* Detection for any devices, metrics and warm-up length: the types, that  *)
(* active events are about anomalies that are still there, that an event   *)
(* stores at most one alert and that nothing is pushed without being       *)
(* stored, and that the engine implements the lifecycle of an alert.       *)
(***************************************************************************)
EXTENDS Detection, TLAPS

(* Processing the same results a second time changes no event and creates  *)
(* no alert: the second call that _run_cycle makes for every device finds  *)
(* every alerting key active.                                              *)
LEMMA SecondCallIsSilent ==
  ASSUME NEW events, NEW results, NEW failing, NEW failingToo
  PROVE  LET first == ProcessResults(events, results, failing)
             second == ProcessResults(first.events, results, failingToo)
         IN  second.events = first.events /\ second.created = {}
  BY DEF ProcessResults

(* Keys are pairs, so those of one subject are keys. *)
LEMMA KeysOfKeys == \A s : KeysOf(s) \subseteq Keys
  BY DEF KeysOf

(* A score never leaves the bands. *)
LEMMA ScoresAreBands ==
  ASSUME TypeOK, NEW k \in Keys
  PROVE  Scores(k) \subseteq Bands
  BY DEF TypeOK, Scores, Bands, Rescored
-----------------------------------------------------------------------------
(* What one evaluation does to the keys, for both kinds of subject. *)
Evaluation(s, z, failing) ==
  /\ z \in [{k \in KeysOf(s) : HasValue(k)} -> Bands]
  /\ EvaluateBaselines(s, z)
  /\ LET results == [k \in DOMAIN z |-> Severity(k, z[k])]
         first == ProcessResults(activeEvents, results, failing)
     IN  /\ activeEvents' = first.events
         /\ saved' = [k \in Keys |->
                        IF k \in first.events
                        THEN saved[k] + One(k, first.created) ELSE 0]
         /\ \E pushedNow \in SUBSET first.created :
              pushed' = [k \in Keys |-> IF k \in first.events
                                       THEN pushed[k] + One(k, pushedNow) ELSE 0]

(* Evaluating a device stores what its first processing of the results     *)
(* creates, and pushes nothing.                                            *)
LEMMA DeviceEvaluation ==
  ASSUME TypeOK, NEW d \in Devices, EvaluateDevice(d)
  PROVE  \E z, failing : Evaluation(d, z, failing)
<1>1. PICK z \in [{k \in KeysOf(d) : HasValue(k)} -> Bands],
           failing \in SUBSET KeysOf(d) :
        /\ EvaluateBaselines(d, z)
        /\ LET results == [k \in DOMAIN z |-> Severity(k, z[k])]
               first == ProcessResults(activeEvents, results, failing)
               second == ProcessResults(first.events, results, failing)
           IN  CountAlerts(second.events, first.created, second.created,
                           second.created)
  BY DEF EvaluateDevice
<1> DEFINE results == [k \in DOMAIN z |-> Severity(k, z[k])]
           first == ProcessResults(activeEvents, results, failing)
           second == ProcessResults(first.events, results, failing)
<1>2. second.events = first.events /\ second.created = {}
  BY SecondCallIsSilent
<1> HIDE DEF results, first, second
<1>3. CountAlerts(first.events, first.created, {}, {})
  BY <1>1, <1>2 DEF results, first, second
<1>4. saved' = [k \in Keys |-> IF k \in first.events
                               THEN saved[k] + One(k, first.created) ELSE 0]
  BY <1>3 DEF CountAlerts, One, TypeOK
<1>5. pushed' = [k \in Keys |-> IF k \in first.events
                                THEN pushed[k] + One(k, {}) ELSE 0]
  BY <1>3 DEF CountAlerts
<1>6. activeEvents' = first.events
  BY <1>3 DEF CountAlerts
<1> QED
  BY <1>1, <1>4, <1>5, <1>6 DEF Evaluation, results, first

LEMMA NetworkEvaluation ==
  ASSUME TypeOK, EvaluateNetwork
  PROVE  \E z, failing : Evaluation(Network, z, failing)
<1>1. PICK z \in [{k \in KeysOf(Network) : HasValue(k)} -> Bands],
           failing \in SUBSET KeysOf(Network) :
        /\ EvaluateBaselines(Network, z)
        /\ LET results == [k \in DOMAIN z |-> Severity(k, z[k])]
               only == ProcessResults(activeEvents, results, failing)
           IN  CountAlerts(only.events, only.created, {}, only.created)
  BY DEF EvaluateNetwork
<1> DEFINE results == [k \in DOMAIN z |-> Severity(k, z[k])]
           only == ProcessResults(activeEvents, results, failing)
<1> HIDE DEF results, only
<1>2. CountAlerts(only.events, only.created, {}, only.created)
  BY <1>1 DEF results, only
<1>3. saved' = [k \in Keys |-> IF k \in only.events
                               THEN saved[k] + One(k, only.created) ELSE 0]
  BY <1>2 DEF CountAlerts, One, TypeOK
<1>4. pushed' = [k \in Keys |-> IF k \in only.events
                                THEN pushed[k] + One(k, only.created) ELSE 0]
  BY <1>2 DEF CountAlerts
<1>5. activeEvents' = only.events
  BY <1>2 DEF CountAlerts
<1> QED
  BY <1>1, <1>3, <1>4, <1>5 DEF Evaluation, results, only
-----------------------------------------------------------------------------
(* What an evaluation preserves. *)
LEMMA EvaluationTypes ==
  ASSUME TypeOK, NEW s, NEW z, NEW failing, Evaluation(s, z, failing)
  PROVE  /\ row' \in [Keys -> {"absent", "null", "fresh", "scored"}]
         /\ samples' \in [Keys -> 0 .. MinSamples]
         /\ prevZ' \in [Keys -> Bands]
         /\ activeEvents' \subseteq Keys
         /\ saved' \in [Keys -> Nat]
         /\ pushed' \in [Keys -> Nat]
<1> DEFINE scored == {k \in KeysOf(s) : HasValue(k)}
<1>1. scored \subseteq Keys /\ DOMAIN z = scored
  BY KeysOfKeys DEF Evaluation
<1>2. z \in [scored -> Bands]
  BY DEF Evaluation
<1>3. row' \in [Keys -> {"absent", "null", "fresh", "scored"}]
  BY DEF Evaluation, EvaluateBaselines, TypeOK
<1>4. samples' \in [Keys -> 0 .. MinSamples]
  BY MinSamplesAssumption DEF Evaluation, EvaluateBaselines, TypeOK
<1>5. prevZ' \in [Keys -> Bands]
  BY <1>2 DEF Evaluation, EvaluateBaselines, TypeOK
<1>6. activeEvents' \subseteq Keys
  BY <1>1 DEF Evaluation, ProcessResults, TypeOK
<1>7. saved' \in [Keys -> Nat]
  BY DEF Evaluation, One, TypeOK
<1>8. pushed' \in [Keys -> Nat]
  BY DEF Evaluation, One, TypeOK
<1> QED
  BY <1>3, <1>4, <1>5, <1>6, <1>7, <1>8

(* Every key in the tables, the baselines and the events keeps its type.   *)
THEOREM TypeCorrect == Spec => []TypeOK
<1>1. Init => TypeOK
  BY MinSamplesAssumption DEF Init, FreshMemory, TypeOK, Bands
<1>2. TypeOK /\ [Next]_vars => TypeOK'
  <2> SUFFICES ASSUME TypeOK, [Next]_vars PROVE TypeOK'
    OBVIOUS
  <2>1. CASE BeginCycle
    BY <2>1 DEF BeginCycle, TypeOK, tables, baselines, alerts
  <2>2. ASSUME NEW d \in Devices, SkipDevice(d) PROVE TypeOK'
    BY <2>2 DEF SkipDevice, TypeOK, tables, baselines, alerts
  <2>3. ASSUME NEW d \in Devices, EvaluateDevice(d) PROVE TypeOK'
    <3>1. PICK z, failing : Evaluation(d, z, failing)
      BY <2>3, DeviceEvaluation
    <3>2. UNCHANGED <<status, running, pc>> /\ pending' \subseteq Devices
      BY <2>3 DEF EvaluateDevice, TypeOK
    <3> QED
      BY <3>1, <3>2, EvaluationTypes DEF TypeOK
  <2>4. CASE EvaluateNetwork
    <3>1. PICK z, failing : Evaluation(Network, z, failing)
      BY <2>4, NetworkEvaluation
    <3>2. UNCHANGED <<status, running, pending>> /\ pc' = "sleep"
      BY <2>4 DEF EvaluateNetwork
    <3> QED
      BY <3>1, <3>2, EvaluationTypes DEF TypeOK
  <2>5. CASE EndLoop
    BY <2>5 DEF EndLoop, TypeOK, tables, baselines, alerts
  <2>6. CASE CycleError
    BY <2>6 DEF CycleError, TypeOK, tables, baselines, alerts
  <2>7. CASE Stop
    BY <2>7 DEF Stop, TypeOK, tables, baselines, alerts
  <2>8. CASE Restart
    BY <2>8, MinSamplesAssumption DEF Restart, TypeOK, Bands
  <2>9. ASSUME NEW s \in Subjects, Report(s) PROVE TypeOK'
    BY <2>9 DEF Report, TypeOK, thread, baselines, alerts
  <2>10. ASSUME NEW d \in Devices, ChangeStatus(d) PROVE TypeOK'
    BY <2>10 DEF ChangeStatus, TypeOK, thread, baselines, alerts
  <2>11. CASE UNCHANGED vars
    BY <2>11 DEF vars, TypeOK
  <2> QED
    BY <2>1, <2>2, <2>3, <2>4, <2>5, <2>6, <2>7, <2>8, <2>9, <2>10, <2>11
    DEF Next, Engine
<1> QED
  BY <1>1, <1>2, PTL DEF Spec
-----------------------------------------------------------------------------
(* The inductive invariant.  That events store one alert at most needs     *)
(* that keys without an event have stored none: a creation then starts     *)
(* from 0.  That events are ongoing is inductive with the types alone.     *)
StoredInEvents ==
  \A k \in Keys : saved[k] <= 1 /\ (saved[k] > 0 => k \in activeEvents)
IInv == TypeOK /\ EventsAreOngoing /\ StoredInEvents

(* One evaluation keeps both: an event it leaves active has just scored    *)
(* above the threshold or was not scored at all.                           *)
LEMMA EvaluationKeepsEvents ==
  ASSUME IInv, NEW s, NEW z, NEW failing, Evaluation(s, z, failing)
  PROVE  EventsAreOngoing' /\ StoredInEvents'
<1> DEFINE scored == {k \in KeysOf(s) : HasValue(k)}
           results == [k \in DOMAIN z |-> Severity(k, z[k])]
           first == ProcessResults(activeEvents, results, failing)
<1>1. scored \subseteq Keys /\ DOMAIN z = scored /\ DOMAIN results = scored
  BY KeysOfKeys DEF Evaluation
<1>2. ASSUME NEW k \in activeEvents'
      PROVE  prevZ'[k] \in Alerting /\ samples'[k] = MinSamples
  <2>1. k \in first.events /\ k \in Keys
    BY <1>1, <1>2 DEF Evaluation, IInv, TypeOK, ProcessResults
  <2>2. CASE k \in scored
    <3>1. results[k] \in Alerting /\ results[k] = Severity(k, z[k])
      BY <1>1, <2>1, <2>2 DEF ProcessResults
    <3>2. Warm(k) /\ z[k] \in Alerting
      BY <3>1 DEF Severity, Alerting
    <3>3. samples[k] \in 0 .. MinSamples /\ samples[k] + 1 >= MinSamples
      BY <3>2, <2>1 DEF Warm, IInv, TypeOK
    <3>4. samples'[k] = IF samples[k] < MinSamples THEN samples[k] + 1
                                                 ELSE samples[k]
      BY <2>1, <2>2 DEF Evaluation, EvaluateBaselines
    <3>5. prevZ'[k] = z[k]
      BY <2>1, <2>2 DEF Evaluation, EvaluateBaselines
    <3> QED
      BY <3>2, <3>3, <3>4, <3>5, MinSamplesAssumption
  <2>3. CASE k \notin scored
    <3>1. k \in activeEvents
      BY <1>1, <2>1, <2>3 DEF ProcessResults
    <3>2. prevZ'[k] = prevZ[k] /\ samples'[k] = samples[k]
      BY <2>1, <2>3 DEF Evaluation, EvaluateBaselines
    <3> QED
      BY <3>1, <3>2 DEF IInv, EventsAreOngoing
  <2> QED
    BY <2>2, <2>3
<1>3. ASSUME NEW k \in Keys
      PROVE  saved'[k] <= 1 /\ (saved'[k] > 0 => k \in activeEvents')
  <2>1. saved'[k] = IF k \in first.events
                    THEN saved[k] + One(k, first.created) ELSE 0
    BY DEF Evaluation
  <2>2. activeEvents' = first.events
    BY DEF Evaluation
  <2>3. saved[k] \in Nat /\ saved[k] <= 1
    BY DEF IInv, TypeOK, StoredInEvents
  <2>4. k \in first.created => k \notin activeEvents /\ saved[k] = 0
    BY <2>3 DEF ProcessResults, IInv, StoredInEvents
  <2> HIDE DEF first
  <2> QED
    BY <2>1, <2>2, <2>3, <2>4 DEF One
<1> QED
  BY <1>2, <1>3 DEF EventsAreOngoing, StoredInEvents

LEMMA InvariantHolds == Spec => []IInv
<1>1. Init => EventsAreOngoing /\ StoredInEvents
  BY DEF Init, FreshMemory, EventsAreOngoing, StoredInEvents
<1>2. IInv /\ TypeOK' /\ [Next]_vars => EventsAreOngoing' /\ StoredInEvents'
  <2> SUFFICES ASSUME IInv, [Next]_vars
               PROVE  EventsAreOngoing' /\ StoredInEvents'
    OBVIOUS
  <2> USE DEF IInv, EventsAreOngoing, StoredInEvents
  <2>1. ASSUME NEW d \in Devices, EvaluateDevice(d)
        PROVE  EventsAreOngoing' /\ StoredInEvents'
    BY <2>1, DeviceEvaluation, EvaluationKeepsEvents
  <2>2. CASE EvaluateNetwork
    BY <2>2, NetworkEvaluation, EvaluationKeepsEvents
  <2>3. CASE Restart
    BY <2>3 DEF Restart
  <2>4. ASSUME UNCHANGED <<samples, prevZ, activeEvents, saved>>
        PROVE  EventsAreOngoing' /\ StoredInEvents'
    BY <2>4
  <2>5. ASSUME NEW d \in Devices, SkipDevice(d) \/ ChangeStatus(d)
        PROVE  UNCHANGED <<samples, prevZ, activeEvents, saved>>
    BY <2>5 DEF SkipDevice, ChangeStatus, baselines, alerts
  <2>6. ASSUME NEW s \in Subjects, Report(s)
        PROVE  UNCHANGED <<samples, prevZ, activeEvents, saved>>
    BY <2>6 DEF Report, baselines, alerts
  <2>7. CASE BeginCycle \/ EndLoop \/ CycleError \/ Stop
    BY <2>4, <2>7 DEF BeginCycle, EndLoop, CycleError, Stop, baselines, alerts
  <2>8. CASE UNCHANGED vars
    BY <2>4, <2>8 DEF vars
  <2> QED
    BY <2>1, <2>2, <2>3, <2>4, <2>5, <2>6, <2>7, <2>8 DEF Next, Engine
<1> QED
  BY <1>1, <1>2, TypeCorrect, PTL DEF Spec, IInv

(* An active event is always about an anomaly that the last score of its   *)
(* metric still showed, with the baseline warmed up (alert_manager.py with *)
(* baseline.py), for any number of devices and metrics.                    *)
THEOREM OngoingEvents == Spec => []EventsAreOngoing
  BY InvariantHolds, PTL DEF IInv

(* An event stores at most one alert row, although _run_cycle processes    *)
(* every device's results twice and reads the same row again and again.    *)
THEOREM AlertsOnce == Spec => []OneAlertPerEvent
<1>1. IInv => OneAlertPerEvent
  BY DEF IInv, StoredInEvents, OneAlertPerEvent
<1> QED
  BY <1>1, InvariantHolds, PTL

(* One evaluation pushes only what it stores, so that no count of pushed   *)
(* alerts overtakes that of the stored ones.                               *)
LEMMA EvaluationPushesStored ==
  ASSUME TypeOK, PushedIsStored, NEW s, NEW z, NEW failing,
         Evaluation(s, z, failing)
  PROVE  PushedIsStored'
<1> DEFINE first == ProcessResults(activeEvents,
                                   [k \in DOMAIN z |-> Severity(k, z[k])], failing)
<1>1. PICK pushedNow \in SUBSET first.created :
        pushed' = [k \in Keys |-> IF k \in first.events
                                 THEN pushed[k] + One(k, pushedNow) ELSE 0]
  BY DEF Evaluation
<1>2. saved' = [k \in Keys |-> IF k \in first.events
                              THEN saved[k] + One(k, first.created) ELSE 0]
  BY DEF Evaluation
<1> HIDE DEF first
<1>3. ASSUME NEW k \in Keys
      PROVE  pushed'[k] <= saved'[k]
  <2>1. pushed[k] \in Nat /\ saved[k] \in Nat /\ pushed[k] <= saved[k]
    BY DEF TypeOK, PushedIsStored
  <2> QED
    BY <1>1, <1>2, <2>1 DEF One
<1> QED
  BY <1>3 DEF PushedIsStored

(* Whatever of an evaluation is pushed to the clients is in the alert      *)
(* table (on_alert is called with the alerts save_alert returned), even if *)
(* saving others of the same evaluation failed.                            *)
THEOREM OnlyStoredIsPushed == Spec => []PushedIsStored
<1>1. Init => PushedIsStored
  BY DEF Init, FreshMemory, PushedIsStored
<1>2. TypeOK /\ PushedIsStored /\ [Next]_vars => PushedIsStored'
  <2> SUFFICES ASSUME TypeOK, PushedIsStored, [Next]_vars PROVE PushedIsStored'
    OBVIOUS
  <2>1. ASSUME NEW d \in Devices, EvaluateDevice(d)
        PROVE  PushedIsStored'
    BY <2>1, DeviceEvaluation, EvaluationPushesStored
  <2>2. CASE EvaluateNetwork
    BY <2>2, NetworkEvaluation, EvaluationPushesStored
  <2>3. CASE Restart
    BY <2>3 DEF Restart, PushedIsStored
  <2>4. ASSUME UNCHANGED alerts
        PROVE  PushedIsStored'
    BY <2>4 DEF alerts, PushedIsStored
  <2>5. ASSUME NEW d \in Devices, SkipDevice(d) \/ ChangeStatus(d)
        PROVE  UNCHANGED alerts
    BY <2>5 DEF SkipDevice, ChangeStatus
  <2>6. ASSUME NEW s \in Subjects, Report(s)
        PROVE  UNCHANGED alerts
    BY <2>6 DEF Report
  <2>7. CASE BeginCycle \/ EndLoop \/ CycleError \/ Stop
    BY <2>4, <2>7 DEF BeginCycle, EndLoop, CycleError, Stop
  <2>8. CASE UNCHANGED vars
    BY <2>4, <2>8 DEF vars, alerts
  <2> QED
    BY <2>1, <2>2, <2>3, <2>4, <2>5, <2>6, <2>7, <2>8 DEF Next, Engine
<1> QED
  BY <1>1, <1>2, TypeCorrect, PTL DEF Spec
-----------------------------------------------------------------------------
(* Every step of the engine is a step of the alert lifecycle or none.      *)
LEMMA EvaluationAdvances ==
  ASSUME IInv, NEW s, NEW z, NEW failing, Evaluation(s, z, failing)
  PROVE  \E begun, ended, lost \in SUBSET Keys :
           Lifecycle!Advance(begun, ended, lost)
<1> DEFINE evaluated == DOMAIN z
           results == [k \in evaluated |-> Severity(k, z[k])]
           alerting == {k \in evaluated : results[k] \in Alerting}
           first == ProcessResults(activeEvents, results, failing)
           begun == alerting \ activeEvents
           ended == activeEvents \cap (evaluated \ alerting)
           lost == begun \cap failing
<1>1. evaluated \subseteq Keys /\ DOMAIN results = evaluated
  BY KeysOfKeys DEF Evaluation
<1>2. /\ first.events = (activeEvents \cup alerting) \ (evaluated \ alerting)
      /\ first.created = begun \ lost
  BY <1>1 DEF ProcessResults
<1>3. activeEvents' = first.events
  BY DEF Evaluation
<1>4. /\ begun \in SUBSET Keys /\ ended \in SUBSET Keys
      /\ lost \in SUBSET Keys
  BY <1>1
<1>5. activeEvents' = (activeEvents \cup begun) \ ended
  BY <1>2, <1>3
<1>6. saved' = [k \in Keys |-> IF k \in first.events
                               THEN saved[k] + One(k, first.created) ELSE 0]
  BY DEF Evaluation
<1>7. \A k \in Keys : k \notin activeEvents => saved[k] = 0
  BY DEF IInv, TypeOK, StoredInEvents
<1>8. ASSUME NEW k \in Keys
      PROVE  (IF k \in first.events
              THEN saved[k] + One(k, first.created) ELSE 0)
             = CASE k \in begun \ lost -> 1
                 [] k \in ended -> 0
                 [] OTHER -> saved[k]
  <2> HIDE DEF begun, lost, first, alerting, results, evaluated
  <2>1. saved[k] \in Nat
    BY DEF IInv, TypeOK
  <2>2. CASE k \in begun \ lost
    BY <1>2, <1>7, <2>2 DEF One, begun
  <2>3. CASE k \in ended
    BY <1>2, <2>3 DEF One, begun
  <2>4. CASE k \notin begun \ lost /\ k \notin ended
    BY <1>2, <1>7, <2>1, <2>4 DEF One, begun
  <2> QED
    BY <2>2, <2>3, <2>4
<1> HIDE DEF begun, lost, ended, first
<1>9. saved' = [k \in Keys |-> CASE k \in begun \ lost -> 1
                                [] k \in ended -> 0
                                [] OTHER -> saved[k]]
  BY <1>6, <1>8
<1>10. begun \cap activeEvents = {} /\ ended \subseteq activeEvents
  BY DEF begun, ended
<1> QED
  BY <1>4, <1>5, <1>9, <1>10 DEF Lifecycle!Advance

(* The engine implements the lifecycle its alert manager documents.        *)
THEOREM ImplementsLifecycle == Spec => KeepsLifecycle
<1>1. Init => Lifecycle!LifecycleInit
  BY DEF Init, FreshMemory, Lifecycle!LifecycleInit
<1>2. IInv /\ [Next]_vars => [Lifecycle!LifecycleNext]_<<activeEvents, saved>>
  <2> SUFFICES ASSUME IInv, [Next]_vars
               PROVE  \/ Lifecycle!LifecycleNext
                      \/ UNCHANGED <<activeEvents, saved>>
    OBVIOUS
  <2>1. ASSUME NEW d \in Devices, EvaluateDevice(d)
        PROVE  Lifecycle!LifecycleNext
    BY <2>1, DeviceEvaluation, EvaluationAdvances
    DEF IInv, Lifecycle!LifecycleNext
  <2>2. CASE EvaluateNetwork
    BY <2>2, NetworkEvaluation, EvaluationAdvances
    DEF IInv, Lifecycle!LifecycleNext
  <2>3. CASE Restart
    BY <2>3 DEF Restart, Lifecycle!LifecycleNext, Lifecycle!Forget
  <2>4. ASSUME NEW d \in Devices, SkipDevice(d) \/ ChangeStatus(d)
        PROVE  UNCHANGED <<activeEvents, saved>>
    BY <2>4 DEF SkipDevice, ChangeStatus, alerts
  <2>5. ASSUME NEW s \in Subjects, Report(s)
        PROVE  UNCHANGED <<activeEvents, saved>>
    BY <2>5 DEF Report, alerts
  <2>6. CASE BeginCycle \/ EndLoop \/ CycleError \/ Stop
    BY <2>6 DEF BeginCycle, EndLoop, CycleError, Stop, alerts
  <2>7. CASE UNCHANGED vars
    BY <2>7 DEF vars
  <2> QED
    BY <2>1, <2>2, <2>3, <2>4, <2>5, <2>6, <2>7 DEF Next, Engine
<1> QED
  BY <1>1, <1>2, InvariantHolds, PTL
  DEF KeepsLifecycle, Spec, Lifecycle!LifecycleSpec, Lifecycle!lifecycleVars
=============================================================================
