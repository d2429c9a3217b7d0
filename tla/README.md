# GOATGuard server: a verification project

TLA+ models of the GOATGuard server, the TLC configurations that check them on
small instances, and TLAPS proofs of the results that matter most. Paths are
those of the repository (`run.py`, `src/...`, `README.md`).

## The system

The server is two processes over one PostgreSQL database. `run.py` receives
traffic and metrics from agents, assembles capture files, analyses them, watches
devices and detects anomalies: about eight threads and one more for every agent
connection and every capture file. `run_api.py` serves the REST API and the
WebSocket push on one asyncio event loop. The two share nothing but the database.

```
agents --TCP packets--> TcpReceiver --write_packet--> PcapAssembler
                                                        | on_rotation: one thread per file
                                                        v
agents --UDP metrics,-> UdpReceiver --+            AnalysisPipeline (Zeek, calculators)
         heartbeats                   |                 |
ARP -----------------> ArpScanner ----+--> Repository <-+-- IspProbe
                       HealthChecker -+    (PostgreSQL) <-- DetectionEngine --> alert_queue
                                              ^                                (run.py's)
mobile app <--WebSocket/REST-- API process ---+
```

| Component | State | Operations | Hard behaviour | Correct when | Module |
|---|---|---|---|---|---|
| Detection engine, baselines, detectors (`src/detection/engine.py`, `baseline.py`, `anomaly_detector.py`) | per metric: EWMA baseline, sample count, last score; `_running` | a cycle over devices, then the network; stop, restart | reads rows that other threads write, on its own clock; one failing query drops the rest of a cycle; memory lost on restart | an event is about an anomaly that is there; no device and not the network is starved of evaluation, and every lasting anomaly is raised | `Detection` |
| Alert manager (`alert_manager.py`) | `_active_events`, the alert table | process results, save alert | each device's results are processed twice; saving may fail | one alert per event; nothing announced that is not stored | `Detection`, `AlertLifecycle` |
| TCP receiver, PCAP assembler (`src/receivers/tcp_receiver.py`, `src/ingestion/pcap_assembler.py`) | lock, current file and path, start of rotation | accept, receive, write, rotate, hand over, close | a thread per connection, rotation inside any of them, failing `open`, writes and flushes, clocks that are turned back, shutdown beside running threads | every packet in one file, once, in order; a file handed over is complete and, while nothing fails, never touched again | `Capture`, `PacketCustody` |
| UDP receiver, health checker, ARP scanner (`udp_receiver.py`, `health_checker.py`, `arp_scanner.py`) | device, agent and current-metrics tables | register, heartbeat, metrics, mark inactive, register discovered, mark unseen | check-then-act transactions of three threads; the ORM writes only columns that changed | rows refer to each other consistently; silence and absence are noticed, life is noticed again | `DeviceRegistry` |
| Analysis pipeline, ISP probe (`src/analysis/pipeline.py`, `zeek_runner.py`, `src/monitoring/isp_probe.py`) | network row, current rankings and connections, snapshots | a dozen transactions per capture file; the probe's upsert | overlapping threads, each transaction may fail alone, the process may end between any two | children have their parents, no columns are lost, replaced tables are never empty or mixed | `Analysis` |
| Metrics calculator, log parser (`metrics_calculator.py`, `log_parser.py`; `save_recent_connections` of the repository) | totals of one log, connections grouped | count, rank, group | three loops read one log, by different rules of what is local | they account for the same bytes and failures; the ranking is one | `Traffic` |
| WebSocket broadcast (`src/api/websocket.py`, `app.py`) | set of connections, `alert_queue` per process | connect, disconnect, broadcast | the set changes while a broadcast awaits a send | nobody who is there is dropped; while broadcasts are calm the gone are forgotten and those who stay are served | `Broadcast` |
| Accounts (`src/api/routes/auth.py` and helpers, bootstrap of `run_api.py`) | users, invitations, backup codes; tokens are the clients' | register, log in, enrol, TOTP, backup code, regenerate, recover, reset | requests read, hash for a while, then write what they changed; answers are lost; a clock in seconds beside one in microseconds | single-use items serve once; invitations and accounts match; the tokens of REST sessions follow their password; no late commit takes back another's | `Accounts` |
| REST routes, enrichment, insight texts, configuration | - | - | - | not modelled, see below | - |

## Modules

* **`AlertLifecycle`** is what the alert manager promises: events of keys begin
  and end, and one event stores at most one alert.
* **`Detection`** is the engine. `pc`, `pending` and `running` are the thread;
  `samples` and `prevZ` the baselines; `activeEvents` the alert manager's dict;
  `saved` and `pushed` are history. `BeginCycle` is the query for active
  devices, `EvaluateDevice` the body of the loop with both calls of
  `process_device_results`, `SkipDevice` the device without a metrics row,
  `EvaluateNetwork` the end of the cycle, `CycleError` the logged exception,
  `Report` and `ChangeStatus` what other threads write. A Z-score is the band it
  falls in; `Rescored` says which bands a value can score in when it is read
  again (alpha = 0.10, as in `run.py`).
* **`Capture`** is the receiver's threads and the assembler. `write_packet` is
  broken at every point where another thread can act: `Acquire`,
  `OpenFirstFile`/`KeepFile`/`CloseCompleted`, `Reopen`, `HandOff`, `Write`;
  `Abandon` is an exception under the lock and the end of the connection. What
  may raise is the open (`OpenFails`), a write (`WriteFails`: before the packet's
  header, or between header and packet, which leaves the file `torn`), a write to
  a file that `close()` has closed (`WriteRefused`) and the flush inside a close
  (`FlushFails`, which loses an end of the file). `Stop`, `Close`, `Exit` are the
  main thread. There are two clocks, as in the code: `now` is `time.time()`, by
  which rotation goes, and `local` is what `strftime` shows, by which files are
  named. `TurnBack` sets back both, or the local one alone as the end of summer
  time does; a name that recurs is truncated (`Truncated`). `files` is in the order
  of opening, so a file truncated under its old name is still the same entry,
  emptied.
* **`PacketCustody`** is what the capture path promises, without a file, a lock or
  a rotation: one sequence of packets kept per agent, from which nothing is lost
  before something has failed, and from which a failure may take packets but never
  put one out of place. `Capture` maps the files, read in the order of their
  opening, to that sequence.
* **`DeviceRegistry`** has the device, agent and metrics tables. Agents are known
  by their `uid` (`HOSTNAME__MAC`), devices by their MAC, of which a renamed host
  has one and two uids; `first()` without an order may give any row of a MAC
  (`FirstByMac`). Every
  transaction is a step that loads rows and one that writes them; `Assign` is the
  rule of the ORM that a column is written only if the value assigned differs
  from the value loaded.
* **`Analysis`** has one thread per capture file with a place `pc[f]` after each
  transaction of `AnalysisPipeline.process`, the probe's `Measure` and
  `SaveMeasurement` beside them, and `Restart`. Replacing a table is
  `BeginDelete` (the statement's snapshot), `Delete` (its row locks) and
  `Replace` (inserts and commit, or rollback).
* **`Traffic`** runs the two loops of the calculator and the loop of
  `save_recent_connections` on one row of `conn.log` per step and computes the
  ranking from the result. `IsLocal` and `IsPrivate` are the two rules for local
  addresses. An address is its first two
  octets and a host, or for IPv6 its first group and a host (`fe80:` is local to
  both rules), because prefixes of the text are all the code looks at. A row may
  lack its source or its destination or both, and may have one address for both.
* **`Broadcast`** has a task per client and the broadcast loop; they interleave
  at their awaits only. A connection that is over and forgotten is used for the
  next client (`Vacant`), so clients come and go without end. `loop` is the iteration over the live set: `left` is what
  it has yet to reach, reshuffled when the set grows, and `size` what the
  iterator compares.
* **`Accounts`** has the user, invitation and backup-code tables, the requests the
  API's threads are at and the tokens the clients hold. A request is a step that
  reads and one that commits, with a third where the code takes a value in
  between that the commit uses (`StampEnrolment`, `StampReset`: the clock;
  `LoadCodes`: the code found; `RetireCodes`: what the bulk `UPDATE` saw). The
  commit writes the columns the request has changed since its reading and no
  others. `Fail` is the refused or failed request, `Restart` the end of the
  process with all of them, `Answer` the token that arrives or is lost. `IsCurrent`
  is what `get_current_user` asks of a token; `ReadForReset` asks for the scope
  alone, so one reset token may change the password twice. `past` is
  history: what was accepted, and where two requests overlapped.
* **`DetectionProofs`**, **`CaptureProofs`**, **`CustodyProofs`**, **`RegistryProofs`**,
  **`AnalysisProofs`**, **`TrafficProofs`**, **`BroadcastProofs`** and
  **`AccountsProofs`** hold the proofs, one module for each specification (the
  refinement of `AlertLifecycle` is in `DetectionProofs`); `MC*` are what
  TLC is given. Definitions whose comment begins with *Mutant* are wrong on
  purpose: put in place of the one that follows, each breaks the property it is
  named with in `PROJECT.json`.

The modules are not composed: the components meet in the database only, and each
module takes the others' effect on its tables as an action of its own (`Report`
and `ChangeStatus` in `Detection` are the transactions of `DeviceRegistry`;
`Complete` in `Analysis` is `HandOff` in `Capture`; `PushAlert` in `Broadcast` is
the engine's `on_alert`).

## Runs

| Run | Instance | What it shows |
|---|---|---|
| `DetectionSafety` | 2 devices, 1 metric each, 1 network metric, warm-up 2; 600,000 states | `EventsAreOngoing`, `OneAlertPerEvent`, `PushedIsStored` under every interleaving of reports, status changes, failing queries and saves, stops and restarts; the engine implements `AlertLifecycle` (`KeepsLifecycle`) |
| `DetectionLiveness` | 2 devices, 1 metric each, no network metric; 39,600 states | `MeasurementsAreScored` (nobody starves), `AnomaliesAreRaised` |
| `StoredIsPushed` | 1 device | violated, see below |
| `Capture` | 2 connections, 2 packets each, 3 seconds, rotation every second, 1 mishap (a failing open, write or flush, or a clock turned back); 270,000 states | threads, files and rotations implement `PacketCustody` (`KeepsPackets`); `FinishedFilesAreHanded`, `HandedFilesAreFrozen`, `PacketsAreSettled` |
| `Registry` | 2 agents (uids) of 1 MAC, 2 rows, 1 refused transaction; 318,000 states | `AgentsOwnTheirDevice`, `AgentDevicesHaveAgents`, `MetricsAreOfAgents`; silent agents become inactive, live ones active, absent devices inactive |
| `Analysis` | 2 files, 1 device, 1 probe measurement, 1 refused transaction, any restarts; 960,000 states | `SnapshotsHaveParents`, `MeasurementsAreKept`, `TablesStayFilled`, `RowsAreOfOneFile` |
| `Traffic` | 3 rows, 4 addresses (one of the doubtful prefix `172.2`, link-local ones of IPv4 and IPv6, one outside), missing fields, 2 byte counts, top 2; 370,000 states | `TotalsAreConserved`, `ConnectionsAreConserved`, `HogsHeadTheRanking` |
| `Broadcast` | 3 connections at a time, used again without end; 105,000 states | `ReadersAreActive`, `GoneAreForgotten`, `ClientsAreUpdated` |
| `BroadcastReachesAll` | 3 clients | violated, see below |
| `Codes` | 2 names, 2 invitations, 2 requests at once, 3 sets of backup codes, no clock; 526,000 states | `SingleUse`, `UsedInvitationsMadeAccounts`, `CodesAreLive` |
| `Sessions` | 1 account, 2 requests at once, 4 readings of the clock in 2 seconds and 2 TOTP steps, 2 resets, 2 wrong codes; 2,560,000 states | `CurrentTokensFollowThePassword`, `SingleUse` (of TOTP steps), `AttemptsAreFailures`, `AccountsOnlyAdvance` |
| `FreshTokens` | 1 account | violated, see below |

**Bounds.** `MinSamples = 2` is the least at which the first observation, the
warm-up and the warm baseline differ. Two connections are enough for one thread
to meet another's rotation, two packets for order within and across files, and
three seconds with a rotation every second for two rotations and a third file; one
mishap is placed at every point in turn, and what several do to
safety is left to the proofs. Two rows of one MAC are what a race to register makes, and two uids
of it a renamed host; rows of different MACs meet in the two marking queries only,
each of which treats every row by itself, and the theorems are of any number. The
two devices of the liveness run are one to starve and one to starve it; it has no
metric of the network, whose evaluation uses the same operators, to keep the graph
that TLC searches for cycles small (`DetectionSafety` has one).
Two files overlap in every way two threads can; a third would only repeat it.
One refused transaction is placed at each point in turn, which is how the
properties about partial failure are put. Three connections let one be served, one
fail and one come or go during one broadcast. A hog takes three local
addresses, and three rows let it become one by several connections. Two requests at once are what every
pairwise overlap needs; two names and two invitations let two registrations share
either one or both; three sets of codes are a first set, one that retires it and
one more made at the same time. Two readings of the clock to a second tell a
token's second from the instant of a change; two resets let one reset token
serve twice; and two seconds (of which a TOTP step
is one here, because no property relates them) have a boundary between them.

Runs that may end by design (processes that stop, bounded numbers of files, rows,
clients) do not check deadlock; `Capture`, `Registry` and the detection runs do, with the ended process
stuttering explicitly where it may end.

**Fairness.** Each thread's own next step is weakly fair, because a Python thread
that can run is run; nothing is assumed of agents, clients, the network or the
scans' findings. `Capture` adds weak fairness of acquiring the lock (a thread gets
it if it stays free; no fairness among waiters) and of the clock. `Registry` adds
the clock. `Broadcast` assumes that an awaited send ends, which the WebSocket
server's ping timeout ensures, and that the database does not refuse for ever.
Where liveness needs more, the property says so as a hypothesis: `Undisturbed` (the
engine keeps running, its queries stop failing) and `CalmBroadcasts` (from some time
on nobody joins or leaves the set in the middle of a broadcast). The code does not
ensure the latter: clients that reconnect during every broadcast may abort each of
them (`websocket.py:73`) before it comes to a given client, or to the removal of a
dead one, and without the hypothesis TLC finds both `GoneAreForgotten` and
`ClientsAreUpdated` violated.

`Accounts` has no liveness: every request is free to fail, and nothing in the code
waits for another request. It assumes of the environment that PostgreSQL runs at
READ COMMITTED with its time zone at UTC (`dependencies.py:101` reads the column
so) and that `iat` is in whole seconds, as PyJWT writes it.

**Liveness that is conditional on behaviour.** `LiveAgentsBecomeActive` assumes
heartbeats that keep being committed, `SilentAgentsBecomeInactive` and
`AbsentDevicesBecomeInactive` silence and absence that last.
`MeasurementsAreScored` is about evaluations: each device that stays active and has
a row, and the network, is evaluated again and again, whatever the others do. It
does not say that each measurement is scored: one that is overwritten before the
next cycle is not, and a query that keeps failing for one device keeps the devices
behind it from evaluation (`engine.py:101`), which `Undisturbed` excludes.

## What the code's words say and the code does not do

* `StoredIsPushed`: `engine.py:142` "Push new alerts to WebSocket immediately". A
  device's alert is created by the first of two calls of
  `process_device_results`, whose result is dropped; the second finds the event
  active and returns nothing, so device alerts are stored and never pushed.
* `BroadcastReachesAll`: `websocket.py:67` "Send a JSON message to all connected
  clients". The set is iterated live across awaits; a change of its size raises
  `RuntimeError` and ends the broadcast. What still holds, while broadcasts are calm
  in the end, is `ClientsAreUpdated`.
* `FreshTokensAreAdmitted`: `dependencies.py:98` "Invalidar tokens emitidos antes
  de un cambio de contraseña". A token's `iat` is the beginning of its second and
  `password_changed_at` an instant within one: a token issued after the change, in
  the same second, is refused too, and so is the one `reset-password` answers
  with. What still holds is `CurrentTokensFollowThePassword`.

Seen in the models and stated by no run of its own:

* `repository.py:47` "reuses it instead of creating a duplicate": the look-up and
  the insert are not atomic and `devices.mac` is not unique, so listener and
  scanner can each insert a row for one MAC (`DeviceRegistry`). After a host is
  renamed its new `uid` finds no agent and upgrades whichever row `first()` returns
  (`repository.py:77`), so that two rows of one MAC may have an agent each. What
  holds is `AgentDevicesHaveAgents`: no row is marked that is not some agent's.
* `repository.py:293` "Deletes all existing entries and inserts the new ranking":
  two overlapping pipeline threads delete only what was committed before them and
  both insert (`Analysis`). What holds is `RowsAreOfOneFile`: without an overlap
  neither failure nor restart mixes two cycles.
* `README.md:300` "Instant push via WebSocket alert_queue": the queue is a variable
  of one process; the engine and the broadcast loop run in two (`Broadcast`).
* `auth.py:260` `SELECT FOR UPDATE` "para prevenir race condition": the query
  returns the object that the session has loaded before, unrefreshed, so two
  verifications that overlap may both be accepted in one time step; what holds is
  `SingleUse`, which exempts them. `totp_utils.py:68` compares the clock's time
  steps: a code of the window may be accepted in one step and again in the next.
* `auth.py:347`: two wrong recovery codes that overlap count as one
  (`AttemptsAreFailures` exempts them); `auth.py:115`: two registrations that
  overlap may share an invitation, each under a name of its own.
* `dependencies.py:98` compares a token with the last change of the password for
  `get_current_user` only. `reset-password` asks a token for the scope
  `password_reset` (`auth.py:370`) and not whether the recovery code behind it has
  been used, so a reset token serves until it expires; the WebSocket asks for
  `full_access` (`websocket.py:104`) once, at connection. Both take tokens older
  than the change: `CurrentTokensFollowThePassword` is not about them.
* `metrics_calculator.py:21` "failed_connections_global (sum across all devices)":
  the code counts every failed connection of the log (line 165), those with a source
  that is outside or missing included. `TotalsAreConserved` has the difference
  exactly (`outside.failed`).
* A capture file is named by local time to the second and opened with `wb`
  (`pcap_assembler.py:66`). In the hour that is repeated when summer time ends, or
  after the clock is set back, a name may recur, and a file that Zeek is reading or
  has yet to read is emptied (`Capture`). What holds is `HandedFilesAreFrozen` as
  long as no clock is turned back; packets are never out of order even then
  (`KeepsPackets`).
* A write or flush that fails, as on a full disk, costs the packets concerned and
  the connection (`pcap_assembler.py:116`, `134`); after a header without its packet
  the rest of that file is unreadable (`torn`).
* `auth.py:118`: an account whose answer to registration was lost can never be
  enrolled, and its name stays taken.
* 169.254.x.x is local to the calculator and not to the repository
  (`repository.py:721`): traffic between such an address and a device counts as
  internal and is stored as a connection with the outside.
  `_save_snapshots` (`pipeline.py:124`) keeps endpoint snapshots of 192.168 and 10
  only, though 172.16 to 172.31 count as local elsewhere.
* An alert whose save fails leaves its event active (`alert_manager.py:93`);
  `prev_z` may be older than one cycle and one measurement can be scored twice,
  though the comments say "2 consecutive cycles"; after a failed `open` the
  assembler hands over a path it never wrote (`pcap_assembler.py:68`); rotation
  waits for a packet; `max_file_size_mb` is never read; an exception other than
  `OSError` ends the UDP listener; a heartbeat that overlaps a health check may be
  lost (`repository.py:371`); the metrics of an older file may be saved last; a
  network alert is stored under device 1, which need not exist
  (`alert_manager.py:195`); `172.2` as a prefix takes public addresses for local.

## Proofs

Every invariant, every action property and both refinements that the runs check
are proved, for every value of the constants: any number of devices, connections,
files, clients, accounts and overlapping requests, logs of any length, and every
value of the bounds. What remains to TLC is liveness (see the end of this section).

* `DetectionProofs`: `TypeCorrect`, `OngoingEvents` (`EventsAreOngoing`),
  `AlertsOnce` (`OneAlertPerEvent`), `OnlyStoredIsPushed` (`PushedIsStored`) and
  `ImplementsLifecycle` (`Spec => KeepsLifecycle`).
  `OneAlertPerEvent` is not inductive: a new event could meet an alert left over
  from an earlier one. The invariant `IInv` adds `StoredInEvents` (alerts are
  stored inside events only) and `EventsAreOngoing`. One lemma
  (`EvaluationKeepsEvents`) covers devices and network, whose evaluations differ
  in the number of calls and are brought to one shape first
  (`DeviceEvaluation`, `NetworkEvaluation`). The refinement maps an evaluation to
  `Advance` with the created, cleared and lost keys as witnesses, a restart to
  `Forget`, and everything else to a stutter.
* `CaptureProofs`: `CaptureTypes`, `FinishedAreHanded` (`FinishedFilesAreHanded`),
  `HandedAreFrozen` (`HandedFilesAreFrozen`) and `CaptureKeepsPackets`
  (`Spec => KeepsPackets`). First the lock: a thread is at a place under it
  exactly if it holds it (`LockIsHeld`), so what a rotation knows at each of its
  steps (`Rotating`) is not disturbed. Then, while every open has succeeded, every
  file but the current one has been handed over or is about to be (`Handing`),
  whatever writes and flushes fail and however clocks are turned. While no clock is
  turned back, all files were opened at an earlier second than the one that is due
  now (`ClocksAgree`): its name is new and opening it truncates none. The refinement
  holds of every failure and clock: whatever a step writes goes behind all packets
  there are (`WritingKeeps`), and what a truncation or a lost buffer leaves is in
  the places it had (`Within`), hence in order (`WithinIsLeft`). A writer finds
  the file closed or torn only after a failure or `close()` (`ClosedInRotation`,
  `TornByFailure`), so no packet is lost before. The sequence kept of an agent is
  built from the places of its packets in the files by their rank
  (`RanksAscend`, `RanksCover`); a last place is added without renumbering the others
  (`LastPlace`). `Receive` maps to `Take`, `Write` to `Keep` or `Lose`,
  an exception to `Lose`, `Close`, `TurnBack` and an opening that truncates to
  `Impair`, and all else to a stutter.
* `CustodyProofs`: `CustodySpec => []PacketsAreKept`: nothing is kept twice or out
  of order, nothing is missing before a failure. `FilesKeepPackets`
  of `CaptureProofs` puts it together with `CaptureKeepsPackets`: `PacketsAreKept`
  of the packets in the files, unimpaired meaning that no open, write or flush has
  failed, no clock has been turned back and `close()` has not been called. The invariant adds that whatever is kept comes
  before the packet in hand.
* `RegistryProofs`: `RegistryTypes`, `AgentsKeepTheirDevice`
  (`AgentsOwnTheirDevice`), `AgentDevicesKeepAgents` (`AgentDevicesHaveAgents`),
  `MetricsBelongToAgents` (`MetricsAreOfAgents`). What a transaction loaded may be
  stale when it writes; the invariant says what of it stays true (`Loads`: the ids
  are those of rows, the listener's agent has the device it loaded, a `uid` that had
  no agent has none still, since only the listener registers). With it the three
  properties are inductive together: registration is the one step that links an
  agent to a device, and it marks the device it links (`RegistrationLinks`,
  `LinksStay`).
* `AnalysisProofs`: `AnalysisTypes`, `SnapshotsKeepParents`
  (`SnapshotsHaveParents`), `MeasurementsKept` (`MeasurementsAreKept`),
  `OneFilePerTable` (`RowsAreOfOneFile`), `TablesFilled` (`TablesStayFilled`). The
  rows of a table are of one file because the one thread that replaces it has all
  of its rows in its snapshot, unless another has it open too (`OneReplacesAll`).
* `TrafficProofs`: `TrafficTypes`, `TotalsAddUp` (`TotalsAreConserved`),
  `ConnectionsAddUp` (`ConnectionsAreConserved`), `HogsComeFirst`
  (`HogsHeadTheRanking`). The sums are the community modules' folds; that they
  exist, are independent of the order of summation and grow by what is added
  (`SumsExist`, `SumsAgree`, `SumRecursion`, `SumOfGrown`, `SumAbove`) is proved
  here by least counterexamples: the sets for which a claim holds are reached from
  the empty one (`NumbersAreReached`, `SubsetsAreReached`), which needs no
  induction theorem with an operator for a parameter. `ConnectionsFit` speaks of
  all devices where the property speaks of the known: what is stored for one is at
  most what was counted for it, and what is stored and what is nobody's add up to
  the traffic with the outside. `HogsAreFew` is the pigeonhole behind the ranking:
  those above twice the average are less than half.
* `BroadcastProofs`: `BroadcastTypes` and `ReadersStayActive` (`ReadersAreActive`).
  A client is taken
  out by its own endpoint or because a send failed; the invariant adds that an
  endpoint that has ended and a client in `dead` have gone (`EndsAreGone`), and a
  connection is not used again before every loop and set has forgotten it.
* `AccountsProofs`: `AccountsTypes`, `CommitsAdvance` (`AccountsOnlyAdvance`),
  `InvitationsMakeAccounts` (`UsedInvitationsMadeAccounts`), `UsedOnce`
  (`SingleUse`), `LastCodesAreLive` (`CodesAreLive`), `CurrentTokensEndWithPasswords`
  (`CurrentTokensFollowThePassword`: of `get_current_user`, and of no other check), `FailuresAreCounted` (`AttemptsAreFailures`). A
  request commits what it read steps ago. `Base` says what every reading is still
  good for (`RequestsFit`, `TokensFit`, `SetsFit`, `TimesFit`: the account is
  there, nothing stamped lies in the future); and for each property one more
  conjunct (`UsesFit`, `CodesFit`, `SessionsFit`, `AttemptsFit`) says of every
  request under way that either nothing has overtaken its reading, or its `late`
  mark or the `contested` mark of what it is about says so.

**Assumptions.** The constants are assumed to be what the code or PostgreSQL
makes them, by name in the module that declares them: limits are natural
numbers, intervals at least one second, the warm-up at least one; the network is
no device, the main thread no connection, `Nobody`, `"none"` and `Nothing` no real
value; the octets of an address are below 256 and the first group of one of IPv6 below
65536 (`AddressesAssumption`); each `uid` has a MAC (`RegistryAssumption`); the clients
that one server has at a time are finitely many (`BroadcastAssumption`); the kinds of things
that are used once are disjoint (`KindsAssumption` of `Accounts`, which the tables keep
apart). TLC evaluates each in the runs of its module. What the models take for
granted besides is in their definitions: PostgreSQL's isolation and the ORM's columns
(`DeviceRegistry`, `Analysis`, `Accounts`), that a clock which is not turned back
(`TurnBack`) shows one second after the other, and what the next section leaves out.

**Only model-checked.** Liveness under fairness is out of this prover's reach:
`MeasurementsAreScored`, `AnomaliesAreRaised`, `PacketsAreSettled`,
`SilentAgentsBecomeInactive`, `LiveAgentsBecomeActive`,
`AbsentDevicesBecomeInactive`, `GoneAreForgotten`, `ClientsAreUpdated`.
Each proof that a property is inductive is about the specification without
fairness, which the fair one implies.

## Not modelled

* REST routes: queries; the two that write (alias, seen mark) assign one column in
  one transaction.
* Enrichment: caches of names no modelled state depends on. Insight texts:
  wording. Configuration: read once; its limits are assumptions on constants.
* The values of metrics: EWMA arithmetic beyond the band, rates, DNS averages,
  packet headers, ISP measurements.
* Of the capture path: a thread that cannot be started in `on_rotation` (`run.py:102`;
  the exception leaves the completed file unhanded), the flush of the interpreter's
  exit, two reasons to fail in one call, and what Zeek makes of a file it is given.
* The connection pool, `stop()` of the health checker, the probe and the listener
  (daemon threads that the process takes with it), `create_event_alert` (never
  called), token checks of the WebSocket.
* Of the accounts: the texts of codes and passwords and their hashes, the lookup of
  leaked passwords, users older than TOTP, the key file of `run_api.py`.

## Plan

1. Proofs: the action properties that the liveness of `Registry`, `Broadcast` and
   `Detection` rests on (what keeps a step enabled until it is taken), as far as
   they say something of their own; lemmas that `AccountsProofs` states per
   operation and that its handlers could share.
2. Two metrics of one device in one evaluation as an instance of
   `DetectionSafety`; the order of saves of `Analysis` as an action property with
   the overlap as its hypothesis; `stop()` of the UDP listener and the health
   checker in `DeviceRegistry`.
