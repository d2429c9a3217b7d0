----------------------------- MODULE DeviceRegistry -----------------------------
(***************************************************************************)
(* The device and agent tables and the three threads of run.py that write  *)
(* them, each through short transactions of src/database/repository.py:    *)
(* the UDP listener (agents' metrics and heartbeats), the health checker   *)
(* (silent agents) and the ARP scanner (devices on the LAN).               *)
(*                                                                         *)
(* PostgreSQL runs them at READ COMMITTED, and the ORM writes a column at  *)
(* commit only if the value assigned differs from the value loaded.  A     *)
(* transaction is therefore two steps: one loads rows, one writes, and     *)
(* what other threads commit in between is overwritten, or kept where the  *)
(* loaded value made the assignment a no-op.                               *)
(*                                                                         *)
(* An agent is known by its uid, HOSTNAME__MAC, and a device by the MAC    *)
(* alone: after a host is renamed, or where an agent reports no MAC, there *)
(* are several uids of one MAC.  Time is the age of an agent's last        *)
(* heartbeat in health-check intervals.                                    *)
(***************************************************************************)
EXTENDS Naturals, FiniteSets

CONSTANTS
  Macs,                 \* hardware addresses on the LAN, not all of them
  Uids,                 \* the uids that agents report
  MacOf,                \* the hardware address in each uid
  MaxDevices,           \* bound: rows the device table can have
  Timeout,              \* age a heartbeat may reach before its agent is stale
  MaxFailures           \* bound: transactions the database refuses

ASSUME RegistryAssumption ==
  /\ "none" \notin Macs \cup Uids /\ MacOf \in [Uids -> Macs]
  /\ MaxDevices \in Nat /\ Timeout \in Nat /\ MaxFailures \in Nat

Ids == 1 .. MaxDevices
NoId == 0
Statuses == {"active", "inactive", "disconnected"}
NoRow == [mac |-> "none", hasAgent |-> FALSE, status |-> "none"]
NoAgent == [device |-> NoId, status |-> "none", age |-> 0]

VARIABLES
  device,               \* the device table: id -> row, or NoRow
  agent,                \* the agent table: uid -> row, or NoAgent
  metricsRow,           \* ids with a row in device_current_metrics
  udp,                  \* the UDP listener: what it is doing, with what it loaded
  health,               \* the health checker: the stale agents it has loaded
  arp,                  \* the ARP scanner: the scan under way and what it loaded
  failures              \* history: transactions refused

tables == <<device, agent, metricsRow>>
vars == <<device, agent, metricsRow, udp, health, arp, failures>>

Listening == [at |-> "listen", uid |-> "none", id |-> NoId, seen |-> NoRow,
              status |-> "none"]
Dead == [Listening EXCEPT !.at = "dead"]
Resting == [at |-> "sleep", stale |-> {}]
Waiting == [at |-> "sleep", found |-> {}, todo |-> {}, mac |-> "none",
            id |-> NoId, seen |-> NoRow, stale |-> {}]

Row == [mac : Macs, hasAgent : BOOLEAN, status : Statuses]
AgentRow == [device : Ids, status : {"active", "inactive"}, age : 0 .. Timeout + 1]

TypeOK ==
  /\ device \in [Ids -> Row \cup {NoRow}]
  /\ agent \in [Uids -> AgentRow \cup {NoAgent}]
  /\ metricsRow \subseteq Ids
  /\ udp \in [at : {"listen", "touch", "register", "save", "heartbeat", "dead"},
              uid : Uids \cup {"none"}, id : Ids \cup {NoId},
              seen : Row \cup {NoRow}, status : {"none", "active", "inactive"}]
  /\ health \in [at : {"sleep", "mark"}, stale : SUBSET Uids]
  /\ arp \in [at : {"sleep", "next", "register", "unseen"}, found : SUBSET Macs,
              todo : SUBSET Macs, mac : Macs \cup {"none"},
              id : Ids \cup {NoId}, seen : Row \cup {NoRow},
              stale : SUBSET Ids]
  /\ failures \in 0 .. MaxFailures

Init ==
  /\ device = [i \in Ids |-> NoRow]
  /\ agent = [u \in Uids |-> NoAgent]
  /\ metricsRow = {}
  /\ udp = Listening
  /\ health = Resting
  /\ arp = Waiting
  /\ failures = 0
-----------------------------------------------------------------------------
(* The tables.                                                             *)

Exists(i) == device[i] # NoRow
FreeIds == {i \in Ids : ~Exists(i)}
NewId == CHOOSE i \in FreeIds : \A j \in FreeIds : i <= j

(* filter_by(mac=...).first(): some row with this MAC, whether it has an   *)
(* agent or not, or no row.                                                *)
FirstByMac(m) ==
  IF \E i \in Ids : device[i].mac = m
  THEN {i \in Ids : device[i].mac = m} ELSE {NoId}
Loaded(i) == IF i = NoId THEN NoRow ELSE device[i]

(* The ORM's write of a status: only when it differs from the loaded one.  *)
Assign(stored, loaded, assigned) == IF loaded = assigned THEN stored ELSE assigned

Refused == failures < MaxFailures /\ failures' = failures + 1
-----------------------------------------------------------------------------
(* The UDP listener.                                                       *)

(* Mutant: a known agent's device is not returned. *)
ReceiveMetricsForgetting(u) ==
  /\ udp.at = "listen"
  /\ IF agent[u] # NoAgent
     THEN udp' = [Listening EXCEPT !.at = "touch", !.uid = u]
     ELSE \E i \in FirstByMac(MacOf[u]) :
            udp' = [Listening EXCEPT !.at = "register", !.uid = u, !.id = i,
                                     !.seen = Loaded(i)]
  /\ UNCHANGED <<tables, health, arp, failures>>

(* get_or_create_agent, up to its first write: an agent already known will *)
(* be touched, otherwise the device with its MAC is looked up.             *)
ReceiveMetrics(u) ==
  /\ udp.at = "listen"
  /\ IF agent[u] # NoAgent
     THEN udp' = [Listening EXCEPT !.at = "touch", !.uid = u,
                                   !.id = agent[u].device]
     ELSE \E i \in FirstByMac(MacOf[u]) :
            udp' = [Listening EXCEPT !.at = "register", !.uid = u, !.id = i,
                                     !.seen = Loaded(i)]
  /\ UNCHANGED <<tables, health, arp, failures>>

(* A known agent: its heartbeat is renewed, its status is left as it is.   *)
TouchAgent ==
  /\ udp.at = "touch"
  /\ agent' = [agent EXCEPT ![udp.uid].age = 0]
  /\ udp' = [udp EXCEPT !.at = "save"]
  /\ UNCHANGED <<device, metricsRow, health, arp, failures>>

(* Mutant: a device found by ARP is not upgraded. *)
RegisterAgentNotUpgrading ==
  /\ udp.at = "register"
  /\ \E i \in Ids :
       /\ IF udp.id = NoId
          THEN /\ FreeIds # {} /\ i = NewId
               /\ device' = [device EXCEPT ![i] =
                    [mac |-> MacOf[udp.uid], hasAgent |-> TRUE, status |-> "active"]]
          ELSE i = udp.id /\ UNCHANGED device
       /\ agent' = [agent EXCEPT ![udp.uid] =
                      [device |-> i, status |-> "active", age |-> 0]]
       /\ udp' = [udp EXCEPT !.at = "save", !.id = i]
  /\ UNCHANGED <<metricsRow, health, arp, failures>>

(* A new agent: its device row is upgraded or created with it.             *)
RegisterAgent ==
  /\ udp.at = "register"
  /\ \E i \in Ids :
       /\ IF udp.id = NoId
          THEN /\ FreeIds # {} /\ i = NewId
               /\ device' = [device EXCEPT ![i] =
                    [mac |-> MacOf[udp.uid], hasAgent |-> TRUE, status |-> "active"]]
          ELSE /\ i = udp.id
               /\ device' = [device EXCEPT
                    ![i].hasAgent = TRUE,
                    ![i].status = Assign(@, udp.seen.status, "active")]
       /\ agent' = [agent EXCEPT ![udp.uid] =
                      [device |-> i, status |-> "active", age |-> 0]]
       /\ udp' = [udp EXCEPT !.at = "save", !.id = i]
  /\ UNCHANGED <<metricsRow, health, arp, failures>>

(* Mutant: the device is committed before the agent is inserted. *)
RegistrationFailsHalfway ==
  /\ udp.at \in {"touch", "register"}
  /\ Refused
  /\ device' = IF udp.at = "register" /\ udp.id # NoId
               THEN [device EXCEPT ![udp.id].hasAgent = TRUE] ELSE device
  /\ udp' = Dead
  /\ UNCHANGED <<agent, metricsRow, health, arp>>

(* get_or_create_agent re-raises what the database raises; the listener    *)
(* catches OSError only, so its thread ends.                               *)
RegistrationFails ==
  /\ udp.at \in {"touch", "register"}
  /\ Refused
  /\ udp' = Dead
  /\ UNCHANGED <<tables, health, arp>>

(* save_device_metrics creates or updates the row; it swallows its errors. *)
SaveMetrics ==
  /\ udp.at = "save"
  /\ \/ metricsRow' = metricsRow \cup {udp.id} /\ UNCHANGED failures
     \/ Refused /\ UNCHANGED metricsRow
  /\ udp' = Listening
  /\ UNCHANGED <<device, agent, health, arp>>

(* update_heartbeat loads the agent, if there is one. *)
ReceiveHeartbeat(u) ==
  /\ udp.at = "listen"
  /\ agent[u] # NoAgent
  /\ udp' = [Listening EXCEPT !.at = "heartbeat", !.uid = u,
                              !.id = agent[u].device,
                              !.status = agent[u].status]
  /\ UNCHANGED <<tables, health, arp, failures>>

(* Mutant: the device is left as it was. *)
CommitHeartbeatOfAgentOnly ==
  /\ udp.at = "heartbeat"
  /\ \/ /\ agent' = [agent EXCEPT
             ![udp.uid].age = 0,
             ![udp.uid].status = Assign(@, udp.status, "active")]
        /\ UNCHANGED failures
     \/ Refused /\ UNCHANGED agent
  /\ udp' = Listening
  /\ UNCHANGED <<device, metricsRow, health, arp>>

(* Its commit.  The device is loaded here, after the agent's own update    *)
(* has been flushed, so a stale status is possible for the agent only.     *)
CommitHeartbeat ==
  /\ udp.at = "heartbeat"
  /\ \/ /\ agent' = [agent EXCEPT
             ![udp.uid].age = 0,
             ![udp.uid].status = Assign(@, udp.status, "active")]
        /\ device' = [device EXCEPT ![udp.id].status = "active"]
        /\ UNCHANGED failures
     \/ Refused /\ UNCHANGED <<agent, device>>
  /\ udp' = Listening
  /\ UNCHANGED <<metricsRow, health, arp>>
-----------------------------------------------------------------------------
(* The health checker.                                                     *)

(* mark_inactive_agents loads the active agents whose heartbeat is stale.  *)
LoadStale ==
  /\ health.at = "sleep"
  /\ health' = [at |-> "mark",
                stale |-> {u \in Uids : agent[u].status = "active"
                                          /\ agent[u].age > Timeout}]
  /\ UNCHANGED <<tables, udp, arp, failures>>

(* Mutant: only their devices are marked. *)
MarkInactiveDevicesOnly ==
  /\ health.at = "mark"
  /\ \/ /\ device' = [i \in Ids |->
             IF \E u \in health.stale : agent[u].device = i
             THEN [device[i] EXCEPT !.status = "disconnected"] ELSE device[i]]
        /\ UNCHANGED failures
     \/ Refused /\ UNCHANGED device
  /\ health' = Resting
  /\ UNCHANGED <<agent, metricsRow, udp, arp>>

(* It marks them and their devices. *)
MarkInactive ==
  /\ health.at = "mark"
  /\ \/ /\ agent' = [u \in Uids |-> IF u \in health.stale
                                   THEN [agent[u] EXCEPT !.status = "inactive"]
                                   ELSE agent[u]]
        /\ device' = [i \in Ids |->
             IF \E u \in health.stale : agent[u].device = i
             THEN [device[i] EXCEPT !.status = "disconnected"] ELSE device[i]]
        /\ UNCHANGED failures
     \/ Refused /\ UNCHANGED <<agent, device>>
  /\ health' = Resting
  /\ UNCHANGED <<metricsRow, udp, arp>>
-----------------------------------------------------------------------------
(* The ARP scanner.                                                        *)

(* Some devices answer the scan, with an address in Macs or another.  A    *)
(* scan that nobody answers marks none, and is left out.                   *)
Scan ==
  /\ arp.at = "sleep"
  /\ \E found \in SUBSET Macs :
       arp' = [Waiting EXCEPT !.at = "next", !.found = found, !.todo = found]
  /\ UNCHANGED <<tables, udp, health, failures>>

(* register_discovered_device loads the device with the next MAC found. *)
LoadDiscovered(m) ==
  /\ arp.at = "next" /\ m \in arp.todo
  /\ \E i \in FirstByMac(m) :
       arp' = [arp EXCEPT !.at = "register", !.mac = m, !.id = i,
                          !.seen = Loaded(i)]
  /\ UNCHANGED <<tables, udp, health, failures>>

(* Mutant: the whole row is written back, as it was loaded. *)
RegisterDiscoveredOverwriting ==
  /\ arp.at = "register"
  /\ \/ /\ arp.id # NoId
        /\ device' = [device EXCEPT ![arp.id] =
             IF arp.seen.hasAgent THEN arp.seen
             ELSE [arp.seen EXCEPT !.status = "active"]]
        /\ UNCHANGED failures
     \/ /\ arp.id = NoId /\ FreeIds # {}
        /\ device' = [device EXCEPT ![NewId] =
             [mac |-> arp.mac, hasAgent |-> FALSE, status |-> "active"]]
        /\ UNCHANGED failures
     \/ Refused /\ UNCHANGED device
  /\ arp' = [arp EXCEPT !.at = "next", !.todo = @ \ {arp.mac}, !.mac = "none",
                        !.id = NoId, !.seen = NoRow]
  /\ UNCHANGED <<agent, metricsRow, udp, health>>

(* Its commit: a device without an agent is active again, a new one gets a *)
(* row.                                                                    *)
RegisterDiscovered ==
  /\ arp.at = "register"
  /\ \/ /\ arp.id # NoId
        /\ device' = [device EXCEPT ![arp.id].status =
             IF arp.seen.hasAgent THEN @ ELSE Assign(@, arp.seen.status, "active")]
        /\ UNCHANGED failures
     \/ /\ arp.id = NoId /\ FreeIds # {}
        /\ device' = [device EXCEPT ![NewId] =
             [mac |-> arp.mac, hasAgent |-> FALSE, status |-> "active"]]
        /\ UNCHANGED failures
     \/ Refused /\ UNCHANGED device
  /\ arp' = [arp EXCEPT !.at = "next", !.todo = @ \ {arp.mac}, !.mac = "none",
                        !.id = NoId, !.seen = NoRow]
  /\ UNCHANGED <<agent, metricsRow, udp, health>>

(* Mutant: the negation is lost, the devices that answered are loaded. *)
LoadUnseenAnswering ==
  /\ arp.at = "next" /\ arp.todo = {}
  /\ arp' = [arp EXCEPT !.at = "unseen",
       !.stale = {i \in Ids : Exists(i) /\ ~device[i].hasAgent
                    /\ device[i].status = "active" /\ device[i].mac \in arp.found}]
  /\ UNCHANGED <<tables, udp, health, failures>>

(* mark_unseen_devices_inactive loads the active devices without an agent  *)
(* that did not answer.                                                    *)
LoadUnseen ==
  /\ arp.at = "next" /\ arp.todo = {}
  /\ arp' = [arp EXCEPT !.at = "unseen",
       !.stale = {i \in Ids : Exists(i) /\ ~device[i].hasAgent
                    /\ device[i].status = "active" /\ device[i].mac \notin arp.found}]
  /\ UNCHANGED <<tables, udp, health, failures>>

MarkUnseen ==
  /\ arp.at = "unseen"
  /\ \/ /\ device' = [i \in Ids |-> IF i \in arp.stale
                                   THEN [device[i] EXCEPT !.status = "inactive"]
                                   ELSE device[i]]
        /\ UNCHANGED failures
     \/ Refused /\ UNCHANGED device
  /\ arp' = Waiting
  /\ UNCHANGED <<agent, metricsRow, udp, health>>
-----------------------------------------------------------------------------
(* Time passes: every heartbeat gets older, up to where age stops to matter. *)
Tick ==
  /\ agent' = [u \in Uids |-> IF agent[u] # NoAgent /\ agent[u].age <= Timeout
                             THEN [agent[u] EXCEPT !.age = @ + 1] ELSE agent[u]]
  /\ UNCHANGED <<device, metricsRow, udp, health, arp, failures>>

UdpStep == TouchAgent \/ RegisterAgent \/ SaveMetrics \/ CommitHeartbeat
HealthStep == LoadStale \/ MarkInactive
ArpStep ==
  \/ Scan \/ RegisterDiscovered \/ LoadUnseen \/ MarkUnseen
  \/ \E m \in Macs : LoadDiscovered(m)

Next ==
  \/ \E u \in Uids : ReceiveMetrics(u) \/ ReceiveHeartbeat(u)
  \/ UdpStep \/ RegistrationFails
  \/ HealthStep
  \/ ArpStep
  \/ Tick

Spec == Init /\ [][Next]_vars

(* The threads' loops never stop of themselves and time passes; agents owe *)
(* no datagram.                                                            *)
FairSpec ==
  Spec /\ WF_vars(UdpStep) /\ WF_vars(HealthStep) /\ WF_vars(ArpStep) /\ WF_vars(Tick)
-----------------------------------------------------------------------------
(* Properties.                                                             *)

(* An agent's row always points at a device with its MAC that is marked as *)
(* having an agent, whatever the scanner registers or marks meanwhile.     *)
AgentsOwnTheirDevice ==
  \A u \in Uids : agent[u] # NoAgent =>
    device[agent[u].device].mac = MacOf[u] /\ device[agent[u].device].hasAgent

(* And a device marked as having an agent is one's: when listener and      *)
(* scanner register a MAC at once it gets several rows, and agents may be  *)
(* given any of them, but none is left marked that no agent would keep     *)
(* alive or, once silent, have disconnected.                               *)
AgentDevicesHaveAgents ==
  \A i \in Ids : device[i].hasAgent => \E u \in Uids : agent[u].device = i

(* "One row per device with agent" (DeviceCurrentMetrics): current metrics *)
(* are kept for devices with an agent only.                                *)
MetricsAreOfAgents == \A i \in metricsRow : device[i].hasAgent

Silent(u) == udp.uid # u

(* An agent that falls silent for good ends up inactive for good, although *)
(* heartbeats and checks overwrite each other.                             *)
SilentAgentsBecomeInactive ==
  \A u \in Uids : <>[]Silent(u) =>
    <>[](agent[u] = NoAgent \/ agent[u].status = "inactive")

(* An agent whose heartbeats keep being committed is active again and      *)
(* again: a check that overwrites one of them is undone by a later one.    *)
LiveAgentsBecomeActive ==
  \A u \in Uids : []<><<CommitHeartbeat /\ agent'[u].age = 0 /\ udp.uid = u>>_vars =>
    []<>(agent[u].status = "active" /\ device[agent[u].device].status = "active")

(* A device without an agent that the scans no longer find ends up not     *)
(* active, as long as they find something.                                 *)
AbsentDevicesBecomeInactive ==
  \A m \in Macs : <>[](m \notin arp.found) =>
    <>[](\A i \in Ids : device[i].mac = m /\ ~device[i].hasAgent
                          => device[i].status # "active")
=============================================================================
