----------------------------- MODULE RegistryProofs -----------------------------
(***************************************************************************)
(* DeviceRegistry for any MAC addresses, uids and bounds: the types, and   *)
(* that whatever the listener, the health checker and the scanner          *)
(* overwrite of each other, agents and their devices point at each other.  *)
(***************************************************************************)
EXTENDS DeviceRegistry, WellFoundedInduction, TLAPS

(* Every set of numbers has a least one. *)
LEMMA LeastNumber ==
  ASSUME NEW S, S \subseteq Nat, S # {}
  PROVE  \E x \in S : \A y \in S : x <= y
<1> DEFINE less == {p \in Nat \X Nat : p[1] < p[2]}
<1>1. IsWellFoundedOn(less, Nat)
  BY NatLessThanWellFounded DEF OpToRel
<1> HIDE DEF less
<1>2. \E x \in S : \A y \in S : <<y, x>> \notin less
  BY <1>1, WFMin
<1>3. \A x, y \in S : <<y, x>> \notin less => x <= y
  BY DEF less
<1> QED
  BY <1>2, <1>3

(* A row inserted gets an id that no row has. *)
LEMMA NewIdIsFree == FreeIds # {} => NewId \in Ids /\ ~Exists(NewId)
<1> SUFFICES ASSUME FreeIds # {} PROVE NewId \in FreeIds
  BY DEF FreeIds
<1>1. FreeIds \subseteq Nat
  BY RegistryAssumption DEF FreeIds, Ids
<1>2. \E i \in FreeIds : \A j \in FreeIds : i <= j
  BY <1>1, LeastNumber
<1> QED
  BY <1>2 DEF NewId

(* What filter_by(mac=...).first() finds. *)
LEMMA FirstHasTheMac ==
  ASSUME NEW m, NEW i \in FirstByMac(m)
  PROVE  i \in Ids \cup {NoId} /\ (i # NoId => device[i].mac = m)
  BY DEF FirstByMac

(* A MAC is a row's exactly if there is a row. *)
LEMMA RowsHaveMacs ==
  ASSUME TypeOK, NEW i \in Ids
  PROVE  Exists(i) <=> device[i].mac \in Macs
  BY RegistryAssumption DEF TypeOK, Row, NoRow, Exists

(* Ids are numbers from 1: none is NoId. *)
LEMMA IdsAreNotNoId == NoId \notin Ids
  BY DEF NoId, Ids
-----------------------------------------------------------------------------
(* What the listener loaded is still true when it writes. *)
UdpKnowsItsDevice ==
  /\ udp.at \in {"touch", "heartbeat"} =>
       /\ udp.uid \in Uids /\ agent[udp.uid] # NoAgent
       /\ udp.id = agent[udp.uid].device
  /\ udp.at = "register" =>
       /\ udp.uid \in Uids /\ agent[udp.uid] = NoAgent
       /\ udp.id # NoId => device[udp.id].mac = MacOf[udp.uid]
  /\ udp.at = "save" => udp.id \in Ids /\ device[udp.id].hasAgent

(* The health checker and the scanner mark rows that exist. *)
HealthKnowsItsAgents == \A m \in health.stale : agent[m] # NoAgent

ArpKnowsItsDevices ==
  /\ arp.at = "register" =>
       /\ arp.mac \in Macs
       /\ arp.id # NoId => Exists(arp.id)
  /\ \A i \in arp.stale : Exists(i)

Loads == UdpKnowsItsDevice /\ HealthKnowsItsAgents /\ ArpKnowsItsDevices

IInv ==
  TypeOK /\ AgentsOwnTheirDevice /\ AgentDevicesHaveAgents /\ MetricsAreOfAgents /\ Loads
-----------------------------------------------------------------------------
(* Every step keeps the types: the ids written are ids of rows. *)
LEMMA TypesStep == IInv /\ [Next]_vars => TypeOK'
<1> SUFFICES ASSUME IInv, [Next]_vars PROVE TypeOK'
  OBVIOUS
<1> DEFINE Device == [Ids -> Row \cup {NoRow}]
           Agent == [Uids -> AgentRow \cup {NoAgent}]
           Udp == [at : {"listen", "touch", "register", "save", "heartbeat", "dead"},
                   uid : Uids \cup {"none"}, id : Ids \cup {NoId},
                   seen : Row \cup {NoRow}, status : {"none", "active", "inactive"}]
           Health == [at : {"sleep", "mark"}, stale : SUBSET Uids]
           Arp == [at : {"sleep", "next", "register", "unseen"}, found : SUBSET Macs,
                   todo : SUBSET Macs, mac : Macs \cup {"none"},
                   id : Ids \cup {NoId}, seen : Row \cup {NoRow},
                   stale : SUBSET Ids]
           Types == /\ device \in Device /\ agent \in Agent
                    /\ metricsRow \subseteq Ids /\ udp \in Udp
                    /\ health \in Health /\ arp \in Arp
                    /\ failures \in 0 .. MaxFailures
<1>t. Types
  BY DEF IInv, TypeOK
<1> SUFFICES Types'
  BY DEF TypeOK
<1>f. Refused => failures' \in 0 .. MaxFailures
  BY <1>t, RegistryAssumption DEF Refused
<1>l. Listening \in Udp /\ Dead \in Udp
  BY DEF Listening, Dead
<1>c. \A m \in Uids : agent[m] # NoAgent => agent[m].device \in Ids
  BY <1>t DEF AgentRow
<1>1. ASSUME NEW m \in Uids, ReceiveMetrics(m) PROVE Types'
  <2>1. ASSUME NEW i \in FirstByMac(MacOf[m])
        PROVE i \in Ids \cup {NoId} /\ Loaded(i) \in Row \cup {NoRow}
    BY <1>t, FirstHasTheMac DEF Loaded
  <2>2. CASE agent[m] # NoAgent
    <3>1. udp' = [Listening EXCEPT !.at = "touch", !.uid = m, !.id = agent[m].device]
      BY <1>1, <2>2 DEF ReceiveMetrics
    <3>2. udp' \in Udp
      BY <1>l, <1>c, <2>2, <3>1
    <3> QED
      BY <1>1, <1>t, <3>2 DEF ReceiveMetrics, tables
  <2>3. CASE agent[m] = NoAgent
    <3>1. PICK i \in FirstByMac(MacOf[m]) :
            udp' = [Listening EXCEPT !.at = "register", !.uid = m, !.id = i,
                                     !.seen = Loaded(i)]
      BY <1>1, <2>3 DEF ReceiveMetrics
    <3>2. udp' \in Udp
      BY <1>l, <2>1, <3>1
    <3> QED
      BY <1>1, <1>t, <3>2 DEF ReceiveMetrics, tables
  <2> QED
    BY <2>2, <2>3
<1>2. ASSUME NEW m \in Uids, ReceiveHeartbeat(m) PROVE Types'
  <2>1. agent[m].status \in {"active", "inactive"}
    BY <1>2, <1>t DEF ReceiveHeartbeat, AgentRow
  <2>2. udp' \in Udp
    BY <1>2, <1>l, <1>c, <2>1 DEF ReceiveHeartbeat
  <2> QED
    BY <1>2, <1>t, <2>2 DEF ReceiveHeartbeat, tables
<1>3. CASE TouchAgent
  <2>1. agent' \in Agent
    BY <1>3, <1>t, RegistryAssumption
    DEF TouchAgent, IInv, Loads, UdpKnowsItsDevice, AgentRow
  <2> QED
    BY <1>3, <1>t, <2>1 DEF TouchAgent
<1>4. CASE RegisterAgent
  <2>1. udp.uid \in Uids /\ MacOf[udp.uid] \in Macs
    BY <1>4, RegistryAssumption DEF RegisterAgent, IInv, Loads, UdpKnowsItsDevice
  <2>2. PICK i \in Ids :
       /\ IF udp.id = NoId
          THEN device' = [device EXCEPT ![i] =
                    [mac |-> MacOf[udp.uid], hasAgent |-> TRUE, status |-> "active"]]
          ELSE /\ device[i].mac = MacOf[udp.uid]
               /\ device' = [device EXCEPT
                    ![i].hasAgent = TRUE,
                    ![i].status = Assign(@, udp.seen.status, "active")]
       /\ agent' = [agent EXCEPT ![udp.uid] =
                      [device |-> i, status |-> "active", age |-> 0]]
       /\ udp' = [udp EXCEPT !.at = "save", !.id = i]
    BY <1>4 DEF RegisterAgent, IInv, Loads, UdpKnowsItsDevice
  <2>3. agent' \in Agent
    <3>1. [device |-> i, status |-> "active", age |-> 0] \in AgentRow
      BY RegistryAssumption DEF AgentRow
    <3> QED
      BY <1>t, <2>2, <3>1
  <2>4. udp' \in Udp
    BY <1>t, <2>2
  <2>5. device' \in Device
    <3>1. CASE udp.id = NoId
      <4>1. [mac |-> MacOf[udp.uid], hasAgent |-> TRUE, status |-> "active"] \in Row
        BY <2>1 DEF Row, Statuses
      <4>2. device' = [device EXCEPT ![i] =
                    [mac |-> MacOf[udp.uid], hasAgent |-> TRUE, status |-> "active"]]
        BY <2>2, <3>1
      <4> QED
        BY <1>t, <4>1, <4>2
    <3>2. CASE udp.id # NoId
      <4>1. device[i] \in Row
        BY <1>t, <2>1, <2>2, <3>2, RegistryAssumption DEF NoRow
      <4>2. device' = [device EXCEPT ![i] = [mac |-> device[i].mac, hasAgent |-> TRUE,
                   status |-> Assign(device[i].status, udp.seen.status, "active")]]
        BY <1>t, <2>2, <3>2, <4>1 DEF Row
      <4> QED
        BY <1>t, <4>1, <4>2 DEF Row, Statuses, Assign
    <3> QED
      BY <3>1, <3>2
  <2> QED
    BY <1>4, <1>t, <2>3, <2>4, <2>5 DEF RegisterAgent
<1>5. CASE RegistrationFails
  BY <1>5, <1>t, <1>f, <1>l DEF RegistrationFails, tables
<1>6. CASE SaveMetrics
  BY <1>6, <1>t, <1>f, <1>l DEF SaveMetrics, IInv, Loads, UdpKnowsItsDevice
<1>7. CASE CommitHeartbeat
  <2>1. udp.uid \in Uids /\ agent[udp.uid] \in AgentRow /\ udp.id \in Ids
    BY <1>7, <1>t, <1>c DEF CommitHeartbeat, IInv, Loads, UdpKnowsItsDevice
  <2>2. device[udp.id] \in Row
    BY <1>7, <1>t, <2>1, RegistryAssumption
    DEF CommitHeartbeat, IInv, Loads, UdpKnowsItsDevice, AgentsOwnTheirDevice, NoRow
  <2>3. agent' \in Agent
    BY <1>7, <1>t, <2>1, RegistryAssumption DEF CommitHeartbeat, AgentRow, Assign
  <2>4. device' \in Device
    BY <1>7, <1>t, <2>1, <2>2 DEF CommitHeartbeat, Row, Statuses
  <2> QED
    BY <1>7, <1>t, <1>f, <1>l, <2>3, <2>4 DEF CommitHeartbeat
<1>8. CASE LoadStale
  BY <1>8, <1>t DEF LoadStale, tables
<1>9. CASE MarkInactive
  <2>1. agent' \in Agent
    BY <1>9, <1>t DEF MarkInactive, IInv, Loads, HealthKnowsItsAgents, AgentRow
  <2>2. \A i \in Ids : (\E m \in health.stale : agent[m].device = i)
                       => device[i] \in Row
    BY <1>t, RegistryAssumption
    DEF IInv, Loads, HealthKnowsItsAgents, AgentsOwnTheirDevice, NoRow
  <2>3. device' \in Device
    BY <1>9, <1>t, <2>2 DEF MarkInactive, Row, Statuses
  <2> QED
    BY <1>9, <1>t, <1>f, <2>1, <2>3 DEF MarkInactive, Resting
<1>10. CASE Scan
  BY <1>10, <1>t DEF Scan, Waiting, tables
<1>11. CASE RegisterDiscovered
  <2>1. arp.id # NoId => arp.id \in Ids /\ device[arp.id] \in Row
    BY <1>11, <1>t DEF RegisterDiscovered, IInv, Loads, ArpKnowsItsDevices, Exists
  <2>2. FreeIds # {} => NewId \in Ids
    BY NewIdIsFree
  <2>3. arp.mac \in Macs
    BY <1>11 DEF RegisterDiscovered, IInv, Loads, ArpKnowsItsDevices
  <2>4. [mac |-> arp.mac, hasAgent |-> FALSE, status |-> "active"] \in Row
    BY <2>3 DEF Row, Statuses
  <2>5. arp.id # NoId =>
          [device EXCEPT ![arp.id].status =
             IF arp.seen.hasAgent THEN @ ELSE Assign(@, arp.seen.status, "active")]
             \in Device
    BY <1>t, <2>1 DEF Row, Statuses, Assign
  <2>6. device' \in Device
    BY <1>11, <1>t, <2>2, <2>4, <2>5 DEF RegisterDiscovered
  <2>7. arp' = [arp EXCEPT !.at = "next", !.todo = arp.todo \ {arp.mac},
                           !.mac = "none", !.id = NoId, !.seen = NoRow]
    BY <1>11, <1>t DEF RegisterDiscovered
  <2>8. arp' \in Arp
    BY <1>t, <2>7
  <2> QED
    BY <1>11, <1>t, <1>f, <2>6, <2>8 DEF RegisterDiscovered
<1>12. CASE LoadUnseen
  BY <1>12, <1>t DEF LoadUnseen, tables
<1>13. CASE MarkUnseen
  <2>1. device' \in Device
    BY <1>13, <1>t DEF MarkUnseen, IInv, Loads, ArpKnowsItsDevices, Exists, Row, Statuses
  <2> QED
    BY <1>13, <1>t, <1>f, <2>1 DEF MarkUnseen, Waiting
<1>14. ASSUME NEW m \in Macs, LoadDiscovered(m) PROVE Types'
  <2>1. ASSUME NEW i \in FirstByMac(m)
        PROVE i \in Ids \cup {NoId} /\ Loaded(i) \in Row \cup {NoRow}
    BY <1>t, FirstHasTheMac DEF Loaded
  <2> QED
    BY <1>14, <1>t, <2>1 DEF LoadDiscovered, tables
<1>15. CASE Tick
  <2>1. agent' \in Agent
    BY <1>15, <1>t, RegistryAssumption DEF Tick, AgentRow
  <2> QED
    BY <1>15, <1>t, <2>1 DEF Tick
<1>16. CASE UNCHANGED vars
  BY <1>16, <1>t DEF vars
<1> HIDE DEF Types
<1> QED
  BY <1>1, <1>2, <1>3, <1>4, <1>5, <1>6, <1>7, <1>8, <1>9, <1>10, <1>11, <1>12,
     <1>13, <1>14, <1>15, <1>16 DEF Next, UdpStep, HealthStep, ArpStep
-----------------------------------------------------------------------------
(* An agent is registered exactly if its row names a device. *)
LEMMA AgentsHaveDevices ==
  ASSUME TypeOK, NEW m \in Uids
  PROVE  /\ agent[m] = NoAgent <=> agent[m].device = NoId
         /\ agent[m] # NoAgent => agent[m].device \in Ids
  BY IdsAreNotNoId DEF TypeOK, AgentRow, NoAgent

(* What a step other than a registration leaves alone: who is linked to whom. *)
LinksStay ==
  /\ \A i \in Ids : Exists(i) => /\ device'[i].mac = device[i].mac
                                 /\ device'[i].hasAgent = device[i].hasAgent
  /\ \A i \in Ids : ~Exists(i) => ~device'[i].hasAgent
  /\ \A m \in Uids : agent'[m].device = agent[m].device

(* Only a registration links an agent and a device: what the other threads *)
(* write, from rows loaded at any earlier time, are statuses and rows      *)
(* without an agent.                                                       *)
LEMMA OnlyRegistrationLinks ==
  ASSUME IInv, [Next]_vars, ~RegisterAgent
  PROVE  LinksStay
<1>t. /\ device \in [Ids -> Row \cup {NoRow}]
      /\ agent \in [Uids -> AgentRow \cup {NoAgent}]
  BY DEF IInv, TypeOK
<1>n. \A i \in Ids : ~Exists(i) => ~device[i].hasAgent
  BY DEF Exists, NoRow
<1>e. UNCHANGED <<device, agent>> => LinksStay
  BY <1>n DEF LinksStay
<1>1. ASSUME NEW m \in Uids, ReceiveMetrics(m) PROVE LinksStay
  BY <1>1, <1>e DEF ReceiveMetrics, tables
<1>2. ASSUME NEW m \in Uids, ReceiveHeartbeat(m) PROVE LinksStay
  BY <1>2, <1>e DEF ReceiveHeartbeat, tables
<1>3. CASE TouchAgent
  BY <1>3, <1>t, <1>n DEF TouchAgent, LinksStay, AgentRow, NoAgent
<1>5. CASE RegistrationFails
  BY <1>5, <1>e DEF RegistrationFails, tables
<1>6. CASE SaveMetrics
  BY <1>6, <1>e DEF SaveMetrics
<1>7. CASE CommitHeartbeat
  <2>1. udp.id \in Ids /\ Exists(udp.id)
    BY <1>7, AgentsHaveDevices
    DEF CommitHeartbeat, IInv, Loads, UdpKnowsItsDevice, AgentsOwnTheirDevice, Exists, NoRow
  <2>2. \A m \in Uids : agent'[m].device = agent[m].device
    BY <1>7, <1>t DEF CommitHeartbeat, AgentRow, NoAgent
  <2> QED
    BY <1>7, <1>t, <1>n, <2>1, <2>2 DEF CommitHeartbeat, LinksStay, Row, NoRow
<1>8. CASE LoadStale
  BY <1>8, <1>e DEF LoadStale, tables
<1>9. CASE MarkInactive
  <2>1. \A m \in Uids : agent'[m].device = agent[m].device
    BY <1>9, <1>t DEF MarkInactive, AgentRow, NoAgent
  <2>2. \A i \in Ids : /\ device'[i].mac = device[i].mac
                       /\ device'[i].hasAgent = device[i].hasAgent
    BY <1>9, <1>t DEF MarkInactive, Row, NoRow
  <2> QED
    BY <1>n, <2>1, <2>2 DEF LinksStay
<1>10. CASE Scan
  BY <1>10, <1>e DEF Scan, tables
<1>11. CASE RegisterDiscovered
  <2>1. arp.id # NoId => arp.id \in Ids
    BY <1>11 DEF RegisterDiscovered, IInv, TypeOK
  <2>2. FreeIds # {} => NewId \in Ids /\ ~Exists(NewId)
    BY NewIdIsFree
  <2>3. \A i \in Ids : Exists(i) => /\ device'[i].mac = device[i].mac
                                    /\ device'[i].hasAgent = device[i].hasAgent
    BY <1>11, <1>t, <2>1, <2>2 DEF RegisterDiscovered, Row, NoRow
  <2>4. arp.id # NoId => Exists(arp.id)
    BY <1>11 DEF RegisterDiscovered, IInv, Loads, ArpKnowsItsDevices
  <2>5. \A i \in Ids : ~Exists(i) => ~device'[i].hasAgent
    BY <1>11, <1>t, <1>n, <2>1, <2>2, <2>4 DEF RegisterDiscovered
  <2> QED
    BY <1>11, <2>3, <2>5 DEF RegisterDiscovered, LinksStay
<1>12. CASE LoadUnseen
  BY <1>12, <1>e DEF LoadUnseen, tables
<1>13. CASE MarkUnseen
  <2>1. \A i \in Ids : /\ device'[i].mac = device[i].mac
                       /\ device'[i].hasAgent = device[i].hasAgent
    BY <1>13, <1>t DEF MarkUnseen, Row, NoRow
  <2> QED
    BY <1>13, <1>n, <2>1 DEF MarkUnseen, LinksStay
<1>14. ASSUME NEW m \in Macs, LoadDiscovered(m) PROVE LinksStay
  BY <1>14, <1>e DEF LoadDiscovered, tables
<1>15. CASE Tick
  BY <1>15, <1>t, <1>n DEF Tick, LinksStay, AgentRow, NoAgent
<1>16. CASE UNCHANGED vars
  BY <1>16, <1>e DEF vars
<1> QED
  BY <1>1, <1>2, <1>3, <1>5, <1>6, <1>7, <1>8, <1>9, <1>10, <1>11, <1>12,
     <1>13, <1>14, <1>15, <1>16 DEF Next, UdpStep, HealthStep, ArpStep

(* A registration links the agent and a device with its MAC. *)
LEMMA RegistrationLinks ==
  ASSUME IInv, RegisterAgent
  PROVE  \E i \in Ids :
           /\ Exists(i) => device[i].mac = MacOf[udp.uid]
           /\ device'[i].hasAgent /\ device'[i].mac = MacOf[udp.uid]
           /\ \A j \in Ids \ {i} : device'[j] = device[j]
           /\ agent[udp.uid] = NoAgent /\ agent'[udp.uid].device = i
           /\ \A m \in Uids \ {udp.uid} : agent'[m] = agent[m]
           /\ udp'.at = "save" /\ udp'.id = i
           /\ udp.uid \in Uids
<1>t. /\ device \in [Ids -> Row \cup {NoRow}]
      /\ agent \in [Uids -> AgentRow \cup {NoAgent}]
      /\ udp = [at |-> udp.at, uid |-> udp.uid, id |-> udp.id, seen |-> udp.seen,
                status |-> udp.status]
      /\ udp.id \in Ids \cup {NoId}
  BY DEF IInv, TypeOK
<1>1. udp.uid \in Uids /\ agent[udp.uid] = NoAgent
  BY DEF RegisterAgent, IInv, Loads, UdpKnowsItsDevice
<1>2. PICK i \in Ids :
       /\ IF udp.id = NoId
          THEN /\ FreeIds # {} /\ i = NewId
               /\ device' = [device EXCEPT ![i] =
                    [mac |-> MacOf[udp.uid], hasAgent |-> TRUE, status |-> "active"]]
          ELSE /\ i = udp.id
               /\ device' = [device EXCEPT
                    ![i].hasAgent = TRUE,
                    ![i].status = Assign(@, udp.seen.status, "active")]
       /\ agent' = [agent EXCEPT ![udp.uid] =
                      [device |-> i, status |-> "active", age |-> 0]]
       /\ udp' = [udp EXCEPT !.at = "save", !.id = i]
  BY DEF RegisterAgent
<1>3. CASE udp.id = NoId
  <2>1. ~Exists(i)
    BY <1>2, <1>3, NewIdIsFree
  <2> QED
    BY <1>t, <1>1, <1>2, <1>3, <2>1
<1>4. CASE udp.id # NoId
  <2>1. i = udp.id /\ device[i].mac = MacOf[udp.uid]
    BY <1>2, <1>4 DEF RegisterAgent, IInv, Loads, UdpKnowsItsDevice
  <2>3. device[i] \in Row
    BY <1>t, <1>1, <2>1, RegistryAssumption DEF NoRow
  <2>4. device'[i].hasAgent /\ device'[i].mac = MacOf[udp.uid]
    BY <1>t, <1>2, <1>4, <2>1, <2>3 DEF Row
  <2> QED
    BY <1>t, <1>1, <1>2, <1>4, <2>1, <2>4
<1> QED
  BY <1>3, <1>4
-----------------------------------------------------------------------------
(* What was loaded stays true of the rows until it is written. *)
LEMMA LoadsStep == IInv /\ [Next]_vars => Loads'
<1> SUFFICES ASSUME IInv, [Next]_vars PROVE Loads'
  OBVIOUS
<1>t. IInv /\ TypeOK /\ TypeOK'
  BY TypesStep DEF IInv
<1>p. \A m \in Uids :
       /\ agent[m] = NoAgent => agent[m].device = NoId
       /\ agent'[m].device = NoId => agent'[m] = NoAgent
       /\ agent'[m] # NoAgent => agent'[m].device \in Ids
  BY <1>t, IdsAreNotNoId DEF TypeOK, AgentRow, NoAgent
<1>1. ASSUME NEW i \in Ids, Exists(i) PROVE Exists(i)'
  <2>1. CASE RegisterAgent
    BY <1>1, <2>1, RegistrationLinks DEF Exists, NoRow
  <2>2. CASE ~RegisterAgent
    <3>1. device'[i].mac = device[i].mac
      BY <1>1, <2>2, OnlyRegistrationLinks DEF LinksStay
    <3>2. device[i].mac \in Macs
      BY <1>t, <1>1, RowsHaveMacs
    <3> QED
      BY <3>1, <3>2, RegistryAssumption DEF Exists, NoRow
  <2> QED
    BY <2>1, <2>2
<1>2. ASSUME NEW m \in Uids, agent[m] # NoAgent
      PROVE  agent'[m] # NoAgent /\ agent'[m].device = agent[m].device
  <2>1. CASE RegisterAgent
    BY <1>2, <2>1, RegistrationLinks
  <2>2. CASE ~RegisterAgent
    <3>1. agent'[m].device = agent[m].device /\ agent[m].device # NoId
      BY <1>t, <1>2, <2>2, OnlyRegistrationLinks, AgentsHaveDevices DEF LinksStay
    <3> QED
      BY <3>1 DEF NoAgent
  <2> QED
    BY <2>1, <2>2
<1>3. HealthKnowsItsAgents'
  <2>1. ASSUME NEW m \in health'.stale PROVE m \in Uids /\ agent[m] # NoAgent
    <3>1. health' = health \/ health' = Resting \/ LoadStale
      BY DEF Next, UdpStep, HealthStep, ArpStep, vars, ReceiveMetrics, ReceiveHeartbeat,
         TouchAgent, RegisterAgent, RegistrationFails, SaveMetrics, CommitHeartbeat,
         MarkInactive, Scan, RegisterDiscovered, LoadUnseen, MarkUnseen,
         LoadDiscovered, Tick
    <3>2. CASE health' = health
      BY <2>1, <3>2, <1>t DEF IInv, Loads, HealthKnowsItsAgents, TypeOK
    <3>3. CASE health' = Resting
      BY <2>1, <3>3 DEF Resting
    <3>4. CASE LoadStale
      BY <2>1, <3>4 DEF LoadStale, NoAgent
    <3> QED
      BY <3>1, <3>2, <3>3, <3>4
  <2> QED
    BY <2>1, <1>2 DEF HealthKnowsItsAgents
<1>4. ArpKnowsItsDevices'
  <2>1. \/ arp' = arp \/ Scan \/ RegisterDiscovered \/ LoadUnseen \/ MarkUnseen
        \/ \E m \in Macs : LoadDiscovered(m)
    BY DEF Next, UdpStep, HealthStep, ArpStep, vars, ReceiveMetrics, ReceiveHeartbeat,
       TouchAgent, RegisterAgent, RegistrationFails, SaveMetrics, CommitHeartbeat,
       LoadStale, MarkInactive, Tick
  <2>2. CASE arp' = arp
    BY <2>2, <1>1, <1>t DEF IInv, Loads, ArpKnowsItsDevices, TypeOK
  <2>3. CASE Scan \/ MarkUnseen
    <3>1. arp'.at # "register" /\ arp'.stale = {}
      <4>1. Waiting \in [at : {"sleep"}, found : SUBSET Macs, todo : SUBSET Macs,
                         mac : {"none"}, id : {NoId}, seen : {NoRow}, stale : SUBSET Ids]
        BY DEF Waiting
      <4>2. Waiting.at = "sleep" /\ Waiting.stale = {}
        BY DEF Waiting
      <4> QED
        BY <2>3, <4>1, <4>2 DEF Scan, MarkUnseen
    <3> QED
      BY <3>1 DEF ArpKnowsItsDevices
  <2>4. CASE RegisterDiscovered
    <3>1. arp'.at = "next" /\ arp'.stale = arp.stale
      BY <2>4, <1>t DEF RegisterDiscovered, TypeOK
    <3> QED
      BY <3>1, <1>1, <1>t DEF IInv, Loads, ArpKnowsItsDevices, TypeOK
  <2>5. CASE LoadUnseen
    <3>1. /\ arp'.at = "unseen"
          /\ \A i \in arp'.stale : i \in Ids /\ Exists(i)
      BY <2>5, <1>t DEF LoadUnseen, TypeOK
    <3> QED
      BY <3>1, <1>1 DEF ArpKnowsItsDevices
  <2>6. ASSUME NEW m \in Macs, LoadDiscovered(m) PROVE ArpKnowsItsDevices'
    <3>1. PICK i \in FirstByMac(m) :
            arp' = [arp EXCEPT !.at = "register", !.mac = m, !.id = i, !.seen = Loaded(i)]
      BY <2>6 DEF LoadDiscovered
    <3>2. arp'.mac = m /\ arp'.id = i /\ arp'.stale = arp.stale
      BY <3>1, <1>t DEF TypeOK
    <3>3. i # NoId => i \in Ids /\ Exists(i)
      BY FirstHasTheMac, RowsHaveMacs, <1>t
    <3> QED
      BY <3>2, <3>3, <1>1, <1>t DEF IInv, Loads, ArpKnowsItsDevices, TypeOK
  <2> QED
    BY <2>1, <2>2, <2>3, <2>4, <2>5, <2>6
<1>5. UdpKnowsItsDevice'
  <2>1. ASSUME NEW m \in Uids, ReceiveMetrics(m) PROVE UdpKnowsItsDevice'
    <3>1. UNCHANGED <<device, agent>>
      BY <2>1 DEF ReceiveMetrics, tables
    <3>2. CASE agent[m] # NoAgent
      BY <2>1, <3>1, <3>2 DEF ReceiveMetrics, UdpKnowsItsDevice, Listening
    <3>3. CASE agent[m] = NoAgent
      <4>1. PICK i \in FirstByMac(MacOf[m]) :
              udp' = [Listening EXCEPT !.at = "register", !.uid = m, !.id = i,
                                       !.seen = Loaded(i)]
        BY <2>1, <3>3 DEF ReceiveMetrics
      <4> QED
        BY <4>1, <3>1, <3>3, FirstHasTheMac DEF UdpKnowsItsDevice, Listening
    <3> QED
      BY <3>2, <3>3
  <2>2. ASSUME NEW m \in Uids, ReceiveHeartbeat(m) PROVE UdpKnowsItsDevice'
    BY <2>2 DEF ReceiveHeartbeat, tables, UdpKnowsItsDevice, Listening
  <2>3. CASE TouchAgent
    <3>1. /\ udp'.at = "save" /\ udp'.id = agent[udp.uid].device
          /\ agent[udp.uid] # NoAgent /\ udp.uid \in Uids /\ device' = device
      BY <2>3, <1>t DEF TouchAgent, TypeOK, IInv, Loads, UdpKnowsItsDevice
    <3> QED
      BY <3>1, <1>t, AgentsHaveDevices DEF IInv, AgentsOwnTheirDevice, UdpKnowsItsDevice
  <2>4. CASE RegisterAgent
    BY <2>4, RegistrationLinks DEF UdpKnowsItsDevice
  <2>5. CASE RegistrationFails \/ SaveMetrics \/ CommitHeartbeat
    BY <2>5 DEF RegistrationFails, SaveMetrics, CommitHeartbeat, UdpKnowsItsDevice,
       Listening, Dead
  <2>6. ASSUME udp' = udp, ~RegisterAgent PROVE UdpKnowsItsDevice'
    <3>l. LinksStay
      BY <2>6, OnlyRegistrationLinks
    <3>1. \A m \in Uids : agent[m] = NoAgent => agent'[m] = NoAgent
      BY <3>l, <1>p DEF LinksStay
    <3>2. udp.at = "register" /\ udp.id # NoId
            => udp.id \in Ids /\ device'[udp.id].mac = MacOf[udp.uid]
      <4> SUFFICES ASSUME udp.at = "register", udp.id # NoId
                   PROVE  udp.id \in Ids /\ device'[udp.id].mac = MacOf[udp.uid]
        OBVIOUS
      <4>1. udp.id \in Ids /\ device[udp.id].mac = MacOf[udp.uid] /\ udp.uid \in Uids
        BY <1>t DEF IInv, Loads, UdpKnowsItsDevice, TypeOK
      <4>2. Exists(udp.id)
        BY <4>1, RegistryAssumption DEF Exists, NoRow
      <4> QED
        BY <4>1, <4>2, <3>l DEF LinksStay
    <3>3. udp.at = "save" => udp.id \in Ids /\ device'[udp.id].hasAgent
      BY <3>l, <1>t DEF LinksStay, IInv, Loads, UdpKnowsItsDevice, Exists, NoRow
    <3>4. udp.at \in {"touch", "heartbeat"} =>
            /\ udp.uid \in Uids /\ agent'[udp.uid] # NoAgent
            /\ udp.id = agent'[udp.uid].device
      BY <1>2, <1>t DEF IInv, Loads, UdpKnowsItsDevice
    <3>5. udp.at = "register" => udp.uid \in Uids /\ agent'[udp.uid] = NoAgent
      BY <3>1, <1>t DEF IInv, Loads, UdpKnowsItsDevice
    <3> QED
      BY <2>6, <3>2, <3>3, <3>4, <3>5 DEF UdpKnowsItsDevice
  <2>7. \/ udp' = udp \/ TouchAgent \/ RegisterAgent \/ RegistrationFails \/ SaveMetrics
        \/ CommitHeartbeat
        \/ \E m \in Uids : ReceiveMetrics(m) \/ ReceiveHeartbeat(m)
    BY DEF Next, UdpStep, HealthStep, ArpStep, vars, LoadStale, MarkInactive, Scan,
       RegisterDiscovered, LoadUnseen, MarkUnseen, LoadDiscovered, Tick
  <2> QED
    BY <2>1, <2>2, <2>3, <2>4, <2>5, <2>6, <2>7
<1> QED
  BY <1>3, <1>4, <1>5 DEF Loads
-----------------------------------------------------------------------------
(* The tables stay linked both ways. *)
LEMMA LinksStep ==
  IInv /\ [Next]_vars => (AgentsOwnTheirDevice /\ AgentDevicesHaveAgents /\ MetricsAreOfAgents)'
<1> SUFFICES ASSUME IInv, [Next]_vars
             PROVE  (AgentsOwnTheirDevice /\ AgentDevicesHaveAgents /\ MetricsAreOfAgents)'
  OBVIOUS
<1>t. TypeOK /\ TypeOK'
  BY TypesStep DEF IInv
<1>p. \A m \in Uids :
       /\ agent[m] = NoAgent => agent[m].device = NoId
       /\ agent'[m].device = NoId => agent'[m] = NoAgent
       /\ agent'[m] # NoAgent => agent'[m].device \in Ids
  BY <1>t, IdsAreNotNoId DEF TypeOK, AgentRow, NoAgent
<1>i. AgentsOwnTheirDevice /\ AgentDevicesHaveAgents /\ MetricsAreOfAgents /\ UdpKnowsItsDevice
  BY DEF IInv, Loads
<1>m. /\ metricsRow \subseteq Ids
      /\ metricsRow' = metricsRow \/ (SaveMetrics /\ metricsRow' = metricsRow \cup {udp.id})
  BY <1>t DEF TypeOK, Next, UdpStep, HealthStep, ArpStep, vars, tables, ReceiveMetrics,
     ReceiveHeartbeat, TouchAgent, RegisterAgent, RegistrationFails, SaveMetrics,
     CommitHeartbeat, LoadStale, MarkInactive, Scan, RegisterDiscovered, LoadUnseen,
     MarkUnseen, LoadDiscovered, Tick
<1>1. CASE RegisterAgent
  <2>1. PICK i \in Ids :
           /\ Exists(i) => device[i].mac = MacOf[udp.uid]
           /\ device'[i].hasAgent /\ device'[i].mac = MacOf[udp.uid]
           /\ \A j \in Ids \ {i} : device'[j] = device[j]
           /\ agent[udp.uid] = NoAgent /\ agent'[udp.uid].device = i
           /\ \A m \in Uids \ {udp.uid} : agent'[m] = agent[m]
           /\ udp'.at = "save" /\ udp'.id = i
           /\ udp.uid \in Uids
    BY <1>1, RegistrationLinks
  <2>2. ASSUME NEW m \in Uids, agent'[m] # NoAgent
        PROVE  /\ device'[agent'[m].device].mac = MacOf[m]
               /\ device'[agent'[m].device].hasAgent
    <3>1. CASE m = udp.uid
      BY <3>1, <2>1
    <3>2. CASE m # udp.uid
      <4>1. agent'[m] = agent[m] /\ agent[m].device \in Ids
        BY <2>1, <2>2, <3>2, <1>t, AgentsHaveDevices
      <4>2. device[agent[m].device].mac = MacOf[m] /\ device[agent[m].device].hasAgent
        BY <2>2, <4>1, <1>i DEF AgentsOwnTheirDevice
      <4>3. Exists(agent[m].device)
        BY <4>2 DEF Exists, NoRow
      <4> QED
        BY <2>1, <4>1, <4>2, <4>3
    <3> QED
      BY <3>1, <3>2
  <2>3. ASSUME NEW j \in Ids, device'[j].hasAgent
        PROVE  \E u \in Uids : agent'[u].device = j
    <3>1. CASE j = i
      BY <3>1, <2>1
    <3>2. CASE j # i
      <4>1. device'[j] = device[j] /\ device[j].hasAgent
        BY <2>1, <2>3, <3>2
      <4>2. PICK u \in Uids : agent[u].device = j
        BY <4>1, <1>i DEF AgentDevicesHaveAgents
      <4>3. u # udp.uid
        BY <4>2, <2>1, IdsAreNotNoId DEF NoAgent
      <4> QED
        BY <2>1, <4>1, <4>2, <4>3
    <3> QED
      BY <3>1, <3>2
  <2>4. metricsRow' = metricsRow
    BY <1>1 DEF RegisterAgent
  <2>5. \A j \in metricsRow' : device'[j].hasAgent
    BY <2>1, <2>4, <1>i, <1>m DEF MetricsAreOfAgents
  <2> QED
    BY <2>2, <2>3, <2>5 DEF AgentsOwnTheirDevice, AgentDevicesHaveAgents, MetricsAreOfAgents
<1>2. CASE ~RegisterAgent
  <2>l. LinksStay
    BY <1>2, OnlyRegistrationLinks
  <2>h. \A i \in Ids : device[i].hasAgent => Exists(i)
    BY DEF Exists, NoRow
  <2>1. ASSUME NEW m \in Uids, agent'[m] # NoAgent
        PROVE  /\ device'[agent'[m].device].mac = MacOf[m]
               /\ device'[agent'[m].device].hasAgent
    <3>1. agent'[m].device = agent[m].device /\ agent'[m].device \in Ids
      BY <2>1, <2>l, <1>p DEF LinksStay
    <3>2. agent[m] # NoAgent
      BY <3>1, IdsAreNotNoId DEF NoAgent
    <3>3. device[agent[m].device].mac = MacOf[m] /\ device[agent[m].device].hasAgent
      BY <3>2, <1>i DEF AgentsOwnTheirDevice
    <3> QED
      BY <2>l, <2>h, <3>1, <3>3 DEF LinksStay
  <2>2. ASSUME NEW j \in Ids, device'[j].hasAgent
        PROVE  \E u \in Uids : agent'[u].device = j
    <3>1. Exists(j) /\ device[j].hasAgent
      BY <2>l, <2>2 DEF LinksStay
    <3> QED
      BY <3>1, <2>l, <1>i DEF AgentDevicesHaveAgents, LinksStay
  <2>3. \A j \in metricsRow' : device[j].hasAgent /\ j \in Ids
    BY <1>m, <1>i DEF MetricsAreOfAgents, SaveMetrics, UdpKnowsItsDevice
  <2>4. \A j \in metricsRow' : device'[j].hasAgent
    BY <2>3, <2>h, <2>l DEF LinksStay
  <2> QED
    BY <2>1, <2>2, <2>4 DEF AgentsOwnTheirDevice, AgentDevicesHaveAgents, MetricsAreOfAgents
<1> QED
  BY <1>1, <1>2

LEMMA Start == Init => IInv
<1> SUFFICES ASSUME Init PROVE IInv
  OBVIOUS
<1>1. TypeOK
  BY RegistryAssumption DEF Init, TypeOK, Listening, Resting, Waiting, NoRow
<1> QED
  BY <1>1 DEF Init, IInv, AgentsOwnTheirDevice, AgentDevicesHaveAgents, MetricsAreOfAgents,
     Loads, UdpKnowsItsDevice, HealthKnowsItsAgents, ArpKnowsItsDevices,
     Listening, Resting, Waiting, NoRow

(* The tables and what is loaded from them agree in every state. *)
LEMMA RegistryInvariant == Spec => []IInv
<1>1. IInv /\ [Next]_vars => IInv'
  BY TypesStep, LinksStep, LoadsStep DEF IInv
<1> QED
  BY <1>1, Start, PTL DEF Spec
-----------------------------------------------------------------------------
(* Rows, ids and what the threads have loaded keep their types: an id that *)
(* is written is the id of a row.                                          *)
THEOREM RegistryTypes == Spec => []TypeOK
<1>1. IInv => TypeOK
  BY DEF IInv
<1> QED
  BY <1>1, RegistryInvariant, PTL

(* get_or_create_agent and the scanner's upserts, in any interleaving:     *)
(* every agent keeps a device that has its MAC and is marked as its.       *)
THEOREM AgentsKeepTheirDevice == Spec => []AgentsOwnTheirDevice
<1>1. IInv => AgentsOwnTheirDevice
  BY DEF IInv
<1> QED
  BY <1>1, RegistryInvariant, PTL

(* However many rows a MAC has and however many agents report it, a device *)
(* marked as having an agent is the device of one: no refused transaction  *)
(* and no stale copy leaves the mark without its agent.                    *)
THEOREM AgentDevicesKeepAgents == Spec => []AgentDevicesHaveAgents
<1>1. IInv => AgentDevicesHaveAgents
  BY DEF IInv
<1> QED
  BY <1>1, RegistryInvariant, PTL

(* save_device_metrics writes the row of a device that still has its agent.*)
THEOREM MetricsBelongToAgents == Spec => []MetricsAreOfAgents
<1>1. IInv => MetricsAreOfAgents
  BY DEF IInv
<1> QED
  BY <1>1, RegistryInvariant, PTL
=============================================================================
