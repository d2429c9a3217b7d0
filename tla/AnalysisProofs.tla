----------------------------- MODULE AnalysisProofs -----------------------------
(***************************************************************************)
(* Analysis for any devices and any numbers of files, measurements and     *)
(* failures: the types, that snapshots keep their parents, that the probe  *)
(* and the threads keep each other's columns, and what the tables that are *)
(* replaced hold.                                                          *)
(***************************************************************************)
EXTENDS Analysis, FiniteSetTheorems, TLAPS

(* A transaction commits or is refused: the count of refusals keeps its type. *)
LEMMA FailuresCount ==
  ASSUME failures \in 0 .. MaxFailures, Commits \/ Fails
  PROVE  failures' \in 0 .. MaxFailures
  BY AnalysisAssumption DEF Commits, Fails

(* Going to a place moves one thread. *)
LEMMA GotoMoves ==
  ASSUME pc \in [Files -> Places], NEW f \in Files, NEW place \in Places,
         Goto(f, place)
  PROVE  /\ pc' \in [Files -> Places] /\ pc'[f] = place
         /\ \A g \in Files : g # f => pc'[g] = pc[g]
  BY DEF Goto

(* The place after a table is another one, and none of a replacement's. *)
LEMMA AfterLeaves ==
  \A t \in Tables : After[t] \in Places /\ After[t] \notin Tables /\ After[t] # "endpoints"
  BY DEF After, Tables, Places
-----------------------------------------------------------------------------
(* A thread has a replacing transaction open only while it is at a table. *)
ReplacesATable == \A f \in Files : stage[f] # "idle" => pc[f] \in Tables

Replacing(f, t) == pc[f] = t /\ stage[f] # "idle"

(* Where no two threads have replaced a table at once, the one replacing   *)
(* it has seen all of its rows, and these are of one file.                 *)
OneReplacesAll ==
  \A t \in Tables \ overlapped :
    /\ \A f, g \in Files : Replacing(f, t) /\ Replacing(g, t) => f = g
    /\ \A f \in Files : Replacing(f, t) => target[f] = table[t]
    /\ \A a, b \in table[t] : a = b

(* A file that is not completed has no thread yet. *)
NoThreadYet == \A f \in Files : f > completed => pc[f] = "none"

(* A thread that saves endpoints has saved its snapshot. *)
EndpointsAfterSnapshot == \A f \in Files : pc[f] = "endpoints" => f \in snapshots

IInv ==
  /\ TypeOK /\ NoThreadYet /\ ReplacesATable /\ OneReplacesAll
  /\ EndpointsAfterSnapshot /\ SnapshotsHaveParents /\ MeasurementsAreKept
-----------------------------------------------------------------------------
(* Every step keeps the types. *)
LEMMA TypesStep == TypeOK /\ ReplacesATable /\ [Next]_vars => TypeOK'
<1> SUFFICES ASSUME TypeOK, ReplacesATable, [Next]_vars PROVE TypeOK'
  OBVIOUS
<1> USE AnalysisAssumption DEF TypeOK
<1>p. "none" \in Places /\ "zeek" \in Places /\ "devices" \in Places /\ "network" \in Places
      /\ "snapshot" \in Places /\ "endpoints" \in Places /\ "done" \in Places
      /\ "talkers" \in Places /\ "recent" \in Places
  BY DEF Places, Tables
<1>f. Commits \/ Fails => failures' \in 0 .. MaxFailures
  BY FailuresCount
<1>n. network \in [exists : BOOLEAN, isp : 0 .. MaxProbes, traffic : 0 .. MaxFiles]
  OBVIOUS
<1>1. CASE Complete
  <2>1. completed + 1 \in Files
    BY <1>1 DEF Complete, Files
  <2>2. pc' \in [Files -> Places] /\ completed' \in 0 .. MaxFiles
    BY <1>1, <1>p, <2>1, GotoMoves DEF Complete, Files
  <2> QED
    BY <1>1, <2>2 DEF Complete, history, isp
<1>2. ASSUME NEW f \in Files, Step(f) PROVE TypeOK'
  <2>1. CASE Zeek(f)
    <3>1. pc' \in [Files -> Places]
      BY <1>p, <2>1, GotoMoves DEF Zeek
    <3>2. todo' \in [Files -> SUBSET Devices] /\ rows' \in [Files -> SUBSET Tables]
      BY <2>1 DEF Zeek
    <3> QED
      BY <2>1, <3>1, <3>2 DEF Zeek, history, isp
  <2>2. CASE LoadNetwork(f)
    <3>1. pc' \in [Files -> Places]
      BY <1>p, <2>2, GotoMoves DEF LoadNetwork
    <3>2. loaded' \in [Files -> BOOLEAN]
      BY <2>2 DEF LoadNetwork
    <3> QED
      BY <2>2, <3>1, <3>2 DEF LoadNetwork, history, isp
  <2>3. CASE SaveNetwork(f)
    <3>1. pc' \in [Files -> Places]
      BY <1>p, <2>3, GotoMoves DEF SaveNetwork
    <3>2. loaded' \in [Files -> BOOLEAN] /\ failures' \in 0 .. MaxFailures
      BY <1>f, <2>3 DEF SaveNetwork
    <3>3. network' \in [exists : BOOLEAN, isp : 0 .. MaxProbes, traffic : 0 .. MaxFiles]
      <4>1. network' \in {network, [network EXCEPT !.exists = TRUE, !.traffic = f]}
        BY <2>3 DEF SaveNetwork
      <4> QED
        <5>1. f \in 0 .. MaxFiles
          BY DEF Files
        <5> QED
          BY <1>n, <4>1, <5>1
    <3> QED
      BY <2>3, <3>1, <3>2, <3>3 DEF SaveNetwork, history, isp
  <2>4. CASE BeginDelete(f)
    <3>1. overlapped' \subseteq Tables
      BY <2>4 DEF BeginDelete
    <3>2. target' \in [Files -> SUBSET Files]
      BY <2>4 DEF BeginDelete
    <3>3. stage' \in [Files -> {"idle", "deleting", "deleted"}]
      BY <2>4 DEF BeginDelete
    <3> QED
      BY <2>4, <3>1, <3>2, <3>3 DEF BeginDelete, history, isp
  <2>5. CASE Delete(f)
    <3>1. stage' \in [Files -> {"idle", "deleting", "deleted"}]
      BY <2>5 DEF Delete
    <3> QED
      BY <2>5, <3>1 DEF Delete, history, isp
  <2>6. CASE Replace(f)
    <3>1. pc[f] \in Tables
      BY <2>6 DEF Replace, ReplacesATable
    <3>2. pc' \in [Files -> Places]
      BY <2>6, <3>1, AfterLeaves, GotoMoves DEF Replace
    <3>3. stage' \in [Files -> {"idle", "deleting", "deleted"}]
          /\ target' \in [Files -> SUBSET Files] /\ rows' \in [Files -> SUBSET Tables]
      BY <2>6 DEF Replace
    <3>4. table' \in [Tables -> SUBSET Files]
      BY <2>6, <3>1 DEF Replace, Own
    <3> QED
      BY <1>f, <2>6, <3>2, <3>3, <3>4 DEF Replace, history, isp
  <2>7. CASE SaveSnapshot(f)
    <3>1. pc' \in [Files -> Places]
      BY <1>p, <2>7, GotoMoves DEF SaveSnapshot
    <3>2. todo' \in [Files -> SUBSET Devices] /\ snapshots' \subseteq Files
          /\ failures' \in 0 .. MaxFailures
      BY <1>f, <2>7 DEF SaveSnapshot
    <3> QED
      BY <2>7, <3>1, <3>2 DEF SaveSnapshot, isp
  <2>8. CASE SaveRanking(f)
    <3>1. pc' \in [Files -> Places]
      BY <1>p, <2>8, GotoMoves DEF SaveRanking
    <3> QED
      BY <1>f, <2>8, <3>1 DEF SaveRanking, isp
  <2>9. ASSUME NEW d \in Devices, SaveTraffic(f, d) PROVE TypeOK'
    <3>1. todo' \in [Files -> SUBSET Devices]
      BY <2>9 DEF SaveTraffic
    <3>2. traffic' \in [Devices -> 0 .. MaxFiles] /\ failures' \in 0 .. MaxFailures
      BY <1>f, <2>9 DEF SaveTraffic, Files
    <3> QED
      BY <2>9, <3>1, <3>2 DEF SaveTraffic, history, isp
  <2>10. ASSUME NEW d \in Devices, SaveEndpoint(f, d) PROVE TypeOK'
    <3>1. todo' \in [Files -> SUBSET Devices]
      BY <2>10 DEF SaveEndpoint
    <3>2. pc' \in [Files -> Places]
      BY <1>p, <2>10, GotoMoves DEF SaveEndpoint
    <3>3. endpoints' \subseteq Files \X Devices /\ failures' \in 0 .. MaxFailures
      BY <1>f, <2>10 DEF SaveEndpoint, KeepEndpoint
    <3> QED
      BY <2>10, <3>1, <3>2, <3>3 DEF SaveEndpoint, isp
  <2> QED
    BY <1>2, <2>1, <2>2, <2>3, <2>4, <2>5, <2>6, <2>7, <2>8, <2>9, <2>10 DEF Step
<1>3. CASE Measure
  BY <1>3 DEF Measure, thread, history
<1>4. CASE SaveMeasurement
  BY <1>f, <1>4 DEF SaveMeasurement, thread, history
<1>5. CASE Restart
  <2>1. pc' \in [Files -> Places]
    BY <1>5, <1>p DEF Restart
  <2>2. probe' \in [at : {"sleep", "upsert"}, loaded : BOOLEAN, n : 0 .. MaxProbes]
    BY <1>5 DEF Restart
  <2> QED
    BY <1>5, <2>1, <2>2 DEF Restart, history
<1>6. CASE UNCHANGED vars
  BY <1>6 DEF vars, thread, history, isp
<1> QED
  BY <1>1, <1>2, <1>3, <1>4, <1>5, <1>6 DEF Next
-----------------------------------------------------------------------------
(* What a step that neither begins nor ends a replacement, nor the         *)
(* process, does to them: a thread may come to a table, or leave a place   *)
(* that is none, and may get its deletion through.                         *)
ReplacementsGoOn ==
  /\ UNCHANGED <<target, table, overlapped>>
  /\ \A f \in Files : stage'[f] = "idle" <=> stage[f] = "idle"
  /\ \A f \in Files : pc'[f] = pc[f] \/ pc[f] \notin Tables

(* A thread's step moves that thread alone, from where it was started. *)
ThreadMoves(f) ==
  /\ pc[f] # "none" /\ completed' = completed
  /\ \A g \in Files : g # f => pc'[g] = pc[g]

LEMMA StepsMoveOneThread ==
  ASSUME TypeOK, ReplacesATable, NEW f \in Files, Step(f)
  PROVE  ThreadMoves(f)
<1>n. "none" \notin Tables
  BY DEF Tables
<1>p. pc \in [Files -> Places]
  BY DEF TypeOK
<1>1. CASE Zeek(f) \/ LoadNetwork(f) \/ SaveNetwork(f)
  BY <1>1, <1>p DEF Zeek, LoadNetwork, SaveNetwork, Goto, ThreadMoves
<1>2. CASE BeginDelete(f) \/ Delete(f) \/ Replace(f)
  BY <1>2, <1>p, <1>n DEF BeginDelete, Delete, Replace, Goto, ThreadMoves, ReplacesATable
<1>3. CASE SaveSnapshot(f) \/ SaveRanking(f)
  BY <1>3, <1>p DEF SaveSnapshot, SaveRanking, Goto, ThreadMoves
<1>4. ASSUME NEW d \in Devices, SaveTraffic(f, d) \/ SaveEndpoint(f, d)
      PROVE  ThreadMoves(f)
  BY <1>4, <1>p DEF SaveTraffic, SaveEndpoint, Goto, ThreadMoves
<1> QED
  BY <1>1, <1>2, <1>3, <1>4 DEF Step

(* A completion starts the thread of the next file. *)
LEMMA CompletionStartsOne ==
  ASSUME TypeOK, NoThreadYet, Complete
  PROVE  /\ completed + 1 \in Files /\ pc[completed + 1] = "none"
         /\ completed' = completed + 1 /\ pc'[completed + 1] = "zeek"
         /\ \A g \in Files : g # completed + 1 => pc'[g] = pc[g]
<1>1. completed + 1 \in Files /\ completed + 1 > completed
  BY AnalysisAssumption DEF Complete, Files, TypeOK
<1> QED
  BY <1>1 DEF Complete, Goto, TypeOK, NoThreadYet

LEMMA NoThreadYetStep ==
  ASSUME TypeOK, ReplacesATable, NoThreadYet, [Next]_vars
  PROVE  NoThreadYet'
<1>t. completed \in Nat /\ Files \subseteq Nat
  BY AnalysisAssumption DEF TypeOK, Files
<1>1. CASE Complete
  BY <1>1, <1>t, CompletionStartsOne DEF NoThreadYet
<1>2. ASSUME NEW f \in Files, Step(f) PROVE NoThreadYet'
  BY <1>2, StepsMoveOneThread DEF ThreadMoves, NoThreadYet
<1>3. CASE Measure \/ SaveMeasurement \/ UNCHANGED vars
  BY <1>3 DEF Measure, SaveMeasurement, vars, thread, NoThreadYet
<1>4. CASE Restart
  BY <1>4, <1>t DEF Restart, NoThreadYet
<1> QED
  BY <1>1, <1>2, <1>3, <1>4 DEF Next

LEMMA MostStepsGoOn ==
  ASSUME TypeOK, NoThreadYet, ReplacesATable, [Next]_vars
  PROVE  \/ ReplacementsGoOn
         \/ \E f \in Files : BeginDelete(f) \/ Replace(f)
         \/ Restart
<1>s. UNCHANGED <<pc, stage, target, table, overlapped>> => ReplacementsGoOn
  BY DEF ReplacementsGoOn
<1>n. \A place \in {"none", "zeek", "devices", "network", "snapshot", "endpoints", "done"} :
        place \notin Tables
  BY DEF Tables
<1>1. CASE Complete
  <2>1. \A f \in Files : pc'[f] = pc[f] \/ pc[f] = "none"
    BY <1>1, CompletionStartsOne
  <2> QED
    BY <1>1, <1>n, <2>1 DEF Complete, ReplacementsGoOn
<1>2. ASSUME NEW f \in Files, Step(f), ~BeginDelete(f), ~Replace(f)
      PROVE  ReplacementsGoOn
  <2>m. \A g \in Files : g # f => pc'[g] = pc[g]
    BY <1>2, StepsMoveOneThread DEF ThreadMoves
  <2>1. CASE Zeek(f) \/ LoadNetwork(f) \/ SaveNetwork(f) \/ SaveSnapshot(f) \/ SaveRanking(f)
    <3>1. /\ pc[f] \notin Tables
          /\ UNCHANGED <<stage, target, table, overlapped>>
      BY <2>1, <1>n DEF Zeek, LoadNetwork, SaveNetwork, SaveSnapshot, SaveRanking
    <3> QED
      BY <2>m, <3>1 DEF ReplacementsGoOn
  <2>2. CASE Delete(f)
    <3>1. \A g \in Files : stage'[g] = "idle" <=> stage[g] = "idle"
      BY <2>2 DEF Delete, TypeOK
    <3> QED
      BY <2>2, <3>1 DEF Delete, ReplacementsGoOn
  <2>3. ASSUME NEW d \in Devices, SaveTraffic(f, d) PROVE ReplacementsGoOn
    BY <2>3, <1>s DEF SaveTraffic
  <2>4. ASSUME NEW d \in Devices, SaveEndpoint(f, d) PROVE ReplacementsGoOn
    <3>1. /\ pc[f] \notin Tables
          /\ UNCHANGED <<stage, target, table, overlapped>>
      BY <2>4, <1>n DEF SaveEndpoint
    <3> QED
      BY <2>m, <3>1 DEF ReplacementsGoOn
  <2> QED
    BY <1>2, <2>1, <2>2, <2>3, <2>4 DEF Step
<1>3. CASE Measure \/ SaveMeasurement \/ UNCHANGED vars
  BY <1>3, <1>s DEF Measure, SaveMeasurement, vars, thread
<1> QED
  BY <1>1, <1>2, <1>3 DEF Next
-----------------------------------------------------------------------------
(* Nothing but a second thread at the same table comes between a DELETE    *)
(* and its commit.                                                         *)
LEMMA ReplacementsStep ==
  ASSUME TypeOK, NoThreadYet, ReplacesATable, OneReplacesAll, [Next]_vars
  PROVE  ReplacesATable' /\ OneReplacesAll'
<1>t. /\ pc \in [Files -> Places] /\ stage \in [Files -> {"idle", "deleting", "deleted"}]
      /\ target \in [Files -> SUBSET Files] /\ table \in [Tables -> SUBSET Files]
  BY DEF TypeOK
<1>1. CASE ReplacementsGoOn
  <2>1. \A f \in Files, t \in Tables : Replacing(f, t)' => Replacing(f, t)
    BY <1>1 DEF ReplacementsGoOn, ReplacesATable, Replacing
  <2> QED
    BY <1>1, <2>1 DEF ReplacementsGoOn, ReplacesATable, OneReplacesAll
<1>2. ASSUME NEW f \in Files, BeginDelete(f) PROVE ReplacesATable' /\ OneReplacesAll'
  <2>1. /\ pc[f] \in Tables /\ stage[f] = "idle" /\ stage'[f] # "idle"
        /\ target'[f] = table[pc[f]] /\ pc' = pc /\ table' = table
        /\ \A g \in Files : g # f => stage'[g] = stage[g] /\ target'[g] = target[g]
    BY <1>2, <1>t DEF BeginDelete
  <2>2. ReplacesATable'
    BY <2>1 DEF ReplacesATable
  <2>3. ASSUME NEW t \in Tables \ overlapped'
        PROVE  /\ t \notin overlapped
               /\ pc[f] = t => \A g \in Files : ~Replacing(g, t)
    BY <1>2, <2>3 DEF BeginDelete, Replacing
  <2>4. \A t \in Tables, g \in Files :
          Replacing(g, t)' <=> Replacing(g, t) \/ (g = f /\ pc[f] = t)
    BY <2>1 DEF Replacing
  <2>5. ASSUME NEW t \in Tables \ overlapped'
        PROVE  /\ \A g, h \in Files : Replacing(g, t)' /\ Replacing(h, t)' => g = h
               /\ \A g \in Files : Replacing(g, t)' => target'[g] = table'[t]
               /\ \A a, b \in table'[t] : a = b
    <3>1. t \in Tables \ overlapped /\ \A a, b \in table[t] : a = b
      BY <2>3, <2>5 DEF OneReplacesAll
    <3>2. CASE pc[f] = t
      <4>1. \A g \in Files : Replacing(g, t)' => g = f
        BY <2>3, <2>4, <2>5, <3>2
      <4> QED
        BY <2>1, <3>1, <3>2, <4>1
    <3>3. CASE pc[f] # t
      <4>1. \A g \in Files : Replacing(g, t)' => Replacing(g, t) /\ g # f
        BY <2>4, <3>1, <3>3 DEF Replacing
      <4> QED
        BY <2>1, <3>1, <4>1 DEF OneReplacesAll
    <3> QED
      BY <3>2, <3>3
  <2> QED
    BY <2>2, <2>5 DEF OneReplacesAll
<1>3. ASSUME NEW f \in Files, Replace(f) PROVE ReplacesATable' /\ OneReplacesAll'
  <2> PICK own : own = pc[f]
    OBVIOUS
  <2>1. /\ own \in Tables /\ pc'[f] \notin Tables /\ overlapped' = overlapped
        /\ Replacing(f, own)
        /\ \A g \in Files : g # f => /\ stage'[g] = stage[g] /\ pc'[g] = pc[g]
                                    /\ target'[g] = target[g]
    BY <1>3, <1>t, AfterLeaves DEF Replace, ReplacesATable, Goto, Replacing
  <2>2. stage'[f] = "idle"
    BY <1>3, <1>t DEF Replace
  <2>3. ReplacesATable'
    BY <2>1, <2>2 DEF ReplacesATable
  <2>4. \A t \in Tables, g \in Files : Replacing(g, t)' <=> Replacing(g, t) /\ g # f
    BY <2>1, <2>2 DEF Replacing
  <2>5. ASSUME NEW t \in Tables \ overlapped, t # own
        PROVE  table'[t] = table[t]
    BY <1>3, <1>t, <2>5 DEF Replace
  <2>6. table'[own] \in {table[own], (table[own] \ target[f]) \cup Own(f, own)}
    BY <1>3, <1>t, <2>1 DEF Replace
  <2>7. own \notin overlapped => \A a, b \in table'[own] : a = b
    BY <2>1, <2>6 DEF OneReplacesAll, Own
  <2>8. own \notin overlapped => \A g \in Files : ~Replacing(g, own)'
    BY <2>1, <2>4 DEF OneReplacesAll
  <2>9. ASSUME NEW t \in Tables \ overlapped'
        PROVE  /\ \A g, h \in Files : Replacing(g, t)' /\ Replacing(h, t)' => g = h
               /\ \A g \in Files : Replacing(g, t)' => target'[g] = table'[t]
               /\ \A a, b \in table'[t] : a = b
    <3>1. CASE t = own
      BY <2>1, <2>7, <2>8, <3>1
    <3>2. CASE t # own
      BY <2>1, <2>4, <2>5, <3>2 DEF OneReplacesAll
    <3> QED
      BY <3>1, <3>2
  <2> QED
    BY <2>3, <2>9 DEF OneReplacesAll
<1>4. CASE Restart
  <2>1. /\ \A f \in Files : stage'[f] = "idle"
        /\ table' = table /\ overlapped' = overlapped
    BY <1>4 DEF Restart
  <2> QED
    BY <2>1 DEF ReplacesATable, OneReplacesAll, Replacing
<1> QED
  BY <1>1, <1>2, <1>3, <1>4, MostStepsGoOn
-----------------------------------------------------------------------------
(* Snapshots are written child after parent, by the thread that wrote the  *)
(* parent.                                                                 *)
LEMMA SnapshotsStep ==
  ASSUME IInv, [Next]_vars
  PROVE  EndpointsAfterSnapshot' /\ SnapshotsHaveParents'
<1>t. TypeOK /\ NoThreadYet /\ ReplacesATable /\ pc \in [Files -> Places]
  BY DEF IInv, TypeOK
<1>i. EndpointsAfterSnapshot /\ SnapshotsHaveParents
  BY DEF IInv
<1> USE DEF EndpointsAfterSnapshot, SnapshotsHaveParents
<1>1. CASE Complete
  BY <1>1, <1>t, <1>i, CompletionStartsOne DEF Complete, history
<1>2. ASSUME NEW f \in Files, Step(f)
      PROVE  EndpointsAfterSnapshot' /\ SnapshotsHaveParents'
  <2>m. \A g \in Files : g # f => pc'[g] = pc[g]
    BY <1>2, <1>t, StepsMoveOneThread DEF ThreadMoves
  <2>1. CASE Zeek(f) \/ LoadNetwork(f) \/ SaveNetwork(f)
    <3>1. pc'[f] # "endpoints" /\ UNCHANGED history
      BY <2>1, <1>t DEF Zeek, LoadNetwork, SaveNetwork, Goto
    <3> QED
      BY <1>i, <2>m, <3>1 DEF history
  <2>2. CASE BeginDelete(f) \/ Delete(f)
    BY <1>i, <2>2 DEF BeginDelete, Delete, history
  <2>3. CASE Replace(f)
    <3>1. pc'[f] # "endpoints" /\ UNCHANGED history
      BY <2>3, <1>t, AfterLeaves DEF Replace, Goto, ReplacesATable
    <3> QED
      BY <1>i, <2>m, <3>1 DEF history
  <2>4. CASE SaveSnapshot(f)
    <3>1. /\ snapshots \subseteq snapshots' /\ UNCHANGED <<endpoints, rankings>>
          /\ pc'[f] = "endpoints" => f \in snapshots'
      BY <2>4, <1>t DEF SaveSnapshot, Goto
    <3> QED
      BY <1>i, <2>m, <3>1
  <2>5. CASE SaveRanking(f)
    <3>1. /\ snapshots' = snapshots /\ endpoints' = endpoints /\ f \in snapshots
          /\ rankings' \subseteq rankings \cup {f} /\ pc'[f] # "endpoints"
      BY <2>5, <1>t, <1>i DEF SaveRanking, Goto
    <3> QED
      BY <1>i, <2>m, <3>1
  <2>6. ASSUME NEW d \in Devices, SaveTraffic(f, d)
        PROVE  EndpointsAfterSnapshot' /\ SnapshotsHaveParents'
    BY <1>i, <2>6 DEF SaveTraffic, history
  <2>7. ASSUME NEW d \in Devices, SaveEndpoint(f, d)
        PROVE  EndpointsAfterSnapshot' /\ SnapshotsHaveParents'
    <3>1. /\ snapshots' = snapshots /\ rankings' = rankings /\ f \in snapshots
          /\ endpoints' \subseteq endpoints \cup {<<f, d>>}
          /\ pc'[f] = "endpoints" => pc[f] = "endpoints"
      BY <2>7, <1>t, <1>i DEF SaveEndpoint, KeepEndpoint, Goto
    <3> QED
      BY <1>i, <2>m, <3>1
  <2> QED
    BY <1>2, <2>1, <2>2, <2>3, <2>4, <2>5, <2>6, <2>7 DEF Step
<1>3. CASE Measure \/ SaveMeasurement \/ UNCHANGED vars
  BY <1>3, <1>i DEF Measure, SaveMeasurement, vars, thread, history
<1>4. CASE Restart
  <2>1. (\A f \in Files : pc'[f] # "endpoints") /\ UNCHANGED history
    BY <1>4 DEF Restart
  <2> QED
    BY <1>i, <2>1 DEF history
<1> QED
  BY <1>1, <1>2, <1>3, <1>4 DEF Next

(* Threads write the traffic columns of the row and the probe the others.  *)
LEMMA MeasurementsStep ==
  ASSUME TypeOK, MeasurementsAreKept, [Next]_vars
  PROVE  MeasurementsAreKept'
<1>n. network \in [exists : BOOLEAN, isp : 0 .. MaxProbes, traffic : 0 .. MaxFiles]
  BY DEF TypeOK
<1> USE DEF MeasurementsAreKept
<1>1. CASE Complete \/ Measure \/ Restart \/ UNCHANGED vars
  BY <1>1 DEF Complete, Measure, Restart, vars, isp
<1>2. CASE SaveMeasurement
  BY <1>2, <1>n DEF SaveMeasurement
<1>3. ASSUME NEW f \in Files, Step(f) PROVE MeasurementsAreKept'
  <2>1. CASE SaveNetwork(f)
    BY <2>1, <1>n DEF SaveNetwork, isp
  <2>2. CASE ~SaveNetwork(f)
    BY <1>3, <2>2 DEF Step, Zeek, LoadNetwork, BeginDelete, Delete, Replace, SaveSnapshot,
       SaveRanking, SaveTraffic, SaveEndpoint, isp
  <2> QED
    BY <2>1, <2>2
<1> QED
  BY <1>1, <1>2, <1>3 DEF Next

LEMMA Start == Init => IInv
<1> SUFFICES ASSUME Init PROVE IInv
  OBVIOUS
<1>1. TypeOK
  BY AnalysisAssumption DEF Init, TypeOK, Absent, Places
<1>2. NoThreadYet /\ ReplacesATable /\ EndpointsAfterSnapshot
  BY DEF Init, NoThreadYet, ReplacesATable, EndpointsAfterSnapshot
<1>3. OneReplacesAll
  BY DEF Init, OneReplacesAll, Replacing
<1>4. SnapshotsHaveParents /\ MeasurementsAreKept
  BY DEF Init, SnapshotsHaveParents, MeasurementsAreKept, Absent
<1> QED
  BY <1>1, <1>2, <1>3, <1>4 DEF IInv

(* The invariant of the pipeline. *)
LEMMA AnalysisInvariant == Spec => []IInv
<1>1. IInv /\ [Next]_vars => IInv'
  BY TypesStep, NoThreadYetStep, ReplacementsStep, SnapshotsStep, MeasurementsStep DEF IInv
<1> QED
  BY <1>1, Start, PTL DEF Spec
-----------------------------------------------------------------------------
(* Every variable of the pipeline and the probe keeps its type. *)
THEOREM AnalysisTypes == Spec => []TypeOK
<1>1. IInv => TypeOK
  BY DEF IInv
<1> QED
  BY <1>1, AnalysisInvariant, PTL

(* The endpoint snapshots and rankings of a file are kept only with its    *)
(* network snapshot, whatever fails and wherever the process ends.         *)
THEOREM SnapshotsKeepParents == Spec => []SnapshotsHaveParents
<1>1. IInv => SnapshotsHaveParents
  BY DEF IInv
<1> QED
  BY <1>1, AnalysisInvariant, PTL

(* update_network_metrics and the ISP probe's upsert, interleaved in any   *)
(* way, leave the row with the columns of the last measurement saved.      *)
THEOREM MeasurementsKept == Spec => []MeasurementsAreKept
<1>1. IInv => MeasurementsAreKept
  BY DEF IInv
<1> QED
  BY <1>1, AnalysisInvariant, PTL

(* A replaced table holds the rows of one file unless two threads have     *)
(* replaced it at once: a DELETE is of all the rows its commit finds.      *)
THEOREM OneFilePerTable == Spec => []RowsAreOfOneFile
<1>1. IInv => RowsAreOfOneFile
  <2> SUFFICES ASSUME IInv, NEW t \in Tables \ overlapped
               PROVE  Cardinality(table[t]) <= 1
    BY DEF RowsAreOfOneFile
  <2>1. \A a, b \in table[t] : a = b
    BY DEF IInv, OneReplacesAll
  <2>2. CASE table[t] = {}
    BY <2>2, FS_EmptySet
  <2>3. CASE table[t] # {}
    <3>1. PICK a : table[t] = {a}
      BY <2>1, <2>3
    <3> QED
      <4>1. Cardinality({a}) = 1
        BY FS_Singleton
      <4> QED
        BY <3>1, <4>1
  <2> QED
    BY <2>2, <2>3
<1> QED
  BY <1>1, AnalysisInvariant, PTL

(* Deletion and insertion are one transaction: a reader finds a table      *)
(* emptied only by a file that has no rows for it.                         *)
THEOREM TablesFilled == Spec => TablesStayFilled
<1> DEFINE Filled ==
      \A t \in Tables : table[t] # {} =>
        \/ table'[t] # {}
        \/ \E f \in Files : pc[f] = t /\ pc'[f] # t /\ t \notin rows[f]
<1>1. IInv /\ [Next]_vars => [Filled]_vars
  <2> SUFFICES ASSUME IInv, [Next]_vars, NEW t \in Tables, table[t] # {}
               PROVE  \/ table'[t] # {}
                      \/ \E f \in Files : pc[f] = t /\ pc'[f] # t /\ t \notin rows[f]
    OBVIOUS
  <2>t. /\ TypeOK /\ NoThreadYet /\ ReplacesATable
        /\ pc \in [Files -> Places] /\ table \in [Tables -> SUBSET Files]
    BY DEF IInv, TypeOK
  <2>1. CASE table'[t] = table[t]
    BY <2>1
  <2>2. CASE table'[t] # table[t]
    <3>1. PICK f \in Files : Replace(f)
      BY <2>2, <2>t, MostStepsGoOn DEF ReplacementsGoOn, BeginDelete, Restart
    <3>2. /\ t = pc[f] /\ pc'[f] = After[t]
          /\ table'[t] = (table[t] \ target[f]) \cup Own(f, t)
      BY <2>2, <2>t, <3>1 DEF Replace, ReplacesATable, Goto
    <3> QED
      BY <3>2, AfterLeaves DEF Own
  <2> QED
    BY <2>1, <2>2
<1> QED
  BY <1>1, AnalysisInvariant, PTL DEF Spec, TablesStayFilled
=============================================================================
