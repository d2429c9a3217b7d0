------------------------------ MODULE CaptureProofs ------------------------------
(***************************************************************************)
(* Capture for any agents, packets, clocks and rotation period: the types, *)
(* that the lock is held by the thread that works on the files, and what   *)
(* the pipeline is handed.  Files are counted as they are opened, so their *)
(* names matter in one place only: as long as no clock is turned back,     *)
(* each rotation opens its file at a later second than the one before, and *)
(* truncates none.                                                         *)
(*                                                                         *)
(* Last, that the files implement PacketCustody, whatever fails.  A packet *)
(* is written behind all packets there are, so the one sequence that the   *)
(* files of an agent make grows at its end; what a failing flush or a name *)
(* that recurs takes out of it leaves the rest in order.                   *)
(***************************************************************************)
EXTENDS Capture, FiniteSetTheorems, TLAPS

(* A thread is at a place under the lock exactly if it holds it. *)
LockIsHeld == \A a \in Agents : pc[a] \in Holding <=> lock = a

(* A thread waiting to write or writing has received a packet. *)
InHand == \A a \in Agents : pc[a] \in {"want"} \cup Holding => sent[a] > 0

FileIsNamed ==
  /\ handle = "none" => files = <<>>
  /\ handle # "none" => files # <<>> /\ path \in Paths

(* What a rotation knows at each of its steps. *)
Rotating ==
  \A a \in Agents :
    /\ pc[a] = "reopen" => handle = "closed" /\ completed \in Paths
    /\ pc[a] \in {"handoff", "write"} => handle # "none"
    /\ pc[a] = "handoff" => completed \in Paths

StateOK == TypeOK /\ LockIsHeld /\ InHand /\ FileIsNamed /\ Rotating
-----------------------------------------------------------------------------
(* Moving a thread. *)
LEMMA GotoMoves ==
  ASSUME TypeOK, NEW a \in Agents,
         NEW place \in {"none", "recv", "want"} \cup Holding, Goto(a, place)
  PROVE  /\ pc' \in [Agents -> {"none", "recv", "want"} \cup Holding]
         /\ pc'[a] = place /\ \A b \in Agents : b # a => pc'[b] = pc[b]
  BY DEF Goto, TypeOK

(* The step of the thread that holds the lock, as seen from the others. *)
LEMMA OnlyTheHolderMoves ==
  ASSUME StateOK, NEW a \in Agents, Locked(a)
  PROVE  lock = a /\ \A b \in Agents : b # a => pc'[b] = pc[b] /\ pc[b] \notin Holding
<1>1. pc[a] \in Holding
  BY DEF Locked, OpenFirstFile, CloseCompleted, Reopen, HandOff, KeepFile, Write, Holding
<1>2. \A b \in Agents : b # a => pc'[b] = pc[b]
  BY DEF Locked, OpenFirstFile, CloseCompleted, Reopen, HandOff, KeepFile, Write,
     WriteFails, WriteRefused, Goto, Abandon, StateOK, TypeOK
<1> QED
  BY <1>1, <1>2 DEF StateOK, LockIsHeld

(* What opening a file does to the files. *)
LEMMA OpeningAdds ==
  ASSUME TypeOK, OpenNewFile
  PROVE  /\ files' \in Seq(File) /\ Len(files') = Len(files) + 1 /\ Len(files) \in Nat
         /\ files'[Len(files) + 1].name = local
         /\ files'[Len(files) + 1].packets = <<>>
         /\ \A i \in 1 .. Len(files) :
              /\ files'[i].name = files[i].name
              /\ files'[i].packets = IF files[i].name = local THEN <<>> ELSE files[i].packets
              /\ files[i].name # local => files'[i] = files[i]
<1> DEFINE new == [name |-> local, packets |-> <<>>]
           old == Truncated(local)
<1>1. files \in Seq(File) /\ Len(files) \in Nat /\ DOMAIN files = 1 .. Len(files)
  BY DEF TypeOK
<1>2. <<>> \in Seq(Packets)
  OBVIOUS
<1>3. local \in Paths
  BY BoundsAssumption DEF TypeOK, Paths
<1>4. new \in File
  BY <1>2, <1>3 DEF File
<1>5. \A i \in 1 .. Len(files) :
        /\ files[i] \in File
        /\ [files[i] EXCEPT !.packets = <<>>] \in File
        /\ [files[i] EXCEPT !.packets = <<>>].name = files[i].name
        /\ [files[i] EXCEPT !.packets = <<>>].packets = <<>>
  <2> SUFFICES ASSUME NEW i \in 1 .. Len(files), NEW f, f = files[i]
               PROVE  /\ f \in File
                      /\ [f EXCEPT !.packets = <<>>] \in File
                      /\ [f EXCEPT !.packets = <<>>].name = f.name
                      /\ [f EXCEPT !.packets = <<>>].packets = <<>>
    OBVIOUS
  <2>1. f \in File
    BY <1>1
  <2> QED
    BY <1>2, <2>1 DEF File
<1>6. old = [i \in 1 .. Len(files) |->
               IF files[i].name = local THEN [files[i] EXCEPT !.packets = <<>>] ELSE files[i]]
  BY <1>1 DEF Truncated
<1>7. \A i \in 1 .. Len(files) :
        /\ old[i] \in File /\ old[i].name = files[i].name
        /\ old[i].packets = IF files[i].name = local THEN <<>> ELSE files[i].packets
        /\ files[i].name # local => old[i] = files[i]
  BY <1>5, <1>6
<1>8. old \in Seq(File) /\ Len(old) = Len(files)
  BY <1>1, <1>6, <1>7
<1>9. files' = Append(old, new)
  BY DEF OpenNewFile
<1> HIDE DEF old
<1>10. /\ files' \in Seq(File) /\ Len(files') = Len(files) + 1
       /\ files'[Len(files) + 1] = new
       /\ \A i \in 1 .. Len(files) : files'[i] = old[i]
  BY <1>1, <1>4, <1>8, <1>9
<1> QED
  BY <1>1, <1>7, <1>10

(* What changing the packets of the last file does. *)
LEMMA OnlyTheLastChanges ==
  ASSUME TypeOK, files # <<>>, NEW s \in Seq(Packets),
         files' = [files EXCEPT ![Len(files)].packets = s]
  PROVE  /\ files' \in Seq(File) /\ Len(files') = Len(files)
         /\ Len(files) \in Nat /\ Len(files) \in 1 .. Len(files)
         /\ files'[Len(files)].packets = s
         /\ \A i \in 1 .. Len(files) :
              /\ files'[i].name = files[i].name
              /\ i # Len(files) => files'[i] = files[i]
<1> DEFINE N == Len(files)
           last == [files[N] EXCEPT !.packets = s]
<1>1. /\ files \in Seq(File) /\ N \in Nat /\ N \in 1 .. N /\ DOMAIN files = 1 .. N
      /\ \A i \in 1 .. N : files[i] \in File
  BY DEF TypeOK
<1>2. last \in File /\ last.name = files[N].name /\ last.packets = s
  <2>1. ASSUME NEW f \in File
        PROVE  /\ [f EXCEPT !.packets = s] \in File
               /\ [f EXCEPT !.packets = s].name = f.name
               /\ [f EXCEPT !.packets = s].packets = s
    BY DEF File
  <2> QED
    BY <1>1, <2>1
<1>3. files' = [files EXCEPT ![N] = last]
  OBVIOUS
<1> HIDE DEF last, N
<1>4. /\ files' \in Seq(File) /\ Len(files') = N /\ files'[N] = last
      /\ \A i \in 1 .. N : i # N => files'[i] = files[i]
  <2>1. Len(files) = N
    BY DEF N
  <2> QED
    BY <1>1, <1>2, <1>3, <2>1
<1> QED
  BY <1>1, <1>2, <1>4 DEF N

(* A prefix of a file's packets. *)
LEMMA FlushingLeaves ==
  ASSUME TypeOK, files # <<>>, FlushFails
  PROVE  \E s \in Seq(Packets) :
           /\ files' = [files EXCEPT ![Len(files)].packets = s]
           /\ DOMAIN s \subseteq DOMAIN files[Len(files)].packets
           /\ \A j \in DOMAIN s : s[j] = files[Len(files)].packets[j]
<1>1. files[Len(files)].packets \in Seq(Packets)
  <2>1. files[Len(files)] \in File
    BY DEF TypeOK
  <2> QED
    BY <2>1 DEF File
<1>2. PICK kept \in 0 .. Len(files[Len(files)].packets) :
        files' = [files EXCEPT ![Len(files)].packets =
                                 SubSeq(files[Len(files)].packets, 1, kept)]
  BY DEF FlushFails
<1>3. ASSUME NEW p \in Seq(Packets), NEW n \in 0 .. Len(p)
      PROVE  /\ SubSeq(p, 1, n) \in Seq(Packets)
             /\ DOMAIN SubSeq(p, 1, n) \subseteq DOMAIN p
             /\ \A j \in DOMAIN SubSeq(p, 1, n) : SubSeq(p, 1, n)[j] = p[j]
  OBVIOUS
<1> QED
  BY <1>1, <1>2, <1>3

LEMMA WritingAppends ==
  ASSUME StateOK, NEW a \in Agents, pc[a] = "write", WritePacket(a), ~torn
  PROVE  /\ files # <<>> /\ sent[a] \in 1 .. MaxPackets
         /\ files[Len(files)].packets \in Seq(Packets)
         /\ Append(files[Len(files)].packets, <<a, sent[a]>>) \in Seq(Packets)
         /\ files' = [files EXCEPT ![Len(files)].packets =
                                     Append(files[Len(files)].packets, <<a, sent[a]>>)]
<1>t. TypeOK /\ InHand /\ FileIsNamed
  BY DEF StateOK
<1>1. files # <<>>
  BY <1>t DEF WritePacket, FileIsNamed
<1>2. sent[a] \in 1 .. MaxPackets
  BY <1>t, BoundsAssumption DEF InHand, Holding, TypeOK
<1>3. files[Len(files)].packets \in Seq(Packets)
  <2>1. files[Len(files)] \in File
    BY <1>t, <1>1 DEF TypeOK
  <2> QED
    BY <2>1 DEF File
<1>4. <<a, sent[a]>> \in Packets
  BY <1>2 DEF Packets
<1>5. Append(files[Len(files)].packets, <<a, sent[a]>>) \in Seq(Packets)
  BY <1>3, <1>4
<1> QED
  BY <1>1, <1>2, <1>3, <1>5 DEF WritePacket

(* One more failure or turn of a clock. *)
LEMMA MishapsAreBounded ==
  ASSUME TypeOK, OneMoreMishap
  PROVE  /\ openFailures + 1 \in 0 .. MaxMishaps
         /\ writeFailures + 1 \in 0 .. MaxMishaps
         /\ turned + 1 \in 0 .. MaxMishaps
<1>1. openFailures \in Nat /\ writeFailures \in Nat /\ turned \in Nat /\ MaxMishaps \in Nat
  BY BoundsAssumption DEF TypeOK
<1> QED
  BY <1>1 DEF OneMoreMishap

(* Opening a file, or failing to, keeps the types. *)
LEMMA OpeningTypes ==
  ASSUME TypeOK, OpenNewFile \/ OpenFails
  PROVE  /\ path' \in Paths /\ handle' \in {"none", "open", "closed"}
         /\ startTime' \in 0 .. MaxTime /\ torn' \in BOOLEAN /\ files' \in Seq(File)
         /\ openFailures' \in 0 .. MaxMishaps /\ writeFailures' \in 0 .. MaxMishaps
<1>1. local \in Paths /\ now \in 0 .. MaxTime
  BY BoundsAssumption DEF TypeOK, Paths
<1>2. CASE OpenNewFile
  <2>1. files' \in Seq(File)
    BY <1>2, OpeningAdds
  <2> QED
    BY <1>1, <1>2, <2>1 DEF OpenNewFile, failureVars, TypeOK
<1>3. CASE OpenFails
  BY <1>1, <1>3, MishapsAreBounded DEF OpenFails, TypeOK
<1> QED
  BY <1>2, <1>3

LEMMA FlushingTypes ==
  ASSUME StateOK, FlushFails
  PROVE  files' \in Seq(File) /\ writeFailures' \in 0 .. MaxMishaps
<1>1. TypeOK /\ files # <<>>
  BY DEF FlushFails, StateOK, FileIsNamed
<1>2. files' \in Seq(File)
  BY <1>1, FlushingLeaves, OnlyTheLastChanges
<1> QED
  BY <1>1, <1>2, MishapsAreBounded DEF FlushFails, WriteFailure

LEMMA ClosingTypes ==
  ASSUME StateOK, NEW a \in Agents, CloseCompleted(a)
  PROVE  TypeOK'
<1>t. TypeOK
  BY DEF StateOK
<1>1. CASE Goto(a, "reopen") /\ UNCHANGED <<lock, files, failureVars>>
  <2>1. pc' \in [Agents -> {"none", "recv", "want"} \cup Holding]
    BY <1>1, <1>t, GotoMoves DEF Holding
  <2> QED
    BY <1>1, <1>t, <2>1 DEF CloseCompleted, TypeOK, clockVars, failureVars
<1>2. CASE FlushFails /\ Abandon(a) /\ UNCHANGED openFailures
  <2>1. pc' \in [Agents -> {"none", "recv", "want"} \cup Holding] /\ lock' = Nobody
    BY <1>2, <1>t, GotoMoves DEF Abandon
  <2>2. files' \in Seq(File) /\ writeFailures' \in 0 .. MaxMishaps
    BY <1>2, FlushingTypes
  <2> QED
    BY <1>2, <1>t, <2>1, <2>2 DEF CloseCompleted, TypeOK, clockVars
<1> QED
  BY <1>1, <1>2 DEF CloseCompleted

LEMMA WritingTypes ==
  ASSUME StateOK, NEW a \in Agents, Write(a)
  PROVE  TypeOK'
<1>t. TypeOK
  BY DEF StateOK
<1>0. /\ now' = now /\ local' = local /\ turned' = turned /\ running' = running
      /\ main' = main /\ sent' = sent /\ path' = path /\ handle' = handle
      /\ startTime' = startTime /\ completed' = completed /\ handed' = handed
      /\ openFailures' = openFailures
  BY DEF Write, clockVars
<1>1. CASE WritePacket(a) /\ lock' = Nobody /\ Goto(a, IF running THEN "recv" ELSE "none")
  <2>1. pc' \in [Agents -> {"none", "recv", "want"} \cup Holding]
    BY <1>1, <1>t, GotoMoves
  <2>2. files' \in Seq(File)
    <3>1. CASE torn
      BY <1>1, <1>t, <3>1 DEF WritePacket, TypeOK
    <3>2. CASE ~torn
      BY <1>1, <1>t, <3>2, WritingAppends, OnlyTheLastChanges DEF Write
    <3> QED
      BY <3>1, <3>2
  <2>3. torn' = torn /\ writeFailures' = writeFailures
    BY <1>1 DEF WritePacket
  <2> QED
    BY <1>0, <1>1, <1>t, <2>1, <2>2, <2>3 DEF TypeOK
<1>2. CASE WriteFails(a) \/ WriteRefused(a)
  <2>1. pc' \in [Agents -> {"none", "recv", "want"} \cup Holding] /\ lock' = Nobody
    BY <1>2, <1>t, GotoMoves DEF WriteFails, WriteRefused, Abandon
  <2>2. writeFailures' \in 0 .. MaxMishaps
    BY <1>2, <1>t, MishapsAreBounded DEF WriteFails, WriteRefused, WriteFailure, TypeOK
  <2>3. torn' \in BOOLEAN /\ files' = files
    BY <1>2, <1>t DEF WriteFails, WriteRefused, TypeOK
  <2> QED
    BY <1>0, <1>t, <2>1, <2>2, <2>3 DEF TypeOK
<1> QED
  BY <1>1, <1>2 DEF Write

(* Every step keeps the types: what is written is a packet received. *)
LEMMA TypesStep == StateOK /\ [Next]_vars => TypeOK'
<1> SUFFICES ASSUME StateOK, [Next]_vars PROVE TypeOK'
  OBVIOUS
<1>t. TypeOK
  BY DEF StateOK
<1>h. {"locked", "reopen", "handoff", "write"} \subseteq Holding
  BY DEF Holding
<1>1. ASSUME NEW a \in Agents, Accept(a) \/ Disconnect(a) PROVE TypeOK'
  <2>1. pc' \in [Agents -> {"none", "recv", "want"} \cup Holding]
    BY <1>1, <1>t, GotoMoves DEF Accept, Disconnect
  <2> QED
    BY <1>1, <1>t, <2>1 DEF Accept, Disconnect, TypeOK, fileVars, clockVars, failureVars
<1>2. ASSUME NEW a \in Agents, Receive(a) PROVE TypeOK'
  <2>1. pc' \in [Agents -> {"none", "recv", "want"} \cup Holding]
    BY <1>2, <1>t, GotoMoves DEF Receive
  <2>2. sent' \in [Agents -> 0 .. MaxPackets]
    BY <1>2, <1>t, BoundsAssumption DEF Receive, TypeOK
  <2> QED
    BY <1>2, <1>t, <2>1, <2>2 DEF Receive, TypeOK, fileVars, clockVars, failureVars
<1>3. ASSUME NEW a \in Agents, Acquire(a) PROVE TypeOK'
  <2>1. pc' \in [Agents -> {"none", "recv", "want"} \cup Holding]
    BY <1>3, <1>t, <1>h, GotoMoves DEF Acquire
  <2> QED
    BY <1>3, <1>t, <2>1 DEF Acquire, TypeOK, fileVars, clockVars, failureVars
<1>4. ASSUME NEW a \in Agents, OpenFirstFile(a) PROVE TypeOK'
  <2>1. /\ pc' \in [Agents -> {"none", "recv", "want"} \cup Holding]
        /\ lock' \in Agents \cup {Nobody}
    <3>1. CASE UNCHANGED <<lock, pc>>
      BY <1>t, <3>1 DEF TypeOK
    <3>2. CASE Abandon(a)
      BY <1>t, <3>2, GotoMoves DEF Abandon
    <3> QED
      BY <1>4, <3>1, <3>2 DEF OpenFirstFile
  <2>2. OpenNewFile \/ OpenFails
    BY <1>4 DEF OpenFirstFile
  <2> QED
    BY <1>4, <1>t, <2>1, <2>2, OpeningTypes DEF OpenFirstFile, TypeOK, clockVars
<1>5. ASSUME NEW a \in Agents, Reopen(a) PROVE TypeOK'
  <2>1. /\ pc' \in [Agents -> {"none", "recv", "want"} \cup Holding]
        /\ lock' \in Agents \cup {Nobody}
    <3>1. CASE Goto(a, "handoff") /\ UNCHANGED lock
      BY <1>t, <1>h, <3>1, GotoMoves DEF TypeOK
    <3>2. CASE Abandon(a)
      BY <1>t, <3>2, GotoMoves DEF Abandon
    <3> QED
      BY <1>5, <3>1, <3>2 DEF Reopen
  <2>2. OpenNewFile \/ OpenFails
    BY <1>5 DEF Reopen
  <2> QED
    BY <1>5, <1>t, <2>1, <2>2, OpeningTypes DEF Reopen, TypeOK, clockVars
<1>6. ASSUME NEW a \in Agents, CloseCompleted(a) \/ Write(a) PROVE TypeOK'
  BY <1>6, ClosingTypes, WritingTypes
<1>7. ASSUME NEW a \in Agents, HandOff(a) PROVE TypeOK'
  <2>1. pc' \in [Agents -> {"none", "recv", "want"} \cup Holding]
    BY <1>7, <1>t, <1>h, GotoMoves DEF HandOff
  <2>2. handed' \in Seq(Paths)
    BY <1>7, <1>t DEF HandOff, StateOK, Rotating, TypeOK
  <2> QED
    BY <1>7, <1>t, <2>1, <2>2 DEF HandOff, TypeOK, fileVars, clockVars, failureVars
<1>8. ASSUME NEW a \in Agents, KeepFile(a) PROVE TypeOK'
  <2>1. pc' \in [Agents -> {"none", "recv", "want"} \cup Holding]
    BY <1>8, <1>t, <1>h, GotoMoves DEF KeepFile
  <2> QED
    BY <1>8, <1>t, <2>1 DEF KeepFile, TypeOK, fileVars, clockVars, failureVars
<1>9. CASE Close
  <2>1. files' \in Seq(File) /\ writeFailures' \in 0 .. MaxMishaps
    <3>1. CASE FlushFails
      BY <3>1, FlushingTypes
    <3>2. CASE UNCHANGED <<files, writeFailures>>
      BY <1>t, <3>2 DEF TypeOK
    <3> QED
      BY <1>9, <3>1, <3>2 DEF Close
  <2> QED
    BY <1>9, <1>t, <2>1 DEF Close, TypeOK, clockVars
<1>10. CASE Tick
  <2>1. now' \in 0 .. MaxTime /\ local' \in 0 .. now'
    BY <1>10, <1>t, BoundsAssumption DEF Tick, TypeOK
  <2> QED
    BY <1>10, <1>t, <2>1 DEF Tick, TypeOK, fileVars, failureVars
<1>11. CASE TurnBack
  <2>1. now' \in 0 .. MaxTime /\ local' \in 0 .. now' /\ turned' \in 0 .. MaxMishaps
    BY <1>11, <1>t, BoundsAssumption, MishapsAreBounded DEF TurnBack, TypeOK
  <2> QED
    BY <1>11, <1>t, <2>1 DEF TurnBack, TypeOK, fileVars, failureVars
<1>12. CASE Stop \/ Exit
  BY <1>12, <1>t DEF Stop, Exit, TypeOK, fileVars, clockVars, failureVars
<1>13. CASE Exited \/ UNCHANGED vars
  BY <1>13, <1>t DEF Exited, vars, TypeOK
<1> QED
  BY <1>1, <1>2, <1>3, <1>4, <1>5, <1>6, <1>7, <1>8, <1>9, <1>10, <1>11, <1>12, <1>13
  DEF Next, Locked
-----------------------------------------------------------------------------
(* The lock, the files' names and the rotation under way, at every step. *)
LEMMA LockStep == StateOK /\ [Next]_vars => (LockIsHeld /\ InHand)'
<1> SUFFICES ASSUME StateOK, [Next]_vars PROVE (LockIsHeld /\ InHand)'
  OBVIOUS
<1>t. TypeOK /\ LockIsHeld /\ InHand
  BY DEF StateOK
<1>n. Nobody \notin Agents
  BY ThreadsAssumption
<1>h. /\ {"locked", "reopen", "handoff", "write"} = Holding
      /\ "none" \notin Holding /\ "recv" \notin Holding /\ "want" \notin Holding
  BY DEF Holding
<1>1. ASSUME NEW a \in Agents, Accept(a) \/ Disconnect(a) \/ Receive(a)
      PROVE  (LockIsHeld /\ InHand)'
  <2>1. /\ pc[a] \in {"none", "recv"} /\ pc'[a] \in {"none", "recv", "want"}
        /\ \A b \in Agents : b # a => pc'[b] = pc[b] /\ sent'[b] = sent[b]
        /\ lock' = lock /\ (pc'[a] = "want" => sent'[a] > 0)
    <3>1. CASE Accept(a) \/ Disconnect(a)
      BY <3>1, <1>t DEF Accept, Disconnect, Goto, TypeOK
    <3>2. CASE Receive(a)
      BY <3>2, <1>t, BoundsAssumption DEF Receive, Goto, TypeOK
    <3> QED
      BY <1>1, <3>1, <3>2
  <2> QED
    BY <2>1, <1>t, <1>h DEF LockIsHeld, InHand
<1>2. ASSUME NEW a \in Agents, Acquire(a) PROVE (LockIsHeld /\ InHand)'
  <2>1. /\ pc[a] = "want" /\ pc'[a] = "locked" /\ lock = Nobody /\ lock' = a
        /\ sent' = sent /\ \A b \in Agents : b # a => pc'[b] = pc[b]
    BY <1>2, <1>t DEF Acquire, Goto, TypeOK
  <2> QED
    BY <2>1, <1>t, <1>h, <1>n DEF LockIsHeld, InHand
<1>3. ASSUME NEW a \in Agents, Locked(a) PROVE (LockIsHeld /\ InHand)'
  <2>1. lock = a /\ \A b \in Agents : b # a => pc'[b] = pc[b] /\ pc[b] \notin Holding
    BY <1>3, OnlyTheHolderMoves
  <2>2. /\ sent' = sent
        /\ \/ lock' = lock /\ pc'[a] \in Holding
           \/ lock' = Nobody /\ pc'[a] \in {"none", "recv"}
    BY <1>3, <1>t, <1>h, <2>1 DEF Locked, OpenFirstFile, CloseCompleted, Reopen, HandOff,
       KeepFile, Write, WriteFails, WriteRefused, Goto, Abandon, TypeOK
  <2> QED
    BY <2>1, <2>2, <1>t, <1>h, <1>n DEF LockIsHeld, InHand
<1>4. CASE Stop \/ Close \/ Exit \/ Tick \/ TurnBack \/ Exited \/ UNCHANGED vars
  BY <1>4, <1>t DEF Stop, Close, Exit, Tick, TurnBack, Exited, vars, LockIsHeld, InHand
<1> QED
  BY <1>1, <1>2, <1>3, <1>4 DEF Next

(* What opening a file, or failing to, does to the handle. *)
LEMMA OpeningNames ==
  ASSUME TypeOK, FileIsNamed, OpenNewFile \/ OpenFails
  PROVE  FileIsNamed'
<1>1. CASE OpenNewFile
  <2>1. files' # <<>>
    BY <1>1, OpeningAdds
  <2>2. local \in Paths
    BY BoundsAssumption DEF TypeOK, Paths
  <2> QED
    BY <1>1, <2>1, <2>2 DEF OpenNewFile, FileIsNamed
<1>2. CASE OpenFails
  <2>1. local \in Paths
    BY BoundsAssumption DEF TypeOK, Paths
  <2> QED
    BY <1>2, <2>1 DEF OpenFails, FileIsNamed
<1> QED
  BY <1>1, <1>2

(* Flushing and writing keep the number of files. *)
LEMMA FilesStay ==
  ASSUME StateOK,
         \/ FlushFails
         \/ \E a \in Agents : Write(a)
         \/ files' = files
  PROVE  /\ Len(files') = Len(files) /\ (files' = <<>> <=> files = <<>>)
         /\ \A i \in 1 .. Len(files) : files'[i].name = files[i].name
         /\ \A i \in 1 .. Len(files) : i # Len(files) => files'[i] = files[i]
<1>t. TypeOK /\ files \in Seq(File) /\ FileIsNamed
  BY DEF StateOK, TypeOK
<1>1. CASE FlushFails
  <2>1. files # <<>>
    BY <1>1, <1>t DEF FlushFails, FileIsNamed
  <2>2. PICK s \in Seq(Packets) : files' = [files EXCEPT ![Len(files)].packets = s]
    BY <1>1, <1>t, <2>1, FlushingLeaves
  <2>3. /\ files' \in Seq(File) /\ Len(files') = Len(files) /\ Len(files) \in 1 .. Len(files)
        /\ \A i \in 1 .. Len(files) :
             /\ files'[i].name = files[i].name
             /\ i # Len(files) => files'[i] = files[i]
    BY <1>t, <2>1, <2>2, OnlyTheLastChanges
  <2> QED
    BY <2>1, <2>3
<1>2. CASE \E a \in Agents : Write(a)
  <2> PICK a \in Agents : Write(a)
    BY <1>2
  <2>1. CASE WritePacket(a) /\ ~torn
    <3>1. /\ files # <<>>
          /\ Append(files[Len(files)].packets, <<a, sent[a]>>) \in Seq(Packets)
          /\ files' = [files EXCEPT ![Len(files)].packets =
                                      Append(files[Len(files)].packets, <<a, sent[a]>>)]
      BY <2>1, WritingAppends DEF Write
    <3>2. /\ files' \in Seq(File) /\ Len(files') = Len(files) /\ Len(files) \in 1 .. Len(files)
          /\ \A i \in 1 .. Len(files) :
               /\ files'[i].name = files[i].name
               /\ i # Len(files) => files'[i] = files[i]
      BY <1>t, <3>1, OnlyTheLastChanges
    <3> QED
      BY <3>1, <3>2
  <2>2. CASE ~(WritePacket(a) /\ ~torn)
    <3>1. files' = files
      BY <2>2 DEF Write, WritePacket, WriteFails, WriteRefused
    <3> QED
      BY <3>1
  <2> QED
    BY <2>1, <2>2
<1>3. CASE files' = files
  BY <1>3
<1> QED
  BY <1>1, <1>2, <1>3

(* How a rotation closes its file, whether or not the flush succeeds. *)
LEMMA ClosingMoves ==
  ASSUME StateOK, NEW a \in Agents, CloseCompleted(a)
  PROVE  /\ pc[a] = "locked" /\ handle # "none" /\ ShouldRotate
         /\ completed' = path /\ handle' = "closed"
         /\ UNCHANGED <<clockVars, main, sent, path, startTime, torn, handed, openFailures>>
         /\ \/ pc'[a] = "reopen" /\ files' = files /\ writeFailures' = writeFailures
            \/ pc'[a] = "none" /\ FlushFails
<1>1. \A place \in {"none"} \cup Holding : Goto(a, place) => pc'[a] = place
  BY DEF Goto, StateOK, TypeOK
<1> QED
  BY <1>1 DEF CloseCompleted, Abandon, Holding, failureVars

LEMMA NamesStep == StateOK /\ [Next]_vars => (FileIsNamed /\ Rotating)'
<1> SUFFICES ASSUME StateOK, [Next]_vars PROVE (FileIsNamed /\ Rotating)'
  OBVIOUS
<1>t. TypeOK /\ LockIsHeld /\ FileIsNamed /\ Rotating
  BY DEF StateOK
<1>n. Nobody \notin Agents
  BY ThreadsAssumption
<1>h. {"locked", "reopen", "handoff", "write"} = Holding
  BY DEF Holding
<1>1. ASSUME NEW a \in Agents, Accept(a) \/ Disconnect(a) \/ Receive(a) \/ Acquire(a)
      PROVE  (FileIsNamed /\ Rotating)'
  <2>1. /\ UNCHANGED fileVars
        /\ pc'[a] \notin {"reopen", "handoff", "write"}
        /\ \A b \in Agents : b # a => pc'[b] = pc[b]
    BY <1>1, <1>t DEF Accept, Disconnect, Receive, Acquire, Goto, TypeOK
  <2> QED
    BY <2>1, <1>t DEF FileIsNamed, Rotating, fileVars
<1>2. ASSUME NEW a \in Agents, Locked(a) PROVE (FileIsNamed /\ Rotating)'
  <2>o. \A b \in Agents : b # a => pc'[b] = pc[b] /\ pc[b] \notin Holding
    BY <1>2, OnlyTheHolderMoves
  <2>m. \A place \in {"none", "recv"} \cup Holding : Goto(a, place) => pc'[a] = place
    BY <1>t, <1>h DEF Goto, TypeOK
  <2>1. CASE OpenFirstFile(a)
    <3>1. (OpenNewFile \/ OpenFails) /\ pc'[a] \in {"locked", "none"}
      BY <2>1, <2>m DEF OpenFirstFile, Abandon
    <3>2. FileIsNamed'
      BY <1>t, <3>1, OpeningNames
    <3> QED
      BY <2>o, <1>h, <3>1, <3>2 DEF Rotating
  <2>2. CASE CloseCompleted(a)
    <3>1. /\ handle # "none" /\ completed' = path /\ handle' = "closed" /\ path' = path
          /\ pc'[a] \in {"reopen", "none"} /\ (FlushFails \/ files' = files)
      BY <2>2, ClosingMoves
    <3>2. files' = <<>> <=> files = <<>>
      BY <3>1, FilesStay
    <3> QED
      BY <1>t, <1>h, <2>o, <3>1, <3>2 DEF FileIsNamed, Rotating
  <2>3. CASE Reopen(a)
    <3>1. /\ handle = "closed" /\ completed' = completed /\ completed \in Paths
          /\ \/ OpenNewFile /\ pc'[a] = "handoff"
             \/ OpenFails /\ pc'[a] = "none"
      BY <2>3, <2>m, <1>t, <1>h DEF Reopen, Abandon, Rotating
    <3>2. FileIsNamed'
      BY <1>t, <3>1, OpeningNames
    <3>3. pc'[a] = "handoff" => handle' # "none"
      BY <3>1 DEF OpenNewFile
    <3> QED
      BY <1>h, <2>o, <3>1, <3>2, <3>3 DEF Rotating
  <2>4. CASE HandOff(a) \/ KeepFile(a)
    <3>1. UNCHANGED fileVars /\ pc'[a] = "write" /\ handle # "none"
      BY <2>4, <2>m, <1>t, <1>h DEF HandOff, KeepFile, Rotating
    <3> QED
      BY <1>t, <1>h, <2>o, <3>1 DEF FileIsNamed, Rotating, fileVars
  <2>5. CASE Write(a)
    <3>1. UNCHANGED <<path, handle, completed>> /\ pc'[a] \in {"none", "recv"}
      BY <2>5, <2>m DEF Write, WriteFails, WriteRefused, Abandon
    <3>2. files' = <<>> <=> files = <<>>
      BY <2>5, FilesStay
    <3> QED
      BY <1>t, <1>h, <2>o, <3>1, <3>2 DEF FileIsNamed, Rotating
  <2> QED
    BY <1>2, <2>1, <2>2, <2>3, <2>4, <2>5 DEF Locked
<1>3. CASE Close
  <2>1. \A a \in Agents : pc[a] \notin Holding
    BY <1>3, <1>t, <1>n DEF Close, LockIsHeld
  <2>2. /\ UNCHANGED <<pc, path, completed>> /\ (FlushFails \/ files' = files)
        /\ handle' = "none" <=> handle = "none"
    BY <1>3 DEF Close
  <2>3. files' = <<>> <=> files = <<>>
    BY <2>2, FilesStay
  <2> QED
    BY <1>t, <1>h, <2>1, <2>2, <2>3 DEF FileIsNamed, Rotating
<1>4. CASE Stop \/ Exit \/ Tick \/ TurnBack \/ Exited \/ UNCHANGED vars
  BY <1>4, <1>t DEF Stop, Exit, Tick, TurnBack, Exited, vars, FileIsNamed, Rotating, fileVars
<1> QED
  BY <1>1, <1>2, <1>3, <1>4 DEF Next

LEMMA Start == Init => StateOK
<1> SUFFICES ASSUME Init PROVE StateOK
  OBVIOUS
<1>1. TypeOK
  <2>1. /\ MaxTime + 1 \in Paths \cup {MaxTime + 1} /\ 0 \in 0 .. MaxTime
        /\ 0 \in 0 .. MaxPackets /\ 0 \in 0 .. MaxMishaps
        /\ 0 \in 0 .. 0
    BY BoundsAssumption
  <2>2. <<>> \in Seq(File) /\ <<>> \in Seq(Paths)
    OBVIOUS
  <2>3. /\ now \in 0 .. MaxTime /\ local \in 0 .. now /\ turned \in 0 .. MaxMishaps
        /\ startTime \in 0 .. MaxTime /\ openFailures \in 0 .. MaxMishaps
        /\ writeFailures \in 0 .. MaxMishaps
    BY <2>1 DEF Init
  <2> QED
    BY <2>1, <2>2, <2>3 DEF Init, TypeOK, NoPath
<1> QED
  BY <1>1, ThreadsAssumption DEF Init, StateOK, LockIsHeld, InHand, FileIsNamed, Rotating,
     Holding

(* The lock and the current file are as the steps expect them. *)
LEMMA StateCorrect == Spec => []StateOK
<1>1. StateOK /\ [Next]_vars => StateOK'
  BY TypesStep, LockStep, NamesStep DEF StateOK
<1> QED
  BY <1>1, Start, PTL DEF Spec

(* Every variable of the capture path keeps its type. *)
THEOREM CaptureTypes == Spec => []TypeOK
<1>1. StateOK => TypeOK
  BY DEF StateOK
<1> QED
  BY <1>1, StateCorrect, PTL
-----------------------------------------------------------------------------
(* The files while every open has succeeded: those before the current one  *)
(* have been handed over, or the last of them is about to be.              *)
Rest == IF \E a \in Agents : pc[a] = "handoff" THEN 2 ELSE 1

Handing ==
  /\ files = <<>> => handed = <<>>
  /\ files # <<>> =>
       /\ path = files[Len(files)].name
       /\ Len(handed) = Len(files) - Rest
       /\ \A i \in 1 .. Len(handed) : handed[i] = files[i].name
  /\ \A a \in Agents :
       /\ pc[a] = "reopen" => completed = path
       /\ pc[a] = "handoff" => Len(files) > 1 /\ completed = files[Len(files) - 1].name

(* The clocks while none has been turned back: what is due was opened at   *)
(* an earlier second, and so was every file before it.                     *)
ClocksAgree ==
  /\ local = now /\ startTime <= now
  /\ \A i \in 1 .. Len(files) : files[i].name <= startTime
  /\ \A a \in Agents : pc[a] = "reopen" => startTime < now

IInv ==
  /\ StateOK
  /\ openFailures = 0 => Handing
  /\ turned = 0 => ClocksAgree

(* A step that touches nothing Handing speaks of, and moves no thread into *)
(* or out of a rotation.                                                   *)
LEMMA HandingUntouched ==
  ASSUME StateOK, Handing, UNCHANGED <<path, completed, handed>>,
         Len(files') = Len(files), files' = <<>> <=> files = <<>>,
         \A i \in 1 .. Len(files) : files'[i].name = files[i].name,
         \A a \in Agents : /\ pc'[a] = "reopen" => pc[a] = "reopen"
                           /\ pc'[a] = "handoff" <=> pc[a] = "handoff"
  PROVE  Handing'
<1>1. Len(files) \in Nat /\ Len(handed) \in Nat
  BY DEF StateOK, TypeOK
<1>2. files # <<>> => Len(files) \in 1 .. Len(files) /\ Len(files)' \in 1 .. Len(files)
  BY DEF StateOK, TypeOK
<1>3. Rest' = Rest /\ Rest \in {1, 2}
  BY DEF Rest
<1>4. files # <<>> => \A i \in 1 .. Len(handed) : i \in 1 .. Len(files)
  BY <1>1, <1>3 DEF Handing
<1>5. Len(files) > 1 => Len(files) - 1 \in 1 .. Len(files)
  BY <1>1
<1>6. handed = <<>> => handed' = <<>>
  OBVIOUS
<1>7. files' # <<>> =>
        /\ path' = files'[Len(files')].name
        /\ Len(handed') = Len(files') - Rest'
        /\ \A i \in 1 .. Len(handed') : handed'[i] = files'[i].name
  BY <1>2, <1>3, <1>4 DEF Handing
<1>8. \A a \in Agents :
        /\ pc'[a] = "reopen" => completed' = path'
        /\ pc'[a] = "handoff" => Len(files') > 1 /\ completed' = files'[Len(files') - 1].name
  BY <1>5 DEF Handing
<1> QED
  BY <1>6, <1>7, <1>8 DEF Handing

(* Opening a file: the one before it, if any, becomes one to hand over. *)
LEMMA OpeningInOrder ==
  ASSUME StateOK, Handing, OpenNewFile, handed' = handed, completed' = completed,
         NEW a \in Agents, \A b \in Agents : pc'[b] \in {"reopen", "handoff"} => b = a,
         \A b \in Agents : pc[b] # "handoff", pc'[a] # "reopen",
         \/ handle = "none" /\ pc'[a] # "handoff"
         \/ handle # "none" /\ completed = path /\ pc'[a] = "handoff"
  PROVE  Handing'
<1>t. TypeOK /\ FileIsNamed /\ Len(files) \in Nat /\ Len(handed) \in Nat
      /\ (files # <<>> => Len(files) \in 1 .. Len(files))
  BY DEF StateOK, TypeOK
<1>1. /\ Len(files') = Len(files) + 1 /\ files' # <<>>
      /\ files'[Len(files')].name = local /\ path' = local
      /\ \A i \in 1 .. Len(files) : files'[i].name = files[i].name
  <2>1. /\ Len(files') = Len(files) + 1 /\ files'[Len(files) + 1].name = local
        /\ \A i \in 1 .. Len(files) : files'[i].name = files[i].name
    BY <1>t, OpeningAdds
  <2>2. files' # <<>>
    BY <1>t, <2>1
  <2> QED
    BY <2>1, <2>2 DEF OpenNewFile
<1>2. Rest = 1
  BY DEF Rest
<1>3. CASE handle = "none" /\ pc'[a] # "handoff"
  <2>1. files = <<>> /\ handed = <<>> /\ Len(files) = 0 /\ Len(handed) = 0 /\ Rest' = 1
    BY <1>3, <1>t DEF FileIsNamed, Handing, Rest
  <2> QED
    BY <1>1, <1>3, <2>1 DEF Handing
<1>4. CASE handle # "none" /\ completed = path /\ pc'[a] = "handoff"
  <2>1. files # <<>> /\ Rest' = 2 /\ path = files[Len(files)].name
        /\ Len(handed) = Len(files) - 1 /\ \A i \in 1 .. Len(handed) : handed[i] = files[i].name
    BY <1>2, <1>4, <1>t DEF FileIsNamed, Handing, Rest
  <2>2. Len(handed') = Len(files') - Rest'
    BY <1>1, <1>t, <2>1
  <2>3. \A i \in 1 .. Len(handed') : handed'[i] = files'[i].name
    BY <1>1, <1>t, <2>1
  <2>4. Len(files') > 1 /\ completed' = files'[Len(files') - 1].name
    BY <1>1, <1>4, <1>t, <2>1
  <2> QED
    BY <1>1, <1>4, <2>2, <2>3, <2>4 DEF Handing
<1> QED
  BY <1>3, <1>4

LEMMA HandingStep ==
  ASSUME IInv, [Next]_vars, openFailures' = 0
  PROVE  openFailures = 0 /\ Handing'
<1>t. StateOK /\ TypeOK /\ LockIsHeld /\ FileIsNamed /\ Rotating
  BY DEF IInv, StateOK
<1>n. Nobody \notin Agents /\ openFailures \in Nat
  BY <1>t, ThreadsAssumption DEF TypeOK
<1>h. {"locked", "reopen", "handoff", "write"} = Holding
  BY DEF Holding
<1>f. ~OpenFails
  BY <1>n DEF OpenFails
<1>z. openFailures = 0
  BY <1>f DEF Next, Locked, Accept, Receive, Disconnect, Acquire, OpenFirstFile,
     CloseCompleted, Reopen, HandOff, KeepFile, Write, Stop, Close, Exit, Tick, TurnBack,
     Exited, vars, failureVars, OpenNewFile
<1>i. Handing
  BY <1>z DEF IInv
<1>s. files' = files => /\ Len(files') = Len(files) /\ (files' = <<>> <=> files = <<>>)
                        /\ \A i \in 1 .. Len(files) : files'[i].name = files[i].name
  BY <1>t, FilesStay
<1>1. ASSUME NEW a \in Agents, Accept(a) \/ Disconnect(a) \/ Receive(a) \/ Acquire(a)
      PROVE  Handing'
  <2>1. /\ UNCHANGED <<fileVars, handed>>
        /\ pc[a] \notin Holding /\ pc'[a] \notin {"reopen", "handoff"}
        /\ \A b \in Agents : b # a => pc'[b] = pc[b]
    BY <1>1, <1>t, <1>h DEF Accept, Disconnect, Receive, Acquire, Goto, TypeOK, Holding
  <2> QED
    BY <2>1, <1>t, <1>i, <1>h, <1>s, HandingUntouched DEF fileVars
<1>2. ASSUME NEW a \in Agents, Locked(a) PROVE Handing'
  <2>o. \A b \in Agents : b # a => pc'[b] = pc[b] /\ pc[b] \notin Holding
    BY <1>2, <1>t, OnlyTheHolderMoves
  <2>m. \A place \in {"none", "recv"} \cup Holding : Goto(a, place) => pc'[a] = place
    BY <1>t, <1>h DEF Goto, TypeOK
  <2>1. CASE OpenFirstFile(a)
    <3>1. /\ handle = "none" /\ OpenNewFile /\ handed' = handed /\ completed' = completed
          /\ pc[a] = "locked" /\ pc' = pc
      BY <2>1, <1>f DEF OpenFirstFile
    <3> QED
      BY <1>t, <1>i, <1>h, <2>o, <3>1, OpeningInOrder
  <2>2. CASE CloseCompleted(a)
    <3>1. /\ handle # "none" /\ completed' = path /\ pc[a] = "locked"
          /\ pc'[a] \in {"reopen", "none"} /\ UNCHANGED <<path, handed>>
          /\ (FlushFails \/ files' = files)
      BY <1>t, <2>2, ClosingMoves
    <3>2. \A b \in Agents : pc[b] # "handoff" /\ pc'[b] # "handoff"
      BY <2>o, <1>h, <3>1
    <3>3. /\ files # <<>> /\ Len(files') = Len(files) /\ files' # <<>>
          /\ \A i \in 1 .. Len(files) : files'[i].name = files[i].name
      BY <1>t, <3>1, FilesStay DEF FileIsNamed
    <3>4. /\ Rest = 1 /\ Rest' = 1
          /\ Len(files) \in 1 .. Len(files) /\ Len(files)' \in 1 .. Len(files)
          /\ Len(files) \in Nat /\ Len(handed) \in Nat
      BY <1>t, <3>2, <3>3 DEF Rest, TypeOK
    <3>5. /\ path = files[Len(files)].name /\ Len(handed) = Len(files) - 1
          /\ \A i \in 1 .. Len(handed) : handed[i] = files[i].name
      BY <1>i, <3>3, <3>4 DEF Handing
    <3>6. /\ path' = files'[Len(files')].name /\ Len(handed') = Len(files') - Rest'
          /\ \A i \in 1 .. Len(handed') : handed'[i] = files'[i].name
      BY <3>1, <3>3, <3>4, <3>5
    <3> QED
      BY <3>1, <3>2, <3>3, <3>6 DEF Handing
  <2>3. CASE Reopen(a)
    <3>1. /\ OpenNewFile /\ handed' = handed /\ completed' = completed
          /\ pc[a] = "reopen" /\ pc'[a] = "handoff"
      BY <2>3, <2>m, <1>f, <1>h DEF Reopen
    <3>2. handle # "none" /\ completed = path
      BY <1>t, <1>i, <3>1 DEF Rotating, Handing
    <3> QED
      BY <1>t, <1>i, <1>h, <2>o, <3>1, <3>2, OpeningInOrder
  <2>4. CASE HandOff(a)
    <3>1. /\ handed' = Append(handed, completed) /\ UNCHANGED fileVars
          /\ pc[a] = "handoff" /\ pc'[a] = "write"
      BY <2>4, <2>m, <1>h DEF HandOff
    <3>2. /\ Len(files) > 1 /\ completed = files[Len(files) - 1].name
          /\ files # <<>> /\ Rest = 2
      BY <1>i, <1>t, <3>1 DEF Handing, Rest, Rotating, FileIsNamed
    <3>3. \A b \in Agents : pc'[b] \notin {"reopen", "handoff"}
      BY <2>o, <1>h, <3>1
    <3>4. Rest' = 1
      BY <3>3 DEF Rest
    <3>5. /\ Len(handed) = Len(files) - 2 /\ Len(handed) \in Nat /\ Len(files) \in Nat
          /\ \A i \in 1 .. Len(handed) : handed[i] = files[i].name
      BY <1>i, <1>t, <3>2 DEF Handing, TypeOK
    <3>6. /\ Len(handed') = Len(handed) + 1
          /\ handed'[Len(handed) + 1] = completed
          /\ \A i \in 1 .. Len(handed) : handed'[i] = handed[i]
      <4>1. handed \in Seq(Paths) /\ completed \in Paths
        BY <1>t, <3>1 DEF Rotating, TypeOK
      <4> QED
        BY <3>1, <4>1
    <3>7. \A i \in 1 .. Len(handed') : handed'[i] = files[i].name
      BY <3>2, <3>5, <3>6
    <3>8. files' = files /\ path' = path /\ path = files[Len(files)].name
      BY <1>i, <3>1, <3>2 DEF fileVars, Handing
    <3> QED
      BY <3>2, <3>3, <3>4, <3>5, <3>6, <3>7, <3>8 DEF Handing
  <2>5. CASE KeepFile(a) \/ Write(a)
    <3>1. /\ UNCHANGED <<path, completed, handed>> /\ (Write(a) \/ files' = files)
          /\ pc[a] \in {"locked", "write"} /\ pc'[a] \in {"write", "none", "recv"}
      BY <2>5, <2>m, <1>h DEF KeepFile, Write, WriteFails, WriteRefused, Abandon, fileVars
    <3>2. /\ Len(files') = Len(files) /\ (files' = <<>> <=> files = <<>>)
          /\ \A i \in 1 .. Len(files) : files'[i].name = files[i].name
      BY <1>t, <3>1, FilesStay
    <3> QED
      BY <1>t, <1>i, <2>o, <3>1, <3>2, HandingUntouched
  <2> QED
    BY <1>2, <2>1, <2>2, <2>3, <2>4, <2>5 DEF Locked
<1>3. CASE Stop \/ Close \/ Exit \/ Tick \/ TurnBack \/ Exited \/ UNCHANGED vars
  <2>1. UNCHANGED <<path, completed, handed>> /\ pc' = pc /\ (FlushFails \/ files' = files)
    BY <1>3 DEF Stop, Close, Exit, Tick, TurnBack, Exited, vars, fileVars
  <2>2. /\ Len(files') = Len(files) /\ (files' = <<>> <=> files = <<>>)
        /\ \A i \in 1 .. Len(files) : files'[i].name = files[i].name
    BY <1>t, <2>1, FilesStay
  <2>3. \A a \in Agents : /\ pc'[a] = "reopen" => pc[a] = "reopen"
                         /\ pc'[a] = "handoff" <=> pc[a] = "handoff"
    BY <2>1
  <2> QED
    BY <1>i, <1>t, <1>z, <2>1, <2>2, <2>3, HandingUntouched
<1> QED
  BY <1>z, <1>1, <1>2, <1>3 DEF Next

LEMMA ClocksStep ==
  ASSUME IInv, [Next]_vars, turned' = 0
  PROVE  turned = 0 /\ ClocksAgree'
<1>t. StateOK /\ TypeOK /\ LockIsHeld /\ FileIsNamed /\ Rotating
  BY DEF IInv, StateOK
<1>n. /\ now \in Nat /\ startTime \in Nat /\ Rotation \in Nat \ {0} /\ Nobody \notin Agents
      /\ turned \in Nat /\ Len(files) \in Nat /\ MaxTime \in Nat
  BY <1>t, BoundsAssumption, ThreadsAssumption DEF TypeOK
<1>h. {"locked", "reopen", "handoff", "write"} = Holding
  BY DEF Holding
<1>f. ~TurnBack
  BY <1>n DEF TurnBack
<1>z. turned = 0
  BY <1>f DEF Next, Locked, Accept, Receive, Disconnect, Acquire, OpenFirstFile,
     CloseCompleted, Reopen, HandOff, KeepFile, Write, Stop, Close, Exit, Tick,
     Exited, vars, clockVars
<1>i. ClocksAgree
  BY <1>z DEF IInv
<1>p. \A i \in 1 .. Len(files) : files[i].name \in Nat
  <2>1. \A i \in 1 .. Len(files) : files[i] \in File
    BY <1>t DEF TypeOK
  <2> QED
    BY <2>1 DEF File, Paths
<1>u. ASSUME UNCHANGED <<now, local, startTime>>, Len(files') = Len(files),
             \A i \in 1 .. Len(files) : files'[i].name = files[i].name,
             \A b \in Agents : pc'[b] = "reopen" => pc[b] = "reopen" \/ startTime < now
      PROVE  ClocksAgree'
  BY <1>i, <1>u DEF ClocksAgree
<1>o. ASSUME OpenNewFile, UNCHANGED clockVars, handle = "none" \/ startTime < now,
             \A b \in Agents : pc'[b] # "reopen"
      PROVE  ClocksAgree'
  <2>1. /\ Len(files') = Len(files) + 1 /\ files'[Len(files) + 1].name = local
        /\ \A i \in 1 .. Len(files) : files'[i].name = files[i].name
    BY <1>o, <1>t, OpeningAdds
  <2>2. startTime' = now /\ now' = now /\ local' = local /\ local = now
    BY <1>o, <1>i DEF OpenNewFile, clockVars, ClocksAgree
  <2>3. \A i \in 1 .. Len(files) : files[i].name <= now
    BY <1>i, <1>n, <1>p DEF ClocksAgree
  <2>4. \A i \in 1 .. Len(files') : files'[i].name <= startTime'
    BY <1>n, <2>1, <2>2, <2>3
  <2> QED
    BY <1>o, <1>n, <2>2, <2>4 DEF ClocksAgree
<1>1. ASSUME NEW a \in Agents, Accept(a) \/ Disconnect(a) \/ Receive(a) \/ Acquire(a)
      PROVE  ClocksAgree'
  <2>1. /\ UNCHANGED <<fileVars, clockVars>> /\ pc'[a] # "reopen"
        /\ \A b \in Agents : b # a => pc'[b] = pc[b]
    BY <1>1, <1>t DEF Accept, Disconnect, Receive, Acquire, Goto, TypeOK
  <2> QED
    BY <1>u, <2>1 DEF fileVars, clockVars
<1>2. ASSUME NEW a \in Agents, Locked(a) PROVE ClocksAgree'
  <2>o. \A b \in Agents : b # a => pc'[b] = pc[b] /\ pc[b] \notin Holding
    BY <1>2, <1>t, OnlyTheHolderMoves
  <2>m. \A place \in {"none", "recv"} \cup Holding : Goto(a, place) => pc'[a] = place
    BY <1>t, <1>h DEF Goto, TypeOK
  <2>1. CASE OpenFirstFile(a) \/ Reopen(a)
    <3>1. /\ UNCHANGED clockVars /\ pc'[a] # "reopen" /\ (OpenNewFile \/ OpenFails)
          /\ handle = "none" \/ pc[a] = "reopen"
      BY <2>1, <2>m, <1>h DEF OpenFirstFile, Reopen, Abandon
    <3>2. \A b \in Agents : pc'[b] # "reopen"
      BY <2>o, <1>h, <3>1
    <3>3. CASE OpenNewFile
      <4>1. handle = "none" \/ startTime < now
        BY <1>i, <3>1 DEF ClocksAgree
      <4> QED
        BY <1>o, <3>1, <3>2, <3>3, <4>1
    <3>4. CASE OpenFails
      <4>1. files' = files /\ startTime' = startTime
        BY <3>4 DEF OpenFails
      <4> QED
        BY <1>u, <3>1, <3>2, <4>1 DEF clockVars
    <3> QED
      BY <3>1, <3>3, <3>4
  <2>2. CASE CloseCompleted(a)
    <3>1. /\ ShouldRotate /\ UNCHANGED <<clockVars, startTime>>
          /\ (FlushFails \/ files' = files)
      BY <1>t, <2>2, ClosingMoves
    <3>2. startTime < now
      BY <1>n, <3>1 DEF ShouldRotate
    <3>3. Len(files') = Len(files) /\ \A i \in 1 .. Len(files) : files'[i].name = files[i].name
      BY <1>t, <3>1, FilesStay
    <3> QED
      BY <1>u, <3>1, <3>2, <3>3 DEF clockVars
  <2>3. CASE HandOff(a) \/ KeepFile(a)
    <3>1. UNCHANGED <<fileVars, clockVars>> /\ pc'[a] = "write"
      BY <2>3, <2>m, <1>h DEF HandOff, KeepFile
    <3> QED
      BY <1>u, <2>o, <3>1 DEF fileVars, clockVars
  <2>4. CASE Write(a)
    <3>1. UNCHANGED <<clockVars, startTime>> /\ pc'[a] \in {"none", "recv"}
      BY <2>4, <2>m DEF Write, WriteFails, WriteRefused, Abandon
    <3>2. Len(files') = Len(files) /\ \A i \in 1 .. Len(files) : files'[i].name = files[i].name
      BY <1>t, <2>4, FilesStay
    <3> QED
      BY <1>u, <2>o, <3>1, <3>2 DEF clockVars
  <2> QED
    BY <1>2, <2>1, <2>2, <2>3, <2>4 DEF Locked
<1>3. CASE Tick
  <2>1. now' = now + 1 /\ local' = local + 1 /\ UNCHANGED <<pc, files, startTime>>
    BY <1>3 DEF Tick, fileVars
  <2>2. startTime <= now + 1 /\ startTime < now + 1
    BY <1>i, <1>n DEF ClocksAgree
  <2>3. local' = now' /\ startTime' <= now'
    BY <1>i, <2>1, <2>2 DEF ClocksAgree
  <2>4. \A i \in 1 .. Len(files') : files'[i].name <= startTime'
    BY <1>i, <2>1 DEF ClocksAgree
  <2>5. \A b \in Agents : pc'[b] = "reopen" => startTime' < now'
    BY <2>1, <2>2
  <2> QED
    BY <1>z, <2>3, <2>4, <2>5 DEF ClocksAgree
<1>4. CASE Stop \/ Close \/ Exit \/ Exited \/ UNCHANGED vars
  <2>1. UNCHANGED <<clockVars, startTime>> /\ pc' = pc /\ (FlushFails \/ files' = files)
    BY <1>4 DEF Stop, Close, Exit, Exited, vars, fileVars, clockVars
  <2>2. Len(files') = Len(files) /\ \A i \in 1 .. Len(files) : files'[i].name = files[i].name
    BY <1>t, <2>1, FilesStay
  <2> QED
    BY <1>u, <2>1, <2>2 DEF clockVars
<1> QED
  BY <1>z, <1>f, <1>1, <1>2, <1>3, <1>4 DEF Next

(* The files' order is kept together with the lock and the clocks. *)
LEMMA OrderStep == IInv /\ [Next]_vars => IInv'
  BY TypesStep, LockStep, NamesStep, HandingStep, ClocksStep DEF IInv, StateOK

LEMMA StartsInOrder == Init => IInv
<1> SUFFICES ASSUME Init PROVE StateOK /\ Handing /\ ClocksAgree
  BY DEF IInv
<1>1. StateOK
  BY Start
<1>2. \A a \in Agents : pc[a] = "none"
  BY DEF Init
<1>3. Handing
  BY <1>2 DEF Init, Handing
<1>4. ClocksAgree
  BY <1>2 DEF Init, ClocksAgree
<1> QED
  BY <1>1, <1>3, <1>4

LEMMA CaptureInvariant == Spec => []IInv
  BY StartsInOrder, OrderStep, PTL DEF Spec

(* As long as files can be opened, each file but the current one goes to   *)
(* the pipeline once, in the order of opening: _rotate hands over what it  *)
(* has closed, and what a failing flush leaves to the next writer is       *)
(* handed over by that one.                                                *)
THEOREM FinishedAreHanded == Spec => []FinishedFilesAreHanded
<1>1. IInv => FinishedFilesAreHanded
  <2> SUFFICES ASSUME IInv, openFailures = 0, files # <<>>
               PROVE  /\ Len(handed) = Len(files) - Rest
                      /\ \A i \in DOMAIN handed : handed[i] = files[i].name
    BY DEF FinishedFilesAreHanded, Rest
  <2>1. Handing /\ DOMAIN handed = 1 .. Len(handed)
    BY DEF IInv, StateOK, TypeOK
  <2> QED
    BY <2>1 DEF Handing
<1> QED
  BY <1>1, CaptureInvariant, PTL

(* A file in the pipeline's hands is complete: only the current file is    *)
(* written or flushed, and opening one truncates no other.                 *)
THEOREM HandedAreFrozen == Spec => HandedFilesAreFrozen
<1> DEFINE Frozen ==
      openFailures' = 0 /\ turned' = 0 =>
        \A i \in DOMAIN handed : files[i].name = handed[i] /\ files'[i] = files[i]
<1>1. IInv /\ [Next]_vars => [Frozen]_vars
  <2> SUFFICES ASSUME IInv, [Next]_vars, openFailures' = 0, turned' = 0,
                      NEW i \in DOMAIN handed
               PROVE  files[i].name = handed[i] /\ files'[i] = files[i]
    OBVIOUS
  <2>t. /\ StateOK /\ TypeOK /\ FileIsNamed /\ Rotating
        /\ DOMAIN handed = 1 .. Len(handed) /\ Len(handed) \in Nat /\ Len(files) \in Nat
    BY DEF IInv, StateOK, TypeOK
  <2>1. Handing /\ ClocksAgree
    BY HandingStep, ClocksStep DEF IInv
  <2>2. files # <<>>
    BY <2>1, <2>t DEF Handing
  <2>3. Rest \in {1, 2} /\ Len(handed) = Len(files) - Rest
    BY <2>1, <2>2 DEF Handing, Rest
  <2>4. i \in 1 .. Len(files) /\ i # Len(files) /\ files[i].name = handed[i]
    BY <2>1, <2>2, <2>3, <2>t DEF Handing
  <2>5. CASE \/ FlushFails
             \/ \E a \in Agents : Write(a)
             \/ files' = files
    BY <2>4, <2>5, <2>t, FilesStay
  <2>6. CASE ~(\/ FlushFails
               \/ \E a \in Agents : Write(a)
               \/ files' = files)
    <3>1. PICK a \in Agents : (OpenFirstFile(a) \/ Reopen(a)) /\ OpenNewFile
      BY <2>6 DEF Next, Locked, Accept, Receive, Disconnect, Acquire, CloseCompleted,
         OpenFirstFile, Reopen, OpenFails, HandOff, KeepFile, Stop, Close, Exit, Tick,
         TurnBack, Exited, vars, fileVars
    <3>2. handle # "none"
      BY <2>2, <2>t DEF FileIsNamed
    <3>3. startTime < now /\ local = now
      BY <2>1, <3>1, <3>2 DEF OpenFirstFile, Reopen, ClocksAgree
    <3>4. files[i].name \in Nat /\ startTime \in Nat /\ now \in Nat
      <4>1. files[i] \in File
        BY <2>4, <2>t DEF TypeOK
      <4> QED
        BY <4>1, <2>t, BoundsAssumption DEF File, Paths, TypeOK
    <3>5. files[i].name # local
      BY <2>1, <2>4, <3>3, <3>4 DEF ClocksAgree
    <3> QED
      BY <2>4, <2>t, <3>1, <3>5, OpeningAdds
  <2> QED
    BY <2>5, <2>6
<1> QED
  BY <1>1, CaptureInvariant, PTL DEF Spec, HandedFilesAreFrozen
-----------------------------------------------------------------------------
(* Places in order.  Before(T, x) are the places of T before x; the n-th   *)
(* of T has n - 1 before it.                                               *)
Before(T, x) == {y \in T : Earlier(y, x)}

AtPlace(T, n) == {x \in T : Cardinality(Before(T, x)) = n - 1}

ArePlaces(T) == \A x \in T : x[1] \in Nat /\ x[2] \in Nat /\ x = <<x[1], x[2]>>

LEMMA RanksAscend ==
  ASSUME NEW T, IsFiniteSet(T), ArePlaces(T), NEW x \in T
  PROVE  /\ Cardinality(Before(T, x)) \in Nat
         /\ Cardinality(Before(T, x)) < Cardinality(T)
         /\ \A y \in T : Earlier(x, y) =>
              Cardinality(Before(T, x)) < Cardinality(Before(T, y))
<1>1. ~Earlier(x, x)
  BY DEF ArePlaces, Earlier
<1>2. IsFiniteSet(T \ {x}) /\ Cardinality(T \ {x}) = Cardinality(T) - 1
  BY FS_RemoveElement
<1>3. Before(T, x) \in SUBSET (T \ {x})
  BY <1>1 DEF Before
<1>4. IsFiniteSet(Before(T, x)) /\ Cardinality(Before(T, x)) <= Cardinality(T \ {x})
  BY <1>2, <1>3, FS_Subset
<1>5. /\ Cardinality(Before(T, x)) \in Nat /\ Cardinality(T) \in Nat
      /\ Cardinality(Before(T, x)) < Cardinality(T)
  <2>1. Cardinality(Before(T, x)) \in Nat /\ Cardinality(T) \in Nat
    BY <1>4, FS_CardinalityType
  <2> QED
    BY <1>2, <1>4, <2>1
<1>6. ASSUME NEW y \in T, Earlier(x, y)
      PROVE  Cardinality(Before(T, x)) < Cardinality(Before(T, y))
  <2>1. Before(T, y) \in SUBSET T /\ x \in Before(T, y)
    BY <1>6 DEF Before
  <2>2. IsFiniteSet(Before(T, y)) /\ Cardinality(Before(T, y)) \in Nat
    <3>1. IsFiniteSet(Before(T, y))
      BY <2>1, FS_Subset
    <3> QED
      BY <3>1, FS_CardinalityType
  <2>3. /\ IsFiniteSet(Before(T, y) \ {x})
        /\ Cardinality(Before(T, y) \ {x}) = Cardinality(Before(T, y)) - 1
    BY <2>1, <2>2, FS_RemoveElement
  <2>4. \A z \in T : Earlier(z, x) => Earlier(z, y)
    BY <1>6 DEF ArePlaces, Earlier
  <2>5. Before(T, x) \in SUBSET (Before(T, y) \ {x})
    BY <1>1, <2>4 DEF Before
  <2>6. Cardinality(Before(T, x)) <= Cardinality(Before(T, y) \ {x})
    BY <2>3, <2>5, FS_Subset
  <2> QED
    BY <1>5, <2>2, <2>3, <2>6
<1> QED
  BY <1>5, <1>6

(* Each number up to how many there are is that of one place. *)
LEMMA RanksCover ==
  ASSUME NEW T, IsFiniteSet(T), ArePlaces(T)
  PROVE  /\ Cardinality(T) \in Nat
         /\ \A x \in T : \E n \in 1 .. Cardinality(T) : AtPlace(T, n) = {x}
         /\ \A n \in 1 .. Cardinality(T) : \E x \in T : AtPlace(T, n) = {x}
<1> DEFINE N == Cardinality(T)
           rank == [x \in T |-> Cardinality(Before(T, x)) + 1]
<1>1. N \in Nat
  BY FS_CardinalityType
<1>2. \A x \in T : rank[x] \in 1 .. N
  <2> SUFFICES ASSUME NEW x \in T PROVE rank[x] \in 1 .. N
    OBVIOUS
  <2>1. Cardinality(Before(T, x)) \in Nat /\ Cardinality(Before(T, x)) < N
    BY RanksAscend
  <2> HIDE DEF N
  <2> QED
    BY <1>1, <2>1
<1>3. ASSUME NEW x \in T, NEW y \in T, rank[x] = rank[y] PROVE x = y
  <2>1. /\ Cardinality(Before(T, x)) \in Nat /\ Cardinality(Before(T, y)) \in Nat
        /\ Earlier(x, y) => Cardinality(Before(T, x)) < Cardinality(Before(T, y))
        /\ Earlier(y, x) => Cardinality(Before(T, y)) < Cardinality(Before(T, x))
    BY RanksAscend
  <2>2. Cardinality(Before(T, x)) = Cardinality(Before(T, y))
    BY <1>3, <2>1
  <2>3. ~Earlier(x, y) /\ ~Earlier(y, x)
    BY <2>1, <2>2
  <2>4. x = <<x[1], x[2]>> /\ y = <<y[1], y[2]>> /\ x[1] = y[1] /\ x[2] = y[2]
    BY <2>3 DEF ArePlaces, Earlier
  <2> QED
    BY <2>4
<1>4. \A x \in T : \A n : n \in 1 .. N /\ x \in AtPlace(T, n) <=> n = rank[x]
  <2> SUFFICES ASSUME NEW x \in T, NEW n PROVE n \in 1 .. N /\ x \in AtPlace(T, n) <=> n = rank[x]
    OBVIOUS
  <2>1. rank[x] = Cardinality(Before(T, x)) + 1 /\ rank[x] \in 1 .. N
    BY <1>2
  <2>2. Cardinality(Before(T, x)) \in Nat
    BY RanksAscend
  <2> HIDE DEF rank, N
  <2> QED
    BY <1>1, <2>1, <2>2 DEF AtPlace
<1>5. rank \in Injection(T, 1 .. N)
  BY <1>2, <1>3 DEF Injection, IsInjective
<1>6. rank \in Surjection(T, 1 .. N)
  <2>1. IsFiniteSet(1 .. N) /\ Cardinality(1 .. N) = N
    BY <1>1, FS_Interval
  <2> HIDE DEF rank
  <2> QED
    BY <1>5, <2>1, FS_Injection
<1>7. \A n \in 1 .. N : \E x \in T : rank[x] = n
  BY <1>6 DEF Surjection
<1>8. ASSUME NEW x \in T PROVE AtPlace(T, rank[x]) = {x}
  <2>1. \A y \in AtPlace(T, rank[x]) : y \in T
    BY DEF AtPlace
  <2>2. rank[x] \in 1 .. N
    BY <1>2
  <2> HIDE DEF rank, N
  <2> QED
    BY <1>3, <1>4, <2>1, <2>2
<1> HIDE DEF rank, N
<1>9. \A n \in 1 .. N : \E x \in T : AtPlace(T, n) = {x}
  BY <1>7, <1>8
<1>10. \A x \in T : \E n \in 1 .. N : AtPlace(T, n) = {x}
  BY <1>2, <1>8
<1> QED
  BY <1>1, <1>9, <1>10 DEF N

(* A place after all the others gets the next number, and the others keep  *)
(* theirs.                                                                 *)
LEMMA LastPlace ==
  ASSUME NEW T, IsFiniteSet(T), NEW z, z \notin T, ~Earlier(z, z),
         \A x \in T : Earlier(x, z) /\ ~Earlier(z, x) /\ ~Earlier(x, x)
  PROVE  /\ IsFiniteSet(T \cup {z}) /\ Cardinality(T \cup {z}) = Cardinality(T) + 1
         /\ Cardinality(T) \in Nat
         /\ \A n \in 1 .. Cardinality(T) : AtPlace(T \cup {z}, n) = AtPlace(T, n)
         /\ AtPlace(T \cup {z}, Cardinality(T) + 1) = {z}
<1> DEFINE U == T \cup {z}
           N == Cardinality(T)
<1>1. IsFiniteSet(U) /\ Cardinality(U) = N + 1 /\ N \in Nat
  BY FS_AddElement, FS_CardinalityType
<1>2. Before(U, z) = T /\ \A x \in T : Before(U, x) = Before(T, x)
  BY DEF Before
<1>3. ASSUME NEW x \in T PROVE Cardinality(Before(U, x)) \in Nat /\ Cardinality(Before(U, x)) < N
  <2>1. Before(U, x) \subseteq T \ {x}
    BY <1>2 DEF Before
  <2>2. IsFiniteSet(T \ {x}) /\ Cardinality(T \ {x}) = N - 1
    BY FS_RemoveElement
  <2>3. /\ IsFiniteSet(Before(U, x))
        /\ Cardinality(Before(U, x)) <= Cardinality(T \ {x})
    BY <2>1, <2>2, FS_Subset
  <2>4. Cardinality(Before(U, x)) \in Nat
    BY <2>3, FS_CardinalityType
  <2> QED
    BY <1>1, <2>2, <2>3, <2>4
<1>4. ASSUME NEW n \in 1 .. N PROVE AtPlace(U, n) = AtPlace(T, n)
  <2>1. Cardinality(Before(U, z)) # n - 1
    BY <1>1, <1>2
  <2> QED
    BY <1>2, <2>1 DEF AtPlace
<1>5. AtPlace(U, N + 1) = {z}
  <2>1. \A x \in T : Cardinality(Before(U, x)) # (N + 1) - 1
    BY <1>1, <1>3
  <2>2. Cardinality(Before(U, z)) = (N + 1) - 1
    BY <1>1, <1>2
  <2> QED
    BY <2>1, <2>2 DEF AtPlace
<1> QED
  BY <1>1, <1>4, <1>5

LEMMA NthIsAtPlace ==
  ASSUME NEW T, IsFiniteSet(T), ArePlaces(T), NEW n \in 1 .. Cardinality(T)
  PROVE  Nth(T, n) \in T /\ AtPlace(T, n) = {Nth(T, n)}
<1>1. PICK x \in T : AtPlace(T, n) = {x}
  BY RanksCover
<1>2. \E y \in T : Cardinality({z \in T : Earlier(z, y)}) = n - 1
  BY <1>1 DEF AtPlace, Before
<1>3. Nth(T, n) \in T /\ Cardinality({z \in T : Earlier(z, Nth(T, n))}) = n - 1
  BY <1>2 DEF Nth
<1>4. Nth(T, n) \in AtPlace(T, n)
  BY <1>3 DEF AtPlace, Before
<1> QED
  BY <1>1, <1>3, <1>4
-----------------------------------------------------------------------------
(* The places of an agent's packets in a sequence of files, spelled out.   *)
Number(fs, x) == fs[x[1]].packets[x[2]][2]

LEMMA FilesForm ==
  ASSUME NEW fs \in Seq(File)
  PROVE  /\ Len(fs) \in Nat /\ DOMAIN fs = 1 .. Len(fs)
         /\ \A f \in DOMAIN fs : fs[f].packets \in Seq(Packets)
         /\ \A f \in DOMAIN fs : \A i \in DOMAIN fs[f].packets :
              /\ f \in Nat /\ i \in Nat /\ fs[f].packets[i][2] \in Nat
<1>1. Len(fs) \in Nat /\ DOMAIN fs = 1 .. Len(fs)
  OBVIOUS
<1>2. \A f \in DOMAIN fs : fs[f].packets \in Seq(Packets)
  <2>1. \A f \in DOMAIN fs : fs[f] \in File
    BY <1>1
  <2> QED
    BY <2>1 DEF File
<1>3. ASSUME NEW f \in DOMAIN fs, NEW i \in DOMAIN fs[f].packets
      PROVE  f \in Nat /\ i \in Nat /\ fs[f].packets[i][2] \in Nat
  <2>1. fs[f].packets \in Seq(Packets)
    BY <1>2
  <2>2. i \in Nat /\ fs[f].packets[i] \in Packets
    BY <2>1
  <2>3. \A p \in Packets : p[2] \in Nat
    BY DEF Packets
  <2> QED
    BY <1>1, <2>2, <2>3
<1> QED
  BY <1>1, <1>2, <1>3

LEMMA PlacesForm ==
  ASSUME NEW fs \in Seq(File), NEW a \in Agents
  PROVE  /\ \A x \in Places(fs, a) :
              /\ x[1] \in DOMAIN fs /\ x[2] \in DOMAIN fs[x[1]].packets
              /\ fs[x[1]].packets[x[2]][1] = a /\ Number(fs, x) \in Nat
         /\ \A f \in DOMAIN fs : \A i \in DOMAIN fs[f].packets :
              fs[f].packets[i][1] = a => <<f, i>> \in Places(fs, a)
         /\ ArePlaces(Places(fs, a)) /\ IsFiniteSet(Places(fs, a))
<1> DEFINE In(f) == {<<f, i>> : i \in {j \in DOMAIN fs[f].packets : fs[f].packets[j][1] = a}}
           All == {In(f) : f \in DOMAIN fs}
<1>1. ASSUME NEW x \in Places(fs, a)
      PROVE  /\ x[1] \in DOMAIN fs /\ x[2] \in DOMAIN fs[x[1]].packets /\ x = <<x[1], x[2]>>
             /\ fs[x[1]].packets[x[2]][1] = a /\ Number(fs, x) \in Nat
             /\ x[1] \in Nat /\ x[2] \in Nat
  <2>1. PICK f \in DOMAIN fs :
               \E i \in {j \in DOMAIN fs[f].packets : fs[f].packets[j][1] = a} : x = <<f, i>>
    BY <1>1 DEF Places
  <2>2. PICK i \in DOMAIN fs[f].packets : fs[f].packets[i][1] = a /\ x = <<f, i>>
    BY <2>1
  <2>3. f \in Nat /\ i \in Nat /\ fs[f].packets[i][2] \in Nat
    BY FilesForm
  <2>4. x[1] = f /\ x[2] = i
    BY <2>2
  <2> QED
    BY <2>2, <2>3, <2>4 DEF Number
<1>2. IsFiniteSet(Places(fs, a))
  <2>1. \A f \in DOMAIN fs : IsFiniteSet(In(f))
    <3> SUFFICES ASSUME NEW f \in DOMAIN fs PROVE IsFiniteSet(In(f))
      OBVIOUS
    <3>1. fs[f].packets \in Seq(Packets)
      BY FilesForm
    <3>2. DOMAIN fs[f].packets = 1 .. Len(fs[f].packets) /\ Len(fs[f].packets) \in Nat
      BY <3>1
    <3>3. IsFiniteSet(1 .. Len(fs[f].packets))
      BY <3>2, FS_Interval
    <3>4. IsFiniteSet({f})
      BY FS_Singleton
    <3>5. IsFiniteSet({f} \X (1 .. Len(fs[f].packets)))
      BY <3>3, <3>4, FS_Product
    <3>6. In(f) \in SUBSET ({f} \X (1 .. Len(fs[f].packets)))
      BY <3>2
    <3> HIDE DEF In
    <3> QED
      BY <3>5, <3>6, FS_Subset
  <2>2. IsFiniteSet(DOMAIN fs)
    BY FilesForm, FS_Interval
  <2> HIDE DEF In
  <2>3. IsFiniteSet(All)
    <3> DEFINE of == [f \in DOMAIN fs |-> In(f)]
    <3>1. of \in Surjection(DOMAIN fs, All)
      BY DEF Surjection
    <3> HIDE DEF of, All
    <3> QED
      BY <2>2, <3>1, FS_Surjection
  <2>4. \A T \in All : IsFiniteSet(T)
    BY <2>1
  <2> HIDE DEF All
  <2>5. IsFiniteSet(UNION All)
    BY <2>3, <2>4, FS_UNION
  <2>6. Places(fs, a) = UNION All
    BY DEF Places, All, In
  <2> QED
    BY <2>5, <2>6
<1>3. \A f \in DOMAIN fs : \A i \in DOMAIN fs[f].packets :
        fs[f].packets[i][1] = a => <<f, i>> \in Places(fs, a)
  BY DEF Places
<1> QED
  BY <1>1, <1>2, <1>3 DEF ArePlaces

(* The sequence of an agent's numbers, place by place. *)
LEMMA KeptForm ==
  ASSUME NEW fs \in Seq(File), NEW a \in Agents
  PROVE  /\ Kept(fs, a) \in Seq(Nat)
         /\ Cardinality(Places(fs, a)) \in Nat
         /\ Len(Kept(fs, a)) = Cardinality(Places(fs, a))
         /\ DOMAIN Kept(fs, a) = 1 .. Cardinality(Places(fs, a))
         /\ \A n \in 1 .. Cardinality(Places(fs, a)) :
              /\ Nth(Places(fs, a), n) \in Places(fs, a)
              /\ AtPlace(Places(fs, a), n) = {Nth(Places(fs, a), n)}
              /\ Kept(fs, a)[n] = Number(fs, Nth(Places(fs, a), n))
<1> DEFINE T == Places(fs, a)
           N == Cardinality(T)
<1>1. IsFiniteSet(T) /\ ArePlaces(T) /\ \A x \in T : Number(fs, x) \in Nat
  BY PlacesForm
<1>2. Kept(fs, a) = [n \in 1 .. N |-> Number(fs, Nth(T, n))]
  BY DEF Kept, Number
<1> HIDE DEF T
<1>3. N \in Nat
  BY <1>1, FS_CardinalityType
<1>4. \A n \in 1 .. N : Nth(T, n) \in T /\ AtPlace(T, n) = {Nth(T, n)}
  BY <1>1, NthIsAtPlace
<1>5. \A n \in 1 .. N : Number(fs, Nth(T, n)) \in Nat
  BY <1>1, <1>4
<1> HIDE DEF N
<1>6. /\ Kept(fs, a) \in Seq(Nat) /\ Len(Kept(fs, a)) = N /\ DOMAIN Kept(fs, a) = 1 .. N
      /\ \A n \in 1 .. N : Kept(fs, a)[n] = Number(fs, Nth(T, n))
  BY <1>2, <1>3, <1>5
<1> QED
  BY <1>3, <1>4, <1>6 DEF T, N

(* Files that hold no packet which others do not hold in the same place:   *)
(* what they keep of an agent is what is left of the others'.              *)
Within(gs, fs) ==
  \A f \in DOMAIN gs : \A i \in DOMAIN gs[f].packets :
    /\ f \in DOMAIN fs /\ i \in DOMAIN fs[f].packets
    /\ gs[f].packets[i] = fs[f].packets[i]

LEMMA PlacesWithin ==
  ASSUME NEW fs \in Seq(File), NEW gs \in Seq(File), Within(gs, fs), NEW a \in Agents
  PROVE  /\ Places(gs, a) \subseteq Places(fs, a)
         /\ \A x \in Places(gs, a) : Number(gs, x) = Number(fs, x)
<1> SUFFICES ASSUME NEW x \in Places(gs, a)
             PROVE  x \in Places(fs, a) /\ Number(gs, x) = Number(fs, x)
  OBVIOUS
<1>1. /\ x[1] \in DOMAIN gs /\ x[2] \in DOMAIN gs[x[1]].packets
      /\ gs[x[1]].packets[x[2]][1] = a /\ x = <<x[1], x[2]>>
  BY PlacesForm DEF ArePlaces
<1>2. /\ x[1] \in DOMAIN fs /\ x[2] \in DOMAIN fs[x[1]].packets
      /\ gs[x[1]].packets[x[2]] = fs[x[1]].packets[x[2]]
  BY <1>1 DEF Within
<1>3. <<x[1], x[2]>> \in Places(fs, a)
  BY <1>1, <1>2, PlacesForm
<1> QED
  BY <1>1, <1>2, <1>3 DEF Number

LEMMA WithinIsLeft ==
  ASSUME NEW fs \in Seq(File), NEW gs \in Seq(File), Within(gs, fs), NEW a \in Agents
  PROVE  Custody!IsLeftOf(Kept(gs, a), Kept(fs, a))
<1> DEFINE S == Places(fs, a)
           T == Places(gs, a)
           M == Cardinality(S)
           N == Cardinality(T)
           x(n) == Nth(T, n)
           at == [n \in 1 .. N |-> Cardinality(Before(S, x(n))) + 1]
<1>1. /\ IsFiniteSet(S) /\ ArePlaces(S) /\ IsFiniteSet(T) /\ ArePlaces(T) /\ T \subseteq S
      /\ \A y \in T : Number(gs, y) = Number(fs, y)
  BY PlacesForm, PlacesWithin
<1>2. /\ M \in Nat /\ N \in Nat /\ DOMAIN Kept(fs, a) = 1 .. M /\ DOMAIN Kept(gs, a) = 1 .. N
      /\ \A n \in 1 .. N : /\ x(n) \in T /\ AtPlace(T, n) = {x(n)}
                           /\ Kept(gs, a)[n] = Number(gs, x(n))
      /\ \A m \in 1 .. M : /\ AtPlace(S, m) = {Nth(S, m)}
                           /\ Kept(fs, a)[m] = Number(fs, Nth(S, m))
  BY KeptForm
<1> HIDE DEF S, T, M, N, x
<1>3. ASSUME NEW n \in 1 .. N
      PROVE  /\ at[n] \in 1 .. M /\ x(n) \in AtPlace(S, at[n])
             /\ x(n) \in T /\ Cardinality(Before(T, x(n))) = n - 1
  <2>1. x(n) \in S /\ x(n) \in T /\ x(n) \in AtPlace(T, n)
    BY <1>1, <1>2
  <2>2. Cardinality(Before(S, x(n))) \in Nat /\ Cardinality(Before(S, x(n))) < M
    BY <1>1, <2>1, RanksAscend DEF M
  <2>3. at[n] = Cardinality(Before(S, x(n))) + 1
    OBVIOUS
  <2> HIDE DEF at
  <2>4. at[n] \in 1 .. M /\ at[n] - 1 = Cardinality(Before(S, x(n)))
    BY <1>2, <2>2, <2>3
  <2> QED
    BY <2>1, <2>4 DEF AtPlace
<1>4. ASSUME NEW i \in 1 .. N, NEW j \in 1 .. N, i < j PROVE at[i] < at[j]
  <2>1. /\ x(i) \in T /\ x(j) \in T /\ x(i) \in S /\ x(j) \in S
        /\ Cardinality(Before(T, x(i))) = i - 1 /\ Cardinality(Before(T, x(j))) = j - 1
    BY <1>1, <1>3
  <2>2. ~Earlier(x(j), x(i)) /\ x(i) # x(j)
    <3>1. Earlier(x(j), x(i)) => Cardinality(Before(T, x(j))) < Cardinality(Before(T, x(i)))
      BY <1>1, <2>1, RanksAscend
    <3> QED
      BY <1>2, <1>4, <2>1, <3>1
  <2>3. Earlier(x(i), x(j))
    BY <1>1, <2>1, <2>2 DEF ArePlaces, Earlier
  <2>4. /\ Cardinality(Before(S, x(i))) < Cardinality(Before(S, x(j)))
        /\ Cardinality(Before(S, x(i))) \in Nat /\ Cardinality(Before(S, x(j))) \in Nat
    BY <1>1, <2>1, <2>3, RanksAscend
  <2>5. at[i] = Cardinality(Before(S, x(i))) + 1 /\ at[j] = Cardinality(Before(S, x(j))) + 1
    OBVIOUS
  <2> HIDE DEF at
  <2> QED
    BY <2>4, <2>5
<1>5. at \in [1 .. N -> 1 .. M]
  BY <1>3
<1> HIDE DEF at
<1>6. ASSUME NEW n \in 1 .. N PROVE Kept(gs, a)[n] = Kept(fs, a)[at[n]]
  <2>1. at[n] \in 1 .. M /\ Nth(S, at[n]) = x(n)
    BY <1>2, <1>3
  <2> QED
    BY <1>1, <1>2, <1>3, <2>1
<1> QED
  BY <1>2, <1>4, <1>5, <1>6 DEF Custody!IsLeftOf

(* The same packets in the same places. *)
LEMMA SameIsKept ==
  ASSUME NEW fs \in Seq(File), NEW gs \in Seq(File), NEW a \in Agents,
         Places(gs, a) = Places(fs, a),
         \A x \in Places(fs, a) : Number(gs, x) = Number(fs, x)
  PROVE  Kept(gs, a) = Kept(fs, a)
<1>1. \A n \in 1 .. Cardinality(Places(fs, a)) : Nth(Places(fs, a), n) \in Places(fs, a)
  BY KeptForm
<1>2. /\ Kept(fs, a) = [n \in 1 .. Cardinality(Places(fs, a)) |->
                          Number(fs, Nth(Places(fs, a), n))]
      /\ Kept(gs, a) = [n \in 1 .. Cardinality(Places(fs, a)) |->
                          Number(gs, Nth(Places(fs, a), n))]
  BY DEF Kept, Number
<1> QED
  BY <1>1, <1>2

(* A packet written behind all others is kept behind the agent's others. *)
LEMMA WritingKeeps ==
  ASSUME NEW fs \in Seq(File), NEW gs \in Seq(File), fs # <<>>,
         NEW a \in Agents, NEW k \in 1 .. MaxPackets, Len(gs) = Len(fs),
         gs[Len(fs)].packets = Append(fs[Len(fs)].packets, <<a, k>>),
         \A i \in 1 .. Len(fs) : i # Len(fs) => gs[i] = fs[i]
  PROVE  /\ Kept(gs, a) = Append(Kept(fs, a), k)
         /\ \A b \in Agents : b # a => Kept(gs, b) = Kept(fs, b)
<1> DEFINE L == Len(fs)
           p == fs[L].packets
           z == <<L, Len(p) + 1>>
           T == Places(fs, a)
           N == Cardinality(T)
<1>1. /\ L \in Nat /\ L \in 1 .. L /\ DOMAIN fs = 1 .. L /\ DOMAIN gs = 1 .. L
      /\ p \in Seq(Packets) /\ Len(p) \in Nat /\ DOMAIN p = 1 .. Len(p)
  <2>1. /\ L \in Nat /\ L \in 1 .. L /\ DOMAIN fs = 1 .. L /\ DOMAIN gs = 1 .. L
    OBVIOUS
  <2>2. p \in Seq(Packets)
    BY <2>1, FilesForm
  <2>3. \A q \in Seq(Packets) : Len(q) \in Nat /\ DOMAIN q = 1 .. Len(q)
    OBVIOUS
  <2> HIDE DEF L, p
  <2> QED
    BY <2>1, <2>2, <2>3
<1>2. /\ DOMAIN gs[L].packets = 1 .. Len(p) + 1
      /\ gs[L].packets[Len(p) + 1] = <<a, k>>
      /\ \A i \in 1 .. Len(p) : gs[L].packets[i] = p[i]
  <2>1. <<a, k>> \in Packets
    BY DEF Packets
  <2> HIDE DEF L, p
  <2>2. gs[L].packets = Append(p, <<a, k>>)
    BY DEF L, p
  <2> QED
    BY <1>1, <2>1, <2>2
<1>3. \A f \in DOMAIN fs : f # L => gs[f] = fs[f]
  BY <1>1
<1> HIDE DEF L
<1>4. \A f \in DOMAIN fs : \A i \in DOMAIN fs[f].packets :
        i \in DOMAIN gs[f].packets /\ gs[f].packets[i] = fs[f].packets[i]
  <2> SUFFICES ASSUME NEW f \in DOMAIN fs, NEW i \in DOMAIN fs[f].packets
               PROVE  i \in DOMAIN gs[f].packets /\ gs[f].packets[i] = fs[f].packets[i]
    OBVIOUS
  <2>1. CASE f = L
    <3>1. i \in 1 .. Len(p) /\ i \in 1 .. Len(p) + 1
      BY <1>1, <2>1
    <3> QED
      BY <1>2, <2>1, <3>1
  <2>2. CASE f # L
    BY <1>3, <2>2
  <2> QED
    BY <2>1, <2>2
<1>5. \A f \in DOMAIN gs : \A i \in DOMAIN gs[f].packets :
        \/ f = L /\ i = Len(p) + 1
        \/ f \in DOMAIN fs /\ i \in DOMAIN fs[f].packets
  <2> SUFFICES ASSUME NEW f \in DOMAIN gs, NEW i \in DOMAIN gs[f].packets
               PROVE  \/ f = L /\ i = Len(p) + 1
                      \/ f \in DOMAIN fs /\ i \in DOMAIN fs[f].packets
    OBVIOUS
  <2>1. CASE f = L
    BY <1>1, <1>2, <2>1
  <2>2. CASE f # L
    BY <1>1, <1>3, <2>2
  <2> QED
    BY <2>1, <2>2
<1>6. ASSUME NEW b \in Agents
      PROVE  /\ Places(gs, b) = IF b = a THEN Places(fs, b) \cup {z} ELSE Places(fs, b)
             /\ \A x \in Places(fs, b) : Number(gs, x) = Number(fs, x)
  <2>1. ASSUME NEW x \in Places(fs, b) PROVE x \in Places(gs, b) /\ Number(gs, x) = Number(fs, x)
    <3>1. /\ x[1] \in DOMAIN fs /\ x[2] \in DOMAIN fs[x[1]].packets
          /\ fs[x[1]].packets[x[2]][1] = b /\ x = <<x[1], x[2]>>
      BY PlacesForm DEF ArePlaces
    <3>2. /\ x[2] \in DOMAIN gs[x[1]].packets
          /\ gs[x[1]].packets[x[2]] = fs[x[1]].packets[x[2]]
      BY <1>4, <3>1
    <3>3. <<x[1], x[2]>> \in Places(gs, b)
      BY <1>1, <3>1, <3>2, PlacesForm
    <3> QED
      BY <3>1, <3>2, <3>3 DEF Number
  <2>2. b = a => z \in Places(gs, b)
    <3>1. gs[L].packets[Len(p) + 1][1] = a /\ Len(p) + 1 \in DOMAIN gs[L].packets
      BY <1>1, <1>2
    <3>2. <<L, Len(p) + 1>> \in Places(gs, a)
      BY <1>1, <3>1, PlacesForm
    <3> QED
      BY <3>2
  <2>3. ASSUME NEW x \in Places(gs, b) PROVE x \in Places(fs, b) \/ (b = a /\ x = z)
    <3>1. /\ x[1] \in DOMAIN gs /\ x[2] \in DOMAIN gs[x[1]].packets
          /\ gs[x[1]].packets[x[2]][1] = b /\ x = <<x[1], x[2]>>
      BY PlacesForm DEF ArePlaces
    <3>2. CASE x[1] = L /\ x[2] = Len(p) + 1
      <4>1. gs[x[1]].packets[x[2]] = <<a, k>>
        BY <1>2, <3>2
      <4>2. <<a, k>>[1] = a
        OBVIOUS
      <4>3. b = a
        BY <3>1, <4>1, <4>2
      <4>4. x = <<L, Len(p) + 1>>
        BY <3>1, <3>2
      <4> QED
        BY <4>3, <4>4
    <3>3. CASE x[1] \in DOMAIN fs /\ x[2] \in DOMAIN fs[x[1]].packets
      <4>1. fs[x[1]].packets[x[2]][1] = b
        BY <1>4, <3>1, <3>3
      <4>2. <<x[1], x[2]>> \in Places(fs, b)
        BY <3>3, <4>1, PlacesForm
      <4> QED
        BY <3>1, <4>2
    <3> QED
      BY <1>5, <3>1, <3>2, <3>3
  <2> QED
    BY <2>1, <2>2, <2>3
<1>7. \A b \in Agents : b # a => Kept(gs, b) = Kept(fs, b)
  BY <1>6, SameIsKept
<1>8. /\ IsFiniteSet(T \cup {z}) /\ Cardinality(T \cup {z}) = N + 1 /\ N \in Nat
      /\ \A n \in 1 .. N : AtPlace(T \cup {z}, n) = AtPlace(T, n)
      /\ AtPlace(T \cup {z}, N + 1) = {z}
  <2>1. IsFiniteSet(T)
    BY PlacesForm
  <2>2. ASSUME NEW x \in T
        PROVE  /\ x[1] \in Nat /\ x[2] \in Nat /\ x[1] <= L
               /\ x[1] = L => x[2] <= Len(p)
    <3>1. /\ x[1] \in DOMAIN fs /\ x[2] \in DOMAIN fs[x[1]].packets
          /\ x[1] \in Nat /\ x[2] \in Nat
      BY PlacesForm DEF ArePlaces
    <3> QED
      BY <1>1, <3>1
  <2>3. z[1] = L /\ z[2] = Len(p) + 1
    OBVIOUS
  <2>4. z \notin T /\ ~Earlier(z, z)
    BY <1>1, <2>2, <2>3 DEF Earlier
  <2>5. \A x \in T : Earlier(x, z) /\ ~Earlier(z, x) /\ ~Earlier(x, x)
    BY <1>1, <2>2, <2>3 DEF Earlier
  <2> HIDE DEF z, T
  <2> QED
    BY <2>1, <2>4, <2>5, LastPlace
<1>9. Places(gs, a) = T \cup {z} /\ \A x \in T : Number(gs, x) = Number(fs, x)
  BY <1>6
<1>10. Number(gs, z) = k
  <2>1. z[1] = L /\ z[2] = Len(p) + 1 /\ <<a, k>>[2] = k
    OBVIOUS
  <2> HIDE DEF z
  <2> QED
    BY <1>2, <2>1 DEF Number
<1> DEFINE s == Kept(fs, a)
           t == Kept(gs, a)
<1>11. /\ s \in Seq(Nat) /\ Len(s) = N
       /\ \A n \in 1 .. N : /\ Nth(T, n) \in T /\ AtPlace(T, n) = {Nth(T, n)}
                            /\ s[n] = Number(fs, Nth(T, n))
  BY KeptForm
<1>12. /\ t \in Seq(Nat) /\ Len(t) = N + 1
       /\ \A n \in 1 .. N + 1 : /\ AtPlace(T \cup {z}, n) = {Nth(T \cup {z}, n)}
                                /\ t[n] = Number(gs, Nth(T \cup {z}, n))
  <2> DEFINE U == Places(gs, a)
  <2>1. /\ t \in Seq(Nat) /\ Len(t) = Cardinality(U)
        /\ \A n \in 1 .. Cardinality(U) : /\ AtPlace(U, n) = {Nth(U, n)}
                                         /\ t[n] = Number(gs, Nth(U, n))
    BY KeptForm
  <2>2. U = T \cup {z} /\ Cardinality(T \cup {z}) = N + 1
    BY <1>8, <1>9
  <2> HIDE DEF U, T, N, z, t
  <2> QED
    BY <2>1, <2>2
<1> HIDE DEF s, t, T, N, z
<1>13. ASSUME NEW n \in 1 .. N PROVE t[n] = s[n]
  <2>1. n \in 1 .. N + 1
    BY <1>8
  <2>2. {Nth(T \cup {z}, n)} = {Nth(T, n)}
    BY <1>8, <1>11, <1>12, <2>1
  <2>3. Nth(T \cup {z}, n) = Nth(T, n)
    BY <2>2
  <2> QED
    BY <1>9, <1>11, <1>12, <2>1, <2>3
<1>14. t[N + 1] = k
  <2>1. N + 1 \in 1 .. N + 1
    BY <1>8
  <2>2. {Nth(T \cup {z}, N + 1)} = {z}
    BY <1>8, <1>12, <2>1
  <2>3. Nth(T \cup {z}, N + 1) = z
    BY <2>2
  <2> QED
    BY <1>10, <1>12, <2>1, <2>3
<1>15. t = Append(s, k)
  <2>1. /\ Append(s, k) \in Seq(Nat) /\ Len(Append(s, k)) = N + 1
        /\ \A n \in 1 .. N : Append(s, k)[n] = s[n]
        /\ Append(s, k)[N + 1] = k
    BY <1>8, <1>11
  <2>2. \A n \in 1 .. N + 1 : t[n] = Append(s, k)[n]
    <3>1. \A n \in 1 .. N + 1 : n \in 1 .. N \/ n = N + 1
      BY <1>8
    <3> QED
      BY <1>13, <1>14, <2>1, <3>1
  <2>3. \A u, v \in Seq(Nat) : Len(u) = Len(v) /\ (\A n \in 1 .. Len(u) : u[n] = v[n]) => u = v
    <3>1. \A u \in Seq(Nat) : u = [n \in 1 .. Len(u) |-> u[n]]
      OBVIOUS
    <3> SUFFICES ASSUME NEW u \in Seq(Nat), NEW v \in Seq(Nat), Len(u) = Len(v),
                        \A n \in 1 .. Len(u) : u[n] = v[n]
                 PROVE  u = v
      OBVIOUS
    <3>2. [n \in 1 .. Len(u) |-> u[n]] = [n \in 1 .. Len(v) |-> v[n]]
      OBVIOUS
    <3> QED
      BY <3>1, <3>2, Zenon
  <2> QED
    BY <1>8, <1>12, <2>1, <2>2, <2>3
<1> QED
  BY <1>7, <1>15 DEF s, t
-----------------------------------------------------------------------------
(* What the refinement of PacketCustody needs besides: what keeps a packet *)
(* in hand out of the files, be it a closed file or a torn one, is a       *)
(* failure or close().                                                     *)
ClosedInRotation ==
  handle = "closed" => Impaired \/ \E a \in Agents : pc[a] = "reopen"

TornByFailure == torn => writeFailures > 0

KeepInv == IInv /\ ClosedInRotation /\ TornByFailure

LEMMA FailuresCount ==
  ASSUME TypeOK
  PROVE  /\ OpenFails => Impaired'
         /\ WriteFailure => writeFailures' > 0 /\ Impaired'
         /\ TurnBack => Impaired'
<1>1. openFailures \in Nat /\ writeFailures \in Nat /\ turned \in Nat
  BY BoundsAssumption DEF TypeOK
<1> QED
  BY <1>1 DEF OpenFails, WriteFailure, TurnBack, Impaired

LEMMA ImpairedStays == TypeOK /\ Impaired /\ [Next]_vars => Impaired'
<1> SUFFICES ASSUME TypeOK, Impaired, [Next]_vars PROVE Impaired'
  OBVIOUS
<1>1. ASSUME UNCHANGED <<turned, main, openFailures, writeFailures>> PROVE Impaired'
  BY <1>1 DEF Impaired
<1>2. ASSUME NEW a \in Agents, Accept(a) \/ Receive(a) \/ Disconnect(a) \/ Acquire(a)
      PROVE  Impaired'
  BY <1>1, <1>2 DEF Accept, Receive, Disconnect, Acquire, clockVars, failureVars
<1>3. ASSUME NEW a \in Agents, Locked(a) PROVE Impaired'
  <2>1. UNCHANGED <<turned, main>>
    BY <1>3 DEF Locked, OpenFirstFile, CloseCompleted, Reopen, HandOff, KeepFile, Write, clockVars
  <2>2. \/ OpenFails \/ WriteFailure
        \/ UNCHANGED <<openFailures, writeFailures>>
    BY <1>3 DEF Locked, OpenFirstFile, CloseCompleted, Reopen, HandOff, KeepFile, Write,
       OpenNewFile, FlushFails, WritePacket, WriteFails, WriteRefused, failureVars
  <2> QED
    BY <1>1, <2>1, <2>2, FailuresCount
<1>4. CASE Close
  BY <1>4 DEF Close, Impaired
<1>5. CASE Exit
  BY <1>5 DEF Exit, Impaired
<1>6. CASE Stop
  BY <1>6 DEF Stop, Impaired, clockVars, failureVars
<1>7. CASE TurnBack
  BY <1>7, FailuresCount
<1>8. CASE Tick \/ Exited \/ UNCHANGED vars
  BY <1>1, <1>8 DEF Tick, Exited, vars, failureVars
<1> QED
  BY <1>2, <1>3, <1>4, <1>5, <1>6, <1>7, <1>8 DEF Next

LEMMA TornStep == TypeOK /\ TornByFailure /\ [Next]_vars => TornByFailure'
<1> SUFFICES ASSUME TypeOK, TornByFailure, [Next]_vars PROVE TornByFailure'
  OBVIOUS
<1>1. writeFailures \in Nat
  BY BoundsAssumption DEF TypeOK
<1>2. WriteFailure => TornByFailure'
  BY FailuresCount DEF TornByFailure
<1>3. ASSUME torn' \in {torn, FALSE}, writeFailures' = writeFailures PROVE TornByFailure'
  BY <1>3 DEF TornByFailure
<1>4. ASSUME NEW a \in Agents, Accept(a) \/ Receive(a) \/ Disconnect(a) \/ Acquire(a)
      PROVE  TornByFailure'
  BY <1>3, <1>4 DEF Accept, Receive, Disconnect, Acquire, fileVars, failureVars
<1>5. ASSUME NEW a \in Agents, Locked(a) PROVE TornByFailure'
  <2>1. \/ WriteFailure
        \/ torn' \in {torn, FALSE} /\ writeFailures' = writeFailures
    BY <1>5 DEF Locked, OpenFirstFile, CloseCompleted, Reopen, HandOff, KeepFile, Write,
       OpenNewFile, OpenFails, FlushFails, WritePacket, WriteFails, WriteRefused, fileVars,
       failureVars
  <2> QED
    BY <1>2, <1>3, <2>1
<1>6. CASE Close
  BY <1>2, <1>3, <1>6 DEF Close, FlushFails
<1>7. CASE Stop \/ Exit \/ Tick \/ TurnBack \/ Exited \/ UNCHANGED vars
  BY <1>3, <1>7 DEF Stop, Exit, Tick, TurnBack, Exited, vars, fileVars, failureVars
<1> QED
  BY <1>4, <1>5, <1>6, <1>7 DEF Next

LEMMA ClosedStep == StateOK /\ ClosedInRotation /\ [Next]_vars => ClosedInRotation'
<1> SUFFICES ASSUME StateOK, ClosedInRotation, [Next]_vars PROVE ClosedInRotation'
  OBVIOUS
<1>t. TypeOK
  BY DEF StateOK
<1>1. Impaired' \/ handle' # "closed" => ClosedInRotation'
  BY DEF ClosedInRotation
<1>2. ASSUME handle' = handle, \A a \in Agents : pc[a] = "reopen" => pc'[a] = "reopen"
      PROVE  ClosedInRotation'
  BY <1>2, <1>t, ImpairedStays DEF ClosedInRotation
<1>3. ASSUME NEW a \in Agents, Accept(a) \/ Receive(a) \/ Disconnect(a) \/ Acquire(a)
      PROVE  ClosedInRotation'
  <2>1. handle' = handle /\ pc[a] # "reopen" /\ \A b \in Agents : b # a => pc'[b] = pc[b]
    BY <1>3, <1>t DEF Accept, Disconnect, Receive, Acquire, Goto, TypeOK, fileVars
  <2> QED
    BY <1>2, <2>1
<1>4. ASSUME NEW a \in Agents, Locked(a) PROVE ClosedInRotation'
  <2>1. \A b \in Agents : b # a => pc'[b] = pc[b]
    BY <1>4, OnlyTheHolderMoves
  <2>2. CASE OpenFirstFile(a) \/ Reopen(a)
    <3>1. OpenNewFile \/ OpenFails
      BY <2>2 DEF OpenFirstFile, Reopen
    <3>2. OpenNewFile => handle' = "open"
      BY DEF OpenNewFile
    <3> QED
      BY <1>1, <1>t, <3>1, <3>2, FailuresCount
  <2>3. CASE CloseCompleted(a)
    <3>1. Goto(a, "reopen") \/ WriteFailure
      BY <2>3 DEF CloseCompleted, FlushFails
    <3>2. Goto(a, "reopen") => pc'[a] = "reopen"
      BY <1>t DEF Goto, TypeOK
    <3> QED
      BY <1>1, <1>t, <3>1, <3>2, FailuresCount DEF ClosedInRotation
  <2>4. CASE HandOff(a) \/ KeepFile(a) \/ Write(a)
    <3>1. handle' = handle /\ pc[a] # "reopen"
      BY <2>4 DEF HandOff, KeepFile, Write, fileVars
    <3> QED
      BY <1>2, <2>1, <3>1
  <2> QED
    BY <1>4, <2>2, <2>3, <2>4 DEF Locked
<1>5. CASE Close
  BY <1>1, <1>5 DEF Close, Impaired
<1>6. CASE Stop \/ Exit \/ Tick \/ TurnBack \/ Exited \/ UNCHANGED vars
  BY <1>2, <1>6 DEF Stop, Exit, Tick, TurnBack, Exited, vars, fileVars
<1> QED
  BY <1>3, <1>4, <1>5, <1>6 DEF Next

LEMMA KeepStep == KeepInv /\ [Next]_vars => KeepInv'
  BY OrderStep, ClosedStep, TornStep DEF KeepInv, IInv, StateOK

LEMMA NothingYet ==
  ASSUME Init
  PROVE  KeepInv /\ \A a \in Agents : Kept(files, a) = <<>>
<1>1. IInv
  BY StartsInOrder
<1>2. \A a \in Agents : Places(files, a) = {}
  BY DEF Init, Places
<1>3. Cardinality({}) = 0
  BY FS_EmptySet
<1>4. \A a \in Agents : Kept(files, a) = <<>>
  <2> SUFFICES ASSUME NEW a \in Agents PROVE Kept(files, a) = <<>>
    OBVIOUS
  <2>1. 1 .. Cardinality(Places(files, a)) = {}
    BY <1>2, <1>3
  <2> QED
    BY <2>1 DEF Kept
<1> QED
  BY <1>1, <1>4 DEF Init, KeepInv, ClosedInRotation, TornByFailure
-----------------------------------------------------------------------------
(* What the steps do to what is in the files: only the writing of a packet *)
(* adds to it.                                                             *)
LEMMA OpeningTruncates ==
  ASSUME TypeOK, OpenNewFile
  PROVE  /\ Within(files', files)
         /\ (\A i \in 1 .. Len(files) : files[i].name # local) => Within(files, files')
<1>1. /\ files \in Seq(File) /\ files' \in Seq(File) /\ Len(files) \in Nat
      /\ DOMAIN files = 1 .. Len(files) /\ DOMAIN files' = 1 .. Len(files) + 1
  BY OpeningAdds DEF TypeOK
<1>2. /\ files'[Len(files) + 1].packets = <<>>
      /\ \A i \in 1 .. Len(files) :
           /\ files'[i].packets \in {<<>>, files[i].packets}
           /\ files[i].name # local => files'[i] = files[i]
  BY OpeningAdds
<1>3. DOMAIN <<>> = {}
  OBVIOUS
<1>4. ASSUME NEW f \in DOMAIN files', NEW i \in DOMAIN files'[f].packets
      PROVE  /\ f \in DOMAIN files /\ i \in DOMAIN files[f].packets
             /\ files'[f].packets[i] = files[f].packets[i]
  <2>1. f # Len(files) + 1
    BY <1>2, <1>3, <1>4
  <2>2. f \in 1 .. Len(files)
    BY <1>1, <2>1
  <2>3. files'[f].packets = files[f].packets
    BY <1>2, <1>3, <1>4, <2>2
  <2> QED
    BY <1>1, <2>2, <2>3
<1>5. ASSUME \A i \in 1 .. Len(files) : files[i].name # local PROVE Within(files, files')
  BY <1>1, <1>2, <1>5 DEF Within
<1> QED
  BY <1>4, <1>5 DEF Within

LEMMA FlushingTruncates ==
  ASSUME TypeOK, FileIsNamed, FlushFails
  PROVE  Within(files', files)
<1>1. files # <<>>
  BY DEF FlushFails, FileIsNamed
<1>2. PICK s \in Seq(Packets) :
        /\ files' = [files EXCEPT ![Len(files)].packets = s]
        /\ DOMAIN s \subseteq DOMAIN files[Len(files)].packets
        /\ \A j \in DOMAIN s : s[j] = files[Len(files)].packets[j]
  BY <1>1, FlushingLeaves
<1>3. /\ files' \in Seq(File) /\ Len(files') = Len(files)
      /\ Len(files) \in Nat /\ Len(files) \in 1 .. Len(files)
      /\ files'[Len(files)].packets = s
      /\ \A i \in 1 .. Len(files) : i # Len(files) => files'[i] = files[i]
  BY <1>1, <1>2, OnlyTheLastChanges
<1>4. DOMAIN files = 1 .. Len(files) /\ DOMAIN files' = 1 .. Len(files)
  BY <1>3 DEF TypeOK
<1>5. ASSUME NEW f \in DOMAIN files', NEW i \in DOMAIN files'[f].packets
      PROVE  /\ f \in DOMAIN files /\ i \in DOMAIN files[f].packets
             /\ files'[f].packets[i] = files[f].packets[i]
  <2>1. CASE f = Len(files)
    BY <1>2, <1>3, <1>4, <1>5, <2>1
  <2>2. CASE f # Len(files)
    BY <1>3, <1>4, <1>5, <2>2
  <2> QED
    BY <2>1, <2>2
<1> QED
  BY <1>5 DEF Within

(* What a failure leaves. *)
LEMMA Wears ==
  ASSUME TypeOK, TypeOK', Within(files', files), Impaired'
  PROVE  Custody!Wear
<1> DEFINE K == [a \in Agents |-> Kept(files, a)]
           L == [a \in Agents |-> Kept(files', a)]
<1>1. files \in Seq(File) /\ files' \in Seq(File)
  BY DEF TypeOK
<1>2. \A a \in Agents : Kept(files', a) \in Seq(Nat)
  BY <1>1, KeptForm
<1>3. \A a \in Agents : Custody!IsLeftOf(Kept(files', a), Kept(files, a))
  BY <1>1, WithinIsLeft
<1>4. L \in [Agents -> Seq(Nat)] /\ \A a \in Agents : Custody!IsLeftOf(L[a], K[a])
  BY <1>2, <1>3
<1>5. Impaired' = TRUE
  BY DEF Impaired
<1> QED
  BY <1>4, <1>5 DEF Custody!Wear

(* Opening a file costs nothing while capture is unimpaired. *)
LEMMA OpeningKeeps ==
  ASSUME IInv, TypeOK', ~Impaired, NEW a \in Agents,
         OpenFirstFile(a) \/ Reopen(a), OpenNewFile
  PROVE  \A b \in Agents : Kept(files', b) = Kept(files, b)
<1>t. TypeOK /\ FileIsNamed /\ files \in Seq(File) /\ files' \in Seq(File)
  BY DEF IInv, StateOK, TypeOK
<1>1. ClocksAgree
  BY <1>t, BoundsAssumption DEF IInv, Impaired, TypeOK
<1>2. \A i \in 1 .. Len(files) : files[i].name # local
  <2>1. CASE OpenFirstFile(a)
    <3>1. files = <<>>
      BY <1>t, <2>1 DEF OpenFirstFile, FileIsNamed
    <3> QED
      BY <3>1
  <2>2. CASE Reopen(a)
    <3>1. startTime < now /\ local = now /\ \A i \in 1 .. Len(files) : files[i].name <= startTime
      BY <1>1, <2>2 DEF Reopen, ClocksAgree
    <3>2. startTime \in Nat /\ now \in Nat /\ \A i \in 1 .. Len(files) : files[i].name \in Nat
      <4>1. \A i \in 1 .. Len(files) : files[i] \in File
        BY <1>t
      <4>2. \A f \in File : f.name \in Nat
        BY BoundsAssumption DEF File, Paths
      <4>3. startTime \in Nat /\ now \in Nat
        BY <1>t, BoundsAssumption DEF TypeOK
      <4> QED
        BY <4>1, <4>2, <4>3
    <3> QED
      BY <3>1, <3>2
  <2> QED
    BY <2>1, <2>2
<1>3. Within(files', files) /\ Within(files, files')
  BY <1>t, <1>2, OpeningTruncates
<1>4. ASSUME NEW b \in Agents PROVE Kept(files', b) = Kept(files, b)
  <2>1. /\ Places(files', b) \subseteq Places(files, b)
        /\ Places(files, b) \subseteq Places(files', b)
        /\ \A x \in Places(files, b) : Number(files, x) = Number(files', x)
    BY <1>t, <1>3, PlacesWithin
  <2>2. Places(files', b) = Places(files, b)
    BY <2>1
  <2>3. \A x \in Places(files, b) : Number(files', x) = Number(files, x)
    BY <2>1
  <2> QED
    BY <1>t, <2>2, <2>3, SameIsKept
<1> QED
  BY <1>4

(* Each step of the capture path is one of PacketCustody's, or changes     *)
(* nothing it sees.  Receive takes a packet and Write keeps it.  A thread  *)
(* that gives up its packet does so with an open, a write or a flush that  *)
(* fails, or with a file that such a failure or close() has closed; what a *)
(* failing flush, or a name that recurs, takes out of the files leaves the *)
(* rest in order.                                                          *)
THEOREM CaptureKeepsPackets == Spec => KeepsPackets
<1> DEFINE Carrying == {a \in Agents : pc[a] \in {"want"} \cup Holding}
           AllKept == [a \in Agents |-> Kept(files, a)]
<1>1. Init => Custody!CustodyInit
  <2> SUFFICES ASSUME Init PROVE Custody!CustodyInit
    OBVIOUS
  <2>1. Carrying = {}
    BY DEF Init, Holding
  <2>2. AllKept = [a \in Agents |-> <<>>]
    BY NothingYet
  <2>3. Impaired = FALSE
    BY DEF Init, Impaired
  <2>4. sent = [a \in Agents |-> 0]
    BY DEF Init
  <2> QED
    BY <2>1, <2>2, <2>3, <2>4 DEF Custody!CustodyInit
<1>2. KeepInv /\ [Next]_vars
        => [Custody!CustodyNext]_<<sent, Carrying, AllKept, Impaired>>
  <2> SUFFICES ASSUME KeepInv, [Next]_vars
               PROVE  \/ Custody!CustodyNext
                      \/ UNCHANGED <<sent, Carrying, AllKept, Impaired>>
    OBVIOUS
  <2>t. /\ TypeOK /\ StateOK /\ FileIsNamed /\ Rotating /\ LockIsHeld /\ IInv
        /\ KeepInv' /\ TypeOK' /\ ClosedInRotation /\ TornByFailure
    BY KeepStep DEF KeepInv, IInv, StateOK
  <2>h. {"locked", "reopen", "handoff", "write"} = Holding
    BY DEF Holding
  <2>k. files' = files => AllKept' = AllKept
    OBVIOUS
  <2>i. Impaired /\ Impaired' => Impaired' = Impaired
    BY DEF Impaired
  <2>w. /\ files' = files => Within(files', files)
        /\ FlushFails => Within(files', files)
        /\ OpenNewFile => Within(files', files)
    BY <2>t, FlushingTruncates, OpeningTruncates DEF Within
  <2>s. Within(files', files) /\ Impaired' => Custody!Wear
    BY <2>t, Wears
  <2>1. ASSUME NEW a \in Agents, Accept(a) \/ Disconnect(a) \/ Acquire(a)
        PROVE  UNCHANGED <<sent, Carrying, AllKept, Impaired>>
    <3>1. /\ UNCHANGED <<sent, files, turned, main, openFailures, writeFailures>>
          /\ pc'[a] \in {"want"} \cup Holding <=> pc[a] \in {"want"} \cup Holding
          /\ \A b \in Agents : b # a => pc'[b] = pc[b]
      BY <2>1, <2>t, <2>h DEF Accept, Disconnect, Acquire, Goto, TypeOK, clockVars, fileVars,
         failureVars
    <3> QED
      BY <2>k, <3>1 DEF Impaired
  <2>2. ASSUME NEW a \in Agents, Receive(a) PROVE Custody!Take(a)
    <3>1. /\ UNCHANGED <<files, turned, main, openFailures, writeFailures>>
          /\ pc[a] = "recv" /\ pc'[a] = "want"
          /\ sent' = [sent EXCEPT ![a] = sent[a] + 1]
          /\ \A b \in Agents : b # a => pc'[b] = pc[b]
      BY <2>2, <2>t DEF Receive, Goto, TypeOK, clockVars, fileVars, failureVars
    <3>2. a \notin Carrying /\ Carrying' = Carrying \cup {a}
      BY <3>1, <2>h
    <3>3. AllKept' = AllKept /\ Impaired' = Impaired
      BY <2>k, <3>1 DEF Impaired
    <3> QED
      BY <3>1, <3>2, <3>3 DEF Custody!Take
  <2>3. ASSUME NEW a \in Agents, Locked(a)
        PROVE  \/ Custody!Keep(a) \/ Custody!Lose(a) \/ Custody!Impair
               \/ UNCHANGED <<sent, Carrying, AllKept, Impaired>>
    <3>1. /\ sent' = sent /\ main' = main /\ turned' = turned /\ pc[a] \in Holding
          /\ \A b \in Agents : b # a => pc'[b] = pc[b] /\ pc[b] \notin Holding
      BY <2>3, <2>t, <2>h, OnlyTheHolderMoves
      DEF Locked, OpenFirstFile, CloseCompleted, Reopen, HandOff, KeepFile, Write, clockVars
    <3>2. a \in Carrying /\ (pc'[a] \in {"none", "recv"} => Carrying' = Carrying \ {a})
      BY <3>1, <2>h
    <3>l. ASSUME pc'[a] \in {"none", "recv"}, Within(files', files), Impaired'
          PROVE  Custody!Lose(a)
      BY <3>1, <3>2, <3>l, <2>s DEF Custody!Lose
    <3>g. ASSUME NEW place \in {"none", "recv"} \cup Holding, Goto(a, place)
          PROVE  pc'[a] = place
      BY <3>g, <2>t DEF Goto, TypeOK
    <3>a. Abandon(a) => pc'[a] = "none"
      BY <3>g DEF Abandon
    <3>c. ASSUME UNCHANGED <<openFailures, writeFailures>> PROVE Impaired' = Impaired
      BY <3>c, <3>1 DEF Impaired
    <3>3. CASE Write(a)
      <4>0. pc[a] = "write"
        BY <3>3 DEF Write
      <4>1. CASE WritePacket(a) /\ Goto(a, IF running THEN "recv" ELSE "none")
        <5>1. pc'[a] \in {"none", "recv"}
          BY <4>1, <3>g
        <5>2. UNCHANGED <<openFailures, writeFailures>>
          BY <3>3, <4>1 DEF Write, WritePacket
        <5>3. CASE torn
          <6>1. files' = files /\ Impaired
            BY <4>1, <5>3, <2>t DEF WritePacket, TornByFailure, Impaired
          <6> QED
            BY <5>1, <5>2, <6>1, <3>c, <3>l, <2>w
        <5>4. CASE ~torn
          <6>1. /\ files # <<>> /\ sent[a] \in 1 .. MaxPackets
                /\ files[Len(files)].packets \in Seq(Packets)
                /\ Append(files[Len(files)].packets, <<a, sent[a]>>) \in Seq(Packets)
                /\ files' = [files EXCEPT ![Len(files)].packets =
                               Append(files[Len(files)].packets, <<a, sent[a]>>)]
            BY <2>t, <4>0, <4>1, <5>4, WritingAppends
          <6>2. /\ files' \in Seq(File) /\ Len(files') = Len(files)
                /\ files'[Len(files)].packets =
                     Append(files[Len(files)].packets, <<a, sent[a]>>)
                /\ \A i \in 1 .. Len(files) : i # Len(files) => files'[i] = files[i]
            <7>1. ASSUME NEW s \in Seq(Packets), files' = [files EXCEPT ![Len(files)].packets = s]
                  PROVE  /\ files' \in Seq(File) /\ Len(files') = Len(files)
                         /\ files'[Len(files)].packets = s
                         /\ \A i \in 1 .. Len(files) : i # Len(files) => files'[i] = files[i]
              BY <2>t, <6>1, <7>1, OnlyTheLastChanges
            <7> QED
              BY <6>1, <7>1
          <6>3. /\ Kept(files', a) = Append(Kept(files, a), sent[a])
                /\ \A b \in Agents : b # a => Kept(files', b) = Kept(files, b)
            <7>1. files \in Seq(File)
              BY <2>t DEF TypeOK
            <7> QED
              BY <6>1, <6>2, <7>1, WritingKeeps
          <6>4. AllKept' = [AllKept EXCEPT ![a] = Append(AllKept[a], sent[a])]
            BY <6>3
          <6>5. Impaired' = Impaired
            BY <5>2, <3>c
          <6> QED
            BY <3>1, <3>2, <5>1, <6>4, <6>5 DEF Custody!Keep
        <5> QED
          BY <5>3, <5>4
      <4>2. CASE WriteFails(a)
        BY <4>2, <2>t, <2>w, <3>a, <3>l, FailuresCount DEF WriteFails
      <4>3. CASE WriteRefused(a)
        <5>1. files' = files /\ pc'[a] = "none" /\ handle = "closed"
          BY <4>3, <3>a DEF WriteRefused
        <5>2. Impaired
          BY <2>t, <3>1, <4>0, <5>1, <2>h DEF ClosedInRotation
        <5>3. UNCHANGED <<openFailures, writeFailures>>
          BY <3>3, <4>3 DEF Write, WriteRefused
        <5> QED
          BY <2>w, <3>c, <3>l, <5>1, <5>2, <5>3
      <4> QED
        BY <3>3, <4>1, <4>2, <4>3 DEF Write
    <3>4. CASE pc'[a] \in Holding /\ files' = files /\ UNCHANGED <<openFailures, writeFailures>>
      <4>1. Carrying' = Carrying /\ Impaired' = Impaired
        BY <3>1, <3>4, <3>c
      <4> QED
        BY <2>k, <3>1, <3>4, <4>1
    <3>5. CASE HandOff(a) \/ KeepFile(a)
      BY <3>4, <3>5, <3>g, <2>h DEF HandOff, KeepFile, fileVars, failureVars
    <3>6. CASE CloseCompleted(a)
      <4>1. CASE Goto(a, "reopen") /\ UNCHANGED <<files, failureVars>>
        BY <3>4, <3>g, <4>1, <2>h DEF failureVars
      <4>2. CASE FlushFails /\ Abandon(a)
        <5>1. Impaired'
          BY <2>t, <4>2, FailuresCount DEF FlushFails
        <5> QED
          BY <2>w, <3>a, <3>l, <4>2, <5>1
      <4> QED
        BY <3>6, <4>1, <4>2 DEF CloseCompleted
    <3>7. CASE OpenFirstFile(a) \/ Reopen(a)
      <4>1. CASE OpenFails /\ Abandon(a)
        <5>1. Impaired' /\ files' = files
          BY <2>t, <4>1, FailuresCount DEF OpenFails
        <5> QED
          BY <2>w, <3>a, <3>l, <4>1, <5>1
      <4>2. CASE OpenNewFile /\ pc'[a] \in Holding
        <5>1. Carrying' = Carrying
          BY <3>1, <4>2
        <5>2. Impaired' = Impaired
          BY <3>c, <4>2 DEF OpenNewFile, failureVars
        <5>3. CASE Impaired
          BY <2>s, <2>w, <3>1, <4>2, <5>1, <5>2, <5>3 DEF Custody!Impair
        <5>4. CASE ~Impaired
          <6>1. \A b \in Agents : Kept(files', b) = Kept(files, b)
            BY <2>t, <3>7, <4>2, <5>4, OpeningKeeps
          <6>2. AllKept' = AllKept
            BY <6>1
          <6> QED
            BY <3>1, <5>1, <5>2, <6>2
        <5> QED
          BY <5>3, <5>4
      <4>3. OpenNewFile => pc'[a] \in Holding \/ (OpenFails /\ Abandon(a))
        BY <3>1, <3>7, <3>g, <2>h DEF OpenFirstFile, Reopen
      <4>4. OpenNewFile \/ (OpenFails /\ Abandon(a))
        BY <3>7 DEF OpenFirstFile, Reopen
      <4> QED
        BY <4>1, <4>2, <4>3, <4>4
    <3> QED
      BY <2>3, <3>3, <3>5, <3>6, <3>7 DEF Locked
  <2>4. CASE Close
    <3>1. UNCHANGED <<sent, pc>> /\ main' = "closed" /\ (FlushFails \/ files' = files)
      BY <2>4 DEF Close
    <3>2. Impaired' /\ Carrying' = Carrying
      BY <3>1 DEF Impaired
    <3> QED
      BY <2>s, <2>w, <3>1, <3>2 DEF Custody!CustodyNext, Custody!Impair
  <2>5. CASE TurnBack
    <3>1. UNCHANGED <<sent, pc, files>>
      BY <2>5 DEF TurnBack, fileVars
    <3>2. Impaired' /\ Carrying' = Carrying
      BY <2>5, <2>t, <3>1, FailuresCount
    <3> QED
      BY <2>s, <2>w, <3>1, <3>2 DEF Custody!CustodyNext, Custody!Impair
  <2>6. CASE Stop \/ Exit \/ Tick \/ Exited \/ UNCHANGED vars
    <3>1. /\ UNCHANGED <<sent, files, pc, turned, openFailures, writeFailures>>
          /\ main' \in {"closed", "exited"} <=> main \in {"closed", "exited"}
      BY <2>6 DEF Stop, Exit, Tick, Exited, vars, clockVars, fileVars, failureVars
    <3>2. Impaired' = Impaired /\ Carrying' = Carrying
      BY <3>1 DEF Impaired
    <3> QED
      BY <2>k, <3>1, <3>2
  <2> QED
    BY <2>1, <2>2, <2>3, <2>4, <2>5, <2>6 DEF Next, Custody!CustodyNext
<1>3. Init => KeepInv
  BY NothingYet
<1>4. Spec => []KeepInv
  BY <1>3, KeepStep, PTL DEF Spec
<1> QED
  BY <1>1, <1>2, <1>4, PTL
  DEF KeepsPackets, Spec, Custody!CustodySpec, Custody!custodyVars
-----------------------------------------------------------------------------
(* CustodyProofs, of the packets in these files. *)
InFiles == INSTANCE CustodyProofs WITH
  received <- sent,
  carried <- {a \in Agents : pc[a] \in {"want"} \cup Holding},
  kept <- [a \in Agents |-> Kept(files, a)],
  impaired <- Impaired

(* So what PacketCustody promises is true of the files that write_packet   *)
(* has written: an agent's packets are in them once and in the order in    *)
(* which they came.  All of them are, but for the one in hand, until a     *)
(* file fails, a clock is turned back or close() is called.                *)
THEOREM FilesKeepPackets == Spec => []Custody!PacketsAreKept
<1>1. InFiles!CustodySpec => []InFiles!PacketsAreKept
  BY InFiles!CustodyKeepsPackets
<1>2. InFiles!CustodySpec <=> Custody!CustodySpec
  BY PTL DEF InFiles!CustodySpec, Custody!CustodySpec, InFiles!CustodyInit,
     Custody!CustodyInit, InFiles!CustodyNext, Custody!CustodyNext,
     InFiles!custodyVars, Custody!custodyVars, InFiles!Take, Custody!Take,
     InFiles!Keep, Custody!Keep, InFiles!Lose, Custody!Lose,
     InFiles!Impair, Custody!Impair, InFiles!Wear, Custody!Wear,
     InFiles!IsLeftOf, Custody!IsLeftOf
<1>3. InFiles!PacketsAreKept <=> Custody!PacketsAreKept
  BY DEF InFiles!PacketsAreKept, Custody!PacketsAreKept
<1> QED
  BY <1>1, <1>2, <1>3, CaptureKeepsPackets, PTL DEF KeepsPackets
=============================================================================
