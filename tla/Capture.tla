-------------------------------- MODULE Capture --------------------------------
(***************************************************************************)
(* The capture path: the TCP receiver's thread per agent connection        *)
(* (src/receivers/tcp_receiver.py), the PCAP assembler they all write to   *)
(* (src/ingestion/pcap_assembler.py) and the shutdown of run.py's main     *)
(* thread.  A thread receives a whole packet or nothing, then writes it    *)
(* under the assembler's lock, rotating the file first when it is due and  *)
(* handing the completed file to the analysis pipeline.                    *)
(*                                                                         *)
(* A file's name is the second that the local clock shows when it is       *)
(* opened, and opening a name again truncates the file.  Rotation goes by  *)
(* time.time().  Both clocks may be turned back, the local one alone when  *)
(* summer time ends.  A file here is a file with what is buffered for it;  *)
(* a packet is the pair of its agent and its number.                       *)
(***************************************************************************)
EXTENDS Integers, Sequences, FiniteSets

CONSTANTS
  Agents,               \* the agents' connections, each with its thread
  Main,                 \* the main thread
  Nobody,               \* the lock's holder when it is free
  Rotation,             \* rotation_seconds
  MaxTime,              \* bound: the last second of the clocks
  MaxPackets,           \* bound: packets each agent sends
  MaxMishaps            \* bound: failures of the files and turns of the clocks

ASSUME ThreadsAssumption == Main \notin Agents /\ Nobody \notin Agents \cup {Main}
ASSUME BoundsAssumption ==
  /\ Rotation \in Nat \ {0}       \* config/loader.py: at least 5
  /\ MaxTime \in Nat /\ MaxPackets \in Nat /\ MaxMishaps \in Nat

Paths == 0 .. MaxTime
Packets == Agents \X (1 .. MaxPackets)

File == [name : Paths, packets : Seq(Packets)]

VARIABLES
  now,                  \* time.time()
  local,                \* the second that time.strftime shows
  turned,               \* history: times that a clock was turned back
  running,              \* TcpReceiver._running
  main,                 \* "serving", "stopping", "closed" or "exited"
  sent,                 \* packets received from each agent
  pc,                   \* where each connection's thread is
  lock,                 \* holder of PcapAssembler._lock
  path,                 \* _current_path, or MaxTime + 1 before the first file
  handle,               \* _current_file: "none", "open" or "closed"
  startTime,            \* _file_start_time
  completed,            \* completed_path, local to the _rotate under way
  torn,                 \* the open file ends in a header without its packet
  files,                \* the files as they were opened, with their packets
  handed,               \* history: the paths given to on_rotation
  openFailures,         \* history: failed opens
  writeFailures         \* history: failed writes and flushes

clockVars == <<now, local, turned>>
fileVars == <<path, handle, startTime, completed, torn, files>>
failureVars == <<openFailures, writeFailures>>
vars == <<now, local, turned, running, main, sent, pc, lock, path, handle,
          startTime, completed, torn, files, handed, openFailures, writeFailures>>

NoPath == MaxTime + 1

(* "none" no connection; "recv" blocked in recv; "want" waiting for the    *)
(* lock; then, holding it: "locked" about to look at the file, "reopen"    *)
(* between closing and opening in _rotate, "handoff" about to call         *)
(* on_rotation, "write" about to write.                                    *)
Holding == {"locked", "reopen", "handoff", "write"}

TypeOK ==
  /\ now \in 0 .. MaxTime
  /\ local \in 0 .. now
  /\ turned \in 0 .. MaxMishaps
  /\ running \in BOOLEAN
  /\ main \in {"serving", "stopping", "closed", "exited"}
  /\ sent \in [Agents -> 0 .. MaxPackets]
  /\ pc \in [Agents -> {"none", "recv", "want"} \cup Holding]
  /\ lock \in Agents \cup {Nobody}
  /\ path \in Paths \cup {NoPath}
  /\ handle \in {"none", "open", "closed"}
  /\ startTime \in 0 .. MaxTime
  /\ completed \in Paths \cup {NoPath}
  /\ torn \in BOOLEAN
  /\ files \in Seq(File)
  /\ handed \in Seq(Paths)
  /\ openFailures \in 0 .. MaxMishaps
  /\ writeFailures \in 0 .. MaxMishaps

Init ==
  /\ now = 0
  /\ local = 0
  /\ turned = 0
  /\ running = TRUE
  /\ main = "serving"
  /\ sent = [a \in Agents |-> 0]
  /\ pc = [a \in Agents |-> "none"]
  /\ lock = Nobody
  /\ path = NoPath
  /\ handle = "none"
  /\ startTime = 0
  /\ completed = NoPath
  /\ torn = FALSE
  /\ files = <<>>
  /\ handed = <<>>
  /\ openFailures = 0
  /\ writeFailures = 0

Alive == main # "exited"
OneMoreMishap == openFailures + writeFailures + turned < MaxMishaps
Goto(a, place) == pc' = [pc EXCEPT ![a] = place]
-----------------------------------------------------------------------------
(* The connection threads outside the lock.                                *)

(* The accept loop starts a thread for a new connection. *)
Accept(a) ==
  /\ Alive /\ running
  /\ pc[a] = "none"
  /\ Goto(a, "recv")
  /\ UNCHANGED <<clockVars, running, main, sent, lock, fileVars, handed, failureVars>>

(* A whole packet arrives.  A thread that was already blocked in recv when *)
(* the receiver stopped still takes it.                                    *)
Receive(a) ==
  /\ Alive
  /\ pc[a] = "recv" /\ sent[a] < MaxPackets
  /\ sent' = [sent EXCEPT ![a] = @ + 1]
  /\ Goto(a, "want")
  /\ UNCHANGED <<clockVars, running, main, lock, fileVars, handed, failureVars>>

(* The agent goes away, between packets or in the middle of one.  What     *)
(* _recv_exact has of the packet is dropped.                               *)
Disconnect(a) ==
  /\ Alive
  /\ pc[a] = "recv"
  /\ Goto(a, "none")
  /\ UNCHANGED <<clockVars, running, main, sent, lock, fileVars, handed, failureVars>>
-----------------------------------------------------------------------------
(* write_packet.                                                           *)

Acquire(a) ==
  /\ Alive
  /\ pc[a] = "want" /\ lock = Nobody
  /\ lock' = a
  /\ Goto(a, "locked")
  /\ UNCHANGED <<clockVars, running, main, sent, fileVars, handed, failureVars>>

(* Opening a name empties the file that has it. *)
Truncated(name) ==
  [i \in DOMAIN files |->
     IF files[i].name = name THEN [files[i] EXCEPT !.packets = <<>>] ELSE files[i]]

(* _open_new_file succeeds; the file's header goes to the empty buffer. *)
OpenNewFile ==
  /\ path' = local
  /\ handle' = "open"
  /\ startTime' = now
  /\ torn' = FALSE
  /\ files' = Append(Truncated(local), [name |-> local, packets |-> <<>>])
  /\ UNCHANGED failureVars

(* open() raises: the new path is remembered, the old handle is kept.      *)
OpenFails ==
  /\ OneMoreMishap
  /\ openFailures' = openFailures + 1
  /\ path' = local
  /\ UNCHANGED <<handle, startTime, torn, files, writeFailures>>

(* Mutant: the exception leaves the lock taken. *)
AbandonLocked(a) == Goto(a, "none") /\ UNCHANGED lock

(* An exception leaves write_packet: the lock is released, the handler's   *)
(* thread closes its connection and the packet is lost.                    *)
Abandon(a) == lock' = Nobody /\ Goto(a, "none")

(* A write or a flush raises: the disk is full, or out of order. *)
WriteFailure ==
  /\ OneMoreMishap
  /\ writeFailures' = writeFailures + 1

(* The flush in close() raises: what was still buffered of the last file   *)
(* is lost, and the handle is closed all the same.                         *)
FlushFails ==
  /\ handle = "open"
  /\ WriteFailure
  /\ \E kept \in 0 .. Len(files[Len(files)].packets) :
       files' = [files EXCEPT ![Len(files)].packets = SubSeq(@, 1, kept)]

OpenFirstFile(a) ==
  /\ Alive
  /\ pc[a] = "locked" /\ handle = "none"
  /\ \/ OpenNewFile /\ UNCHANGED <<lock, pc>>
     \/ OpenFails /\ Abandon(a)
  /\ UNCHANGED <<clockVars, running, main, sent, completed, handed>>

(* Less than nothing has passed when the clock was turned back. *)
ShouldRotate == now - startTime >= Rotation

(* Mutant: the completed path is not remembered. *)
CloseForgetting(a) ==
  /\ Alive
  /\ pc[a] = "locked" /\ handle # "none" /\ ShouldRotate
  /\ handle' = "closed"
  /\ \/ Goto(a, "reopen") /\ UNCHANGED <<lock, files, failureVars>>
     \/ FlushFails /\ Abandon(a) /\ UNCHANGED openFailures
  /\ UNCHANGED <<clockVars, running, main, sent, path, startTime, completed, torn,
                 handed>>

(* _rotate, up to closing the present file.  Rotation stays due when the   *)
(* flush fails, and closing the closed file does nothing: the next writer  *)
(* opens the new file and hands over what there is of this one.            *)
CloseCompleted(a) ==
  /\ Alive
  /\ pc[a] = "locked" /\ handle # "none" /\ ShouldRotate
  /\ completed' = path
  /\ handle' = "closed"
  /\ \/ Goto(a, "reopen") /\ UNCHANGED <<lock, files, failureVars>>
     \/ FlushFails /\ Abandon(a) /\ UNCHANGED openFailures
  /\ UNCHANGED <<clockVars, running, main, sent, path, startTime, torn, handed>>

(* Mutant: the callback is not called. *)
ReopenOnly(a) ==
  /\ Alive
  /\ pc[a] = "reopen"
  /\ \/ OpenNewFile /\ Goto(a, "write") /\ UNCHANGED lock
     \/ OpenFails /\ Abandon(a)
  /\ UNCHANGED <<clockVars, running, main, sent, completed, handed>>

Reopen(a) ==
  /\ Alive
  /\ pc[a] = "reopen"
  /\ \/ OpenNewFile /\ Goto(a, "handoff") /\ UNCHANGED lock
     \/ OpenFails /\ Abandon(a)
  /\ UNCHANGED <<clockVars, running, main, sent, completed, handed>>

(* Mutant: the current path is handed over, as it is after the reopening. *)
HandOffCurrent(a) ==
  /\ Alive
  /\ pc[a] = "handoff"
  /\ handed' = Append(handed, path)
  /\ Goto(a, "write")
  /\ UNCHANGED <<clockVars, running, main, sent, lock, fileVars, failureVars>>

(* The completed file goes to a pipeline thread of its own. *)
HandOff(a) ==
  /\ Alive
  /\ pc[a] = "handoff"
  /\ handed' = Append(handed, completed)
  /\ Goto(a, "write")
  /\ UNCHANGED <<clockVars, running, main, sent, lock, fileVars, failureVars>>

KeepFile(a) ==
  /\ Alive
  /\ pc[a] = "locked" /\ handle # "none" /\ ~ShouldRotate
  /\ Goto(a, "write")
  /\ UNCHANGED <<clockVars, running, main, sent, lock, fileVars, handed, failureVars>>

(* The packet goes to the current file.  Behind a header without its       *)
(* packet no reader finds it.                                              *)
WritePacket(a) ==
  /\ handle = "open"
  /\ files' = IF torn THEN files
              ELSE [files EXCEPT ![Len(files)].packets = Append(@, <<a, sent[a]>>)]
  /\ UNCHANGED <<torn, writeFailures>>

(* write() raises: the packet is lost, before its header or behind it.     *)
WriteFails(a) ==
  /\ handle = "open"
  /\ WriteFailure
  /\ torn' \in {torn, TRUE}
  /\ Abandon(a)
  /\ UNCHANGED files

(* Writing to a file that close() has closed raises a ValueError. *)
WriteRefused(a) ==
  /\ handle = "closed"
  /\ Abandon(a)
  /\ UNCHANGED <<torn, files, writeFailures>>

(* Mutant: rotation is looked at again after the write. *)
WriteAgainWhenDue(a) ==
  /\ Alive
  /\ pc[a] = "write"
  /\ \/ /\ WritePacket(a)
        /\ IF ShouldRotate
           THEN Goto(a, "locked") /\ UNCHANGED lock
           ELSE lock' = Nobody /\ Goto(a, IF running THEN "recv" ELSE "none")
     \/ WriteFails(a)
     \/ WriteRefused(a)
  /\ UNCHANGED <<clockVars, running, main, sent, path, handle, startTime, completed,
                 handed, openFailures>>

(* After the packet the thread reads the next one, unless the receiver has *)
(* been stopped.                                                           *)
Write(a) ==
  /\ Alive
  /\ pc[a] = "write"
  /\ \/ /\ WritePacket(a)
        /\ lock' = Nobody
        /\ Goto(a, IF running THEN "recv" ELSE "none")
     \/ WriteFails(a)
     \/ WriteRefused(a)
  /\ UNCHANGED <<clockVars, running, main, sent, path, handle, startTime, completed,
                 handed, openFailures>>
-----------------------------------------------------------------------------
(* The main thread and the clocks.                                         *)

Stop ==
  /\ main = "serving"
  /\ running' = FALSE
  /\ main' = "stopping"
  /\ UNCHANGED <<clockVars, sent, pc, lock, fileVars, handed, failureVars>>

(* close() takes the lock, closes the file and keeps the closed handle.    *)
(* It is the last call of main, so an exception ends the process too.      *)
Close ==
  /\ main = "stopping" /\ lock = Nobody
  /\ main' = "closed"
  /\ handle' = IF handle = "open" THEN "closed" ELSE handle
  /\ FlushFails \/ UNCHANGED <<files, writeFailures>>
  /\ UNCHANGED <<clockVars, running, sent, pc, lock, path, startTime, completed,
                 torn, handed, openFailures>>

(* The process ends, and its daemon threads with it. *)
Exit ==
  /\ main = "closed"
  /\ main' = "exited"
  /\ UNCHANGED <<clockVars, running, sent, pc, lock, fileVars, handed, failureVars>>

Tick ==
  /\ Alive
  /\ now < MaxTime
  /\ now' = now + 1
  /\ local' = local + 1
  /\ UNCHANGED <<turned, running, main, sent, pc, lock, fileVars, handed, failureVars>>

(* The clock is set back, or only what it shows, when summer time ends.    *)
TurnBack ==
  /\ Alive
  /\ OneMoreMishap
  /\ turned' = turned + 1
  /\ \E d \in 1 .. local :
       /\ local' = local - d
       /\ now' \in {now, now - d}
  /\ UNCHANGED <<running, main, sent, pc, lock, fileVars, handed, failureVars>>

Exited == main = "exited" /\ UNCHANGED vars

(* What the thread holding the lock does next. *)
Locked(a) ==
  \/ OpenFirstFile(a) \/ CloseCompleted(a) \/ Reopen(a)
  \/ HandOff(a) \/ KeepFile(a) \/ Write(a)

Next ==
  \/ \E a \in Agents :
       Accept(a) \/ Receive(a) \/ Disconnect(a) \/ Acquire(a) \/ Locked(a)
  \/ Stop \/ Close \/ Exit \/ Tick \/ TurnBack \/ Exited

Spec == Init /\ [][Next]_vars

(* Threads that can run do run, and time passes; agents owe nothing.  The  *)
(* lock is not asked to be fair: a thread gets it when it stays free.      *)
FairSpec ==
  /\ Spec
  /\ WF_vars(Tick)
  /\ \A a \in Agents : WF_vars(Acquire(a)) /\ WF_vars(Locked(a))
-----------------------------------------------------------------------------
(* Properties.                                                             *)

(* Where the packets of an agent are: in which file, and where in it. *)
Places(fs, a) ==
  UNION {{<<f, i>> : i \in {j \in DOMAIN fs[f].packets : fs[f].packets[j][1] = a}} :
           f \in DOMAIN fs}

Earlier(x, y) == x[1] < y[1] \/ (x[1] = y[1] /\ x[2] < y[2])

(* The place with n - 1 before it. *)
Nth(places, n) == CHOOSE x \in places : Cardinality({y \in places : Earlier(y, x)}) = n - 1

(* The numbers of an agent's packets, file after file. *)
Kept(fs, a) ==
  LET places == Places(fs, a)
      number(x) == fs[x[1]].packets[x[2]][2]
  IN  [n \in 1 .. Cardinality(places) |-> number(Nth(places, n))]

(* Something has happened that may cost packets: a file could not be       *)
(* opened or written, a clock was turned back, or close() was called.      *)
Impaired ==
  \/ openFailures > 0 \/ writeFailures > 0 \/ turned > 0
  \/ main \in {"closed", "exited"}

Custody == INSTANCE PacketCustody WITH
  received <- sent,
  carried <- {a \in Agents : pc[a] \in {"want"} \cup Holding},
  kept <- [a \in Agents |-> Kept(files, a)],
  impaired <- Impaired

(* The capture path keeps PacketCustody's promises.  Through lock,         *)
(* rotations and reconnections every packet of a connection is in the      *)
(* files once, in the order they came.  When opening, writing or flushing  *)
(* fails, when a clock is turned back and when the assembler is closed,    *)
(* packets may be lost, but what is left of them is still in order.        *)
KeepsPackets == Custody!CustodySpec

(* As long as files can be opened and no clock is turned back, a file      *)
(* handed to the pipeline is the file that was completed, and is never     *)
(* written or truncated again: Zeek reads it as it is.                     *)
HandedFilesAreFrozen ==
  [][openFailures' = 0 /\ turned' = 0 =>
       \A i \in DOMAIN handed : files[i].name = handed[i] /\ files'[i] = files[i]]_vars

(* As long as files can be opened, the files go to the pipeline one by one *)
(* in the order they were opened, each once: all but the current one, and  *)
(* but the one that the thread that rotated it is about to hand over.      *)
FinishedFilesAreHanded ==
  openFailures = 0 /\ files # <<>> =>
    /\ Len(handed) = Len(files) - IF \E a \in Agents : pc[a] = "handoff" THEN 2 ELSE 1
    /\ \A i \in DOMAIN handed : handed[i] = files[i].name

(* Whatever fails under the lock, it is released, and every packet that    *)
(* waits for it is written or given up.                                    *)
PacketsAreSettled ==
  \A a \in Agents :
    pc[a] = "want" ~> (pc[a] \notin {"want"} \cup Holding \/ main = "exited")
=============================================================================
