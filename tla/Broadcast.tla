------------------------------- MODULE Broadcast -------------------------------
(***************************************************************************)
(* The WebSocket side of the API process (src/api/websocket.py): clients   *)
(* of the mobile app connect and vanish, one endpoint task serves each,    *)
(* and the broadcast loop sends the present state of the network to the    *)
(* whole set of active connections.  All of it runs on one event loop, so  *)
(* that tasks interleave exactly at their awaits: while a connection is    *)
(* accepted, while its endpoint waits for the client, and while a          *)
(* broadcast waits for one send.                                           *)
(*                                                                         *)
(* The detection engine runs in the process of run.py and puts its alerts  *)
(* into that process' alert_queue; the broadcast loop of run_api.py's      *)
(* process takes alerts from its own.                                      *)
(*                                                                         *)
(* There is no end to connections: a client that comes back is a new one,  *)
(* and has the place of one that has ended and that nothing refers to.     *)
(***************************************************************************)
EXTENDS Naturals, FiniteSets

CONSTANTS
  Clients,              \* places for the connections there are at a time
  Nobody,               \* stands for no client
  Api, Engine,          \* the processes of run_api.py and run.py
  MaxAlerts             \* bound: alerts the engine pushes

ASSUME BroadcastAssumption ==
  /\ IsFiniteSet(Clients) /\ Nobody \notin Clients
  /\ Api # Engine /\ MaxAlerts \in Nat

VARIABLES
  conn,                 \* the client's end: "none", "open", "gone"
  task,                 \* its endpoint: "none", "accepting", "reading", "ended"
  active,               \* manager.active_connections
  loop,                 \* broadcast_loop and the broadcast it is in:
                        \*   at: "sleep" or "send"; to: whom it is sending to;
                        \*   left: whom the iteration has yet to reach;
                        \*   size: of the set when the iteration began;
                        \*   dead: whose send failed;
                        \*   unsent: history, whom the message has yet to reach
  queue                 \* alert_queue of each process, its length

vars == <<conn, task, active, loop, queue>>

Asleep == [at |-> "sleep", to |-> Nobody, left |-> {}, size |-> 0, dead |-> {},
           unsent |-> {}]

TypeOK ==
  /\ conn \in [Clients -> {"none", "open", "gone"}]
  /\ task \in [Clients -> {"none", "accepting", "reading", "ended"}]
  /\ active \subseteq Clients
  /\ \/ loop = Asleep
     \/ /\ loop.at = "send" /\ loop.to \in Clients
        /\ loop.left \subseteq active /\ loop.size \in 1 .. Cardinality(Clients)
        /\ loop.dead \subseteq Clients /\ loop.unsent \subseteq Clients
  /\ queue \in [{Api, Engine} -> 0 .. MaxAlerts]

Init ==
  /\ conn = [c \in Clients |-> "none"]
  /\ task = [c \in Clients |-> "none"]
  /\ active = {}
  /\ loop = Asleep
  /\ queue = [p \in {Api, Engine} |-> 0]
-----------------------------------------------------------------------------
(* Clients and their endpoints.                                            *)

(* Nobody is there, and neither the set nor a broadcast knows of an old    *)
(* connection.                                                             *)
Vacant(c) ==
  /\ task[c] \in {"none", "ended"}
  /\ c \notin active \cup {loop.to} \cup loop.dead \cup loop.unsent

(* A client with a valid token connects; websocket.accept is awaited. *)
Connect(c) ==
  /\ Vacant(c)
  /\ conn' = [conn EXCEPT ![c] = "open"]
  /\ task' = [task EXCEPT ![c] = "accepting"]
  /\ UNCHANGED <<active, loop, queue>>

(* The client goes, in whatever way; the server has yet to find out. *)
Vanish(c) ==
  /\ conn[c] = "open"
  /\ conn' = [conn EXCEPT ![c] = "gone"]
  /\ UNCHANGED <<task, active, loop, queue>>

(* Accepted, the connection joins the set.  If the set grows under an      *)
(* iteration, what that iteration will still come across depends on where  *)
(* the hash table has put everyone.                                        *)
Accepted(c) ==
  /\ task[c] = "accepting"
  /\ task' = [task EXCEPT ![c] = "reading"]
  /\ active' = active \cup {c}
  /\ IF loop.at = "send"
       THEN \E left \in SUBSET active' : loop' = [loop EXCEPT !.left = left]
       ELSE UNCHANGED loop
  /\ UNCHANGED <<conn, queue>>

(* accept raises for a client that has gone, and ends the endpoint. *)
AcceptFails(c) ==
  /\ task[c] = "accepting" /\ conn[c] = "gone"
  /\ task' = [task EXCEPT ![c] = "ended"]
  /\ UNCHANGED <<conn, active, loop, queue>>

(* Mutant: the iteration does not see that a connection has left the set. *)
DisconnectUnseen(c) ==
  /\ task[c] = "reading" /\ conn[c] = "gone"
  /\ task' = [task EXCEPT ![c] = "ended"]
  /\ active' = active \ {c}
  /\ UNCHANGED <<conn, loop, queue>>

(* receive_text raises WebSocketDisconnect, whose handler disconnects. *)
Disconnect(c) ==
  /\ task[c] = "reading" /\ conn[c] = "gone"
  /\ task' = [task EXCEPT ![c] = "ended"]
  /\ active' = active \ {c}
  /\ loop' = [loop EXCEPT !.left = @ \ {c}]
  /\ UNCHANGED <<conn, queue>>

(* It raises something else, over a binary frame for instance: the         *)
(* endpoint ends, and with it the connection, which stays in the set.      *)
EndpointFails(c) ==
  /\ task[c] = "reading"
  /\ task' = [task EXCEPT ![c] = "ended"]
  /\ conn' = [conn EXCEPT ![c] = "gone"]
  /\ UNCHANGED <<active, loop, queue>>
-----------------------------------------------------------------------------
(* The broadcast loop.                                                     *)

(* A send to a connection whose endpoint has ended raises at once. *)
Closed(c) == IF task[c] = "ended" THEN {c} ELSE {}

(* After its sleep the loop reads the state from the database and starts   *)
(* to send it, pending alerts first, unless nobody is connected.  (A       *)
(* refused query is logged, and the loop sleeps again.)                    *)
StartBroadcast(c) ==
  /\ loop.at = "sleep" /\ c \in active
  /\ queue' = [queue EXCEPT ![Api] = IF @ > 0 THEN @ - 1 ELSE @]
  /\ loop' = [at |-> "send", to |-> c, left |-> active \ {c},
              size |-> Cardinality(active), dead |-> Closed(c), unsent |-> active]
  /\ UNCHANGED <<conn, task, active>>

(* The send that is awaited succeeds, or raises if the client has gone. *)
Outcomes ==
  {loop.dead} \cup IF conn[loop.to] = "gone" THEN {loop.dead \cup {loop.to}} ELSE {}

Unsent == loop.unsent \ {loop.to}

(* The iteration goes on to another connection. *)
SendNext(c) ==
  /\ loop.at = "send"
  /\ Cardinality(active) = loop.size /\ c \in loop.left
  /\ \E dead \in Outcomes :
       loop' = [loop EXCEPT !.to = c, !.left = @ \ {c},
                            !.dead = dead \cup Closed(c), !.unsent = Unsent]
  /\ UNCHANGED <<conn, task, active, queue>>

(* Mutant: the clients whose send failed are kept. *)
EndBroadcastKeeping ==
  /\ loop.at = "send"
  /\ Cardinality(active) = loop.size /\ loop.left = {}
  /\ loop' = Asleep
  /\ UNCHANGED <<conn, task, active, queue>>

(* It is over: the clients whose send failed are removed. *)
EndBroadcast ==
  /\ loop.at = "send"
  /\ Cardinality(active) = loop.size /\ loop.left = {}
  /\ \E dead \in Outcomes : active' = active \ dead
  /\ loop' = Asleep
  /\ UNCHANGED <<conn, task, queue>>

(* Mutant: whoever was not reached is removed. *)
AbortBroadcastRemoving ==
  /\ loop.at = "send" /\ Cardinality(active) # loop.size
  /\ active' = active \ loop.left
  /\ loop' = Asleep
  /\ UNCHANGED <<conn, task, queue>>

(* Mutant: the exception ends the loop. *)
AbortBroadcastEnding ==
  /\ loop.at = "send" /\ Cardinality(active) # loop.size
  /\ loop' = [Asleep EXCEPT !.at = "ended"]
  /\ UNCHANGED <<conn, task, active, queue>>

(* The set's size has changed during an await, and the iterator raises     *)
(* RuntimeError: the loop logs it, and nobody is removed.                  *)
AbortBroadcast ==
  /\ loop.at = "send" /\ Cardinality(active) # loop.size
  /\ loop' = Asleep
  /\ UNCHANGED <<conn, task, active, queue>>

(* push_alert, in the engine's process. *)
PushAlert ==
  /\ queue[Engine] < MaxAlerts
  /\ queue' = [queue EXCEPT ![Engine] = @ + 1]
  /\ UNCHANGED <<conn, task, active, loop>>

Endpoint(c) == Accepted(c) \/ AcceptFails(c) \/ Disconnect(c)
Sending == (\E c \in Clients : SendNext(c)) \/ EndBroadcast \/ AbortBroadcast

Next ==
  \/ \E c \in Clients : Connect(c) \/ Vanish(c) \/ EndpointFails(c) \/ Endpoint(c)
  \/ \E c \in Clients : StartBroadcast(c)
  \/ Sending
  \/ PushAlert

Spec == Init /\ [][Next]_vars

(* The event loop runs every task that can run, and the server's ping      *)
(* timeout ends a send nobody takes.                                       *)
FairSpec ==
  /\ Spec
  /\ \A c \in Clients : WF_vars(Endpoint(c))
  /\ WF_vars(\E c \in Clients : StartBroadcast(c))
  /\ WF_vars(Sending)
-----------------------------------------------------------------------------
(* Properties.                                                             *)

(* A client that is there and whose endpoint is reading is in the set of   *)
(* active connections: neither a broadcast that fails half way nor another *)
(* client's departure takes it out.                                        *)
ReadersAreActive ==
  \A c \in Clients : task[c] = "reading" /\ conn[c] = "open" => c \in active

(* From some time on nobody joins or leaves the set in the middle of a     *)
(* broadcast, however many come and go between them.  Without this, each   *)
(* broadcast may be cut short before it reaches a client, or removes one.  *)
CalmBroadcasts ==
  <>[][loop.at = "send" /\ loop'.at = "send" => active' = active]_vars

(* A connection whose client has gone leaves the set even if its endpoint  *)
(* has died without removing it, if broadcasts are not cut short for ever. *)
GoneAreForgotten ==
  CalmBroadcasts => \A c \in Clients : conn[c] = "gone" ~> c \notin active

(* A client that stays connected is sent the state again and again,        *)
(* whoever died or was abandoned half way before, on the same condition.   *)
ClientsAreUpdated ==
  CalmBroadcasts =>
    \A c \in Clients :
      <>[](conn[c] = "open") => []<><<loop.to = c /\ loop'.to # c>>_vars

(* What the code's own words say and the code does not do.                 *)

(* "Send a JSON message to all connected clients" (broadcast): whoever was *)
(* in the set when a broadcast began, and still is there when it ends, has *)
(* been sent the message.                                                  *)
BroadcastReachesAll ==
  [][loop.at = "send" /\ loop'.at = "sleep" =>
       \A c \in Unsent : conn[c] = "gone" \/ c \notin active]_vars
=============================================================================
