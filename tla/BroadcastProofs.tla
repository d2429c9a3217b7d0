---------------------------- MODULE BroadcastProofs ----------------------------
(***************************************************************************)
(* Proofs about Broadcast, for any set of clients: a client that is there  *)
(* and whose endpoint is reading is never taken out of the connection set. *)
(* Only a failed send takes a client out against its endpoint's will, so   *)
(* the invariant says what the loop's failed sends have in common: their   *)
(* clients have gone.  A client that comes back is a new connection, and   *)
(* takes no place that the loop still knows as an old one's.               *)
(***************************************************************************)
EXTENDS Broadcast, FiniteSetTheorems, TLAPS

(* The loop is a record of these fields, and sends to clients only. *)
LoopOK ==
  /\ loop = [at |-> loop.at, to |-> loop.to, left |-> loop.left,
             size |-> loop.size, dead |-> loop.dead, unsent |-> loop.unsent]
  /\ loop.at = "send" => loop.to \in Clients
  /\ loop.left \subseteq Clients
  /\ loop.dead \subseteq Clients

StateOK ==
  /\ conn \in [Clients -> {"none", "open", "gone"}]
  /\ task \in [Clients -> {"none", "accepting", "reading", "ended"}]
  /\ active \subseteq Clients
  /\ LoopOK

(* An endpoint that has ended, and a send that has failed, mean that the   *)
(* client has gone; one that has not connected yet is not there.           *)
EndsAreGone ==
  /\ \A c \in Clients : task[c] = "none" => conn[c] = "none"
  /\ \A c \in Clients : task[c] = "ended" => conn[c] = "gone"
  /\ \A c \in loop.dead : conn[c] = "gone"

IInv == StateOK /\ EndsAreGone /\ ReadersAreActive

LEMMA InitHolds == Init => IInv
  BY DEF Init, Asleep, IInv, StateOK, LoopOK, EndsAreGone, ReadersAreActive

(* Whoever a broadcast finds dead has gone. *)
LEMMA OutcomesAreGone ==
  ASSUME IInv, loop.at = "send", NEW dead \in Outcomes
  PROVE  dead \subseteq Clients /\ \A c \in dead : conn[c] = "gone"
  BY DEF IInv, StateOK, LoopOK, EndsAreGone, Outcomes

LEMMA ClosedAreGone ==
  ASSUME IInv, NEW c \in Clients
  PROVE  Closed(c) \subseteq Clients /\ \A d \in Closed(c) : conn[d] = "gone"
  BY DEF IInv, StateOK, EndsAreGone, Closed

(* What a client and its endpoint do. *)
LEMMA ClientStep ==
  ASSUME IInv, NEW c \in Clients,
         Connect(c) \/ Vanish(c) \/ EndpointFails(c) \/ Endpoint(c)
  PROVE  IInv'
<1> USE DEF IInv, StateOK, LoopOK, EndsAreGone, ReadersAreActive
<1>1. CASE Connect(c)
  BY <1>1 DEF Connect, Vacant
<1>2. CASE Vanish(c)
  BY <1>2 DEF Vanish
<1>3. CASE EndpointFails(c)
  BY <1>3 DEF EndpointFails
<1>4. CASE Accepted(c)
  BY <1>4 DEF Accepted
<1>5. CASE AcceptFails(c)
  BY <1>5 DEF AcceptFails
<1>6. CASE Disconnect(c)
  BY <1>6 DEF Disconnect
<1> QED
  BY <1>1, <1>2, <1>3, <1>4, <1>5, <1>6 DEF Endpoint

(* What the broadcast loop does. *)
LEMMA LoopStep ==
  ASSUME IInv, (\E c \in Clients : StartBroadcast(c)) \/ Sending
  PROVE  IInv'
<1> USE DEF IInv, StateOK, LoopOK, EndsAreGone, ReadersAreActive
<1>1. ASSUME NEW c \in Clients, StartBroadcast(c)
      PROVE  IInv'
  BY <1>1, ClosedAreGone DEF StartBroadcast
<1>2. ASSUME NEW c \in Clients, SendNext(c)
      PROVE  IInv'
  <2>1. PICK dead \in Outcomes :
          loop' = [loop EXCEPT !.to = c, !.left = @ \ {c},
                               !.dead = dead \cup Closed(c), !.unsent = Unsent]
    BY <1>2 DEF SendNext
  <2>2. loop' = [at |-> loop.at, to |-> c, left |-> loop.left \ {c},
                 size |-> loop.size, dead |-> dead \cup Closed(c),
                 unsent |-> Unsent]
    BY <2>1
  <2>3. /\ dead \cup Closed(c) \subseteq Clients
        /\ \A d \in dead \cup Closed(c) : conn[d] = "gone"
    BY <1>2, ClosedAreGone, OutcomesAreGone DEF SendNext
  <2> QED
    BY <1>2, <2>2, <2>3 DEF SendNext
<1>3. CASE EndBroadcast
  BY <1>3, OutcomesAreGone DEF EndBroadcast, Asleep
<1>4. CASE AbortBroadcast
  BY <1>4 DEF AbortBroadcast, Asleep
<1> QED
  BY ONLY <1>1, <1>2, <1>3, <1>4, (\E c \in Clients : StartBroadcast(c)) \/ Sending
  DEF Sending

LEMMA StepHolds == IInv /\ [Next]_vars => IInv'
<1> SUFFICES ASSUME IInv, [Next]_vars PROVE IInv'
  OBVIOUS
<1>1. CASE PushAlert \/ UNCHANGED vars
  BY <1>1 DEF PushAlert, vars, IInv, StateOK, LoopOK, EndsAreGone, ReadersAreActive
<1> QED
  BY <1>1, ClientStep, LoopStep DEF Next

(* A client that is there and whose endpoint is reading is in the set.     *)
THEOREM ReadersStayActive == Spec => []ReadersAreActive
<1>1. IInv => ReadersAreActive
  BY DEF IInv
<1> QED
  BY InitHolds, StepHolds, <1>1, PTL DEF Spec

(* The set of connections is finite, and not empty while it is sent to. *)
LEMMA ActiveSize ==
  ASSUME active \subseteq Clients, NEW c \in active
  PROVE  Cardinality(active) \in 1 .. Cardinality(Clients)
<1>1. /\ IsFiniteSet(Clients) /\ IsFiniteSet(active)
      /\ Cardinality(active) <= Cardinality(Clients)
  BY BroadcastAssumption, FS_Subset
<1>2. Cardinality(active) \in Nat /\ Cardinality(Clients) \in Nat
  BY <1>1, FS_CardinalityType
<1>3. Cardinality(active) # 0
  BY <1>1, FS_EmptySet
<1> QED
  BY <1>1, <1>2, <1>3

(* What a client and its endpoint do to the types. *)
LEMMA ClientTypes ==
  ASSUME TypeOK, StateOK, NEW c \in Clients,
         Connect(c) \/ Vanish(c) \/ EndpointFails(c) \/ Endpoint(c)
  PROVE  TypeOK'
<1>1. CASE Connect(c)
  BY <1>1 DEF Connect, Vacant, TypeOK
<1>2. CASE Vanish(c)
  BY <1>2 DEF Vanish, TypeOK
<1>3. CASE EndpointFails(c)
  BY <1>3 DEF EndpointFails, TypeOK
<1>4. CASE Accepted(c)
  <2> DEFINE Room == /\ active' \subseteq Clients
                     /\ task' \in [Clients -> {"none", "accepting", "reading", "ended"}]
  <2>1. Room
    BY <1>4 DEF Accepted, TypeOK
  <2>2. CASE loop.at = "send"
    <3>1. PICK left \in SUBSET active' : loop' = [loop EXCEPT !.left = left]
      BY <1>4, <2>2 DEF Accepted
    <3> QED
      BY <1>4, <2>1, <2>2, <3>1 DEF Accepted, TypeOK, StateOK, LoopOK, Asleep
  <2>3. CASE loop.at # "send"
    BY <1>4, <2>1, <2>3 DEF Accepted, TypeOK, Asleep
  <2> QED
    BY <2>2, <2>3
<1>5. CASE AcceptFails(c)
  BY <1>5 DEF AcceptFails, TypeOK
<1>6. CASE Disconnect(c)
  BY <1>6 DEF Disconnect, TypeOK, StateOK, LoopOK, Asleep
<1> QED
  BY <1>1, <1>2, <1>3, <1>4, <1>5, <1>6 DEF Endpoint

(* What the broadcast loop does to them. *)
LEMMA LoopTypes ==
  ASSUME TypeOK, IInv, (\E c \in Clients : StartBroadcast(c)) \/ Sending
  PROVE  TypeOK'
<1>1. ASSUME NEW c \in Clients, StartBroadcast(c)
      PROVE  TypeOK'
  <2>1. Closed(c) \subseteq Clients
    BY DEF Closed
  <2>2. Cardinality(active) \in 1 .. Cardinality(Clients)
    BY <1>1, ActiveSize DEF StartBroadcast, TypeOK
  <2>3. queue' \in [{Api, Engine} -> 0 .. MaxAlerts]
    BY <1>1, BroadcastAssumption DEF StartBroadcast, TypeOK
  <2> QED
    BY <1>1, <2>1, <2>2, <2>3 DEF StartBroadcast, TypeOK
<1>2. ASSUME NEW c \in Clients, SendNext(c)
      PROVE  TypeOK'
  <2>1. PICK dead \in Outcomes :
          loop' = [loop EXCEPT !.to = c, !.left = @ \ {c},
                               !.dead = dead \cup Closed(c), !.unsent = Unsent]
    BY <1>2 DEF SendNext
  <2>2. dead \cup Closed(c) \subseteq Clients
    BY <1>2, ClosedAreGone, OutcomesAreGone DEF SendNext
  <2> QED
    <3>1. /\ loop # Asleep
          /\ loop.left \subseteq active /\ loop.size \in 1 .. Cardinality(Clients)
          /\ loop.unsent \subseteq Clients
      BY <1>2 DEF SendNext, TypeOK, Asleep
    <3>2. loop' = [at |-> loop.at, to |-> c, left |-> loop.left \ {c},
                   size |-> loop.size, dead |-> dead \cup Closed(c),
                   unsent |-> Unsent]
      BY <2>1 DEF IInv, StateOK, LoopOK
    <3>3. /\ loop'.at = "send" /\ loop'.to \in Clients
          /\ loop'.left \subseteq active /\ loop'.size \in 1 .. Cardinality(Clients)
          /\ loop'.dead \subseteq Clients /\ loop'.unsent \subseteq Clients
      BY <1>2, <2>2, <3>1, <3>2 DEF SendNext, Unsent
    <3> QED
      BY <1>2, <3>3 DEF SendNext, TypeOK
<1>3. CASE EndBroadcast
  BY <1>3 DEF EndBroadcast, TypeOK
<1>4. CASE AbortBroadcast
  BY <1>4 DEF AbortBroadcast, TypeOK
<1> QED
  BY ONLY <1>1, <1>2, <1>3, <1>4, (\E c \in Clients : StartBroadcast(c)) \/ Sending
  DEF Sending

LEMMA TypesStep == TypeOK /\ IInv /\ [Next]_vars => TypeOK'
<1> SUFFICES ASSUME TypeOK, IInv, [Next]_vars PROVE TypeOK'
  OBVIOUS
<1>1. CASE PushAlert
  BY <1>1, BroadcastAssumption DEF PushAlert, TypeOK
<1>2. CASE UNCHANGED vars
  BY <1>2 DEF vars, TypeOK
<1> QED
  BY <1>1, <1>2, ClientTypes, LoopTypes DEF Next, IInv

(* The broadcast that is under way has yet to reach only connections that  *)
(* are in the set, and the alerts of either queue stay within their bound. *)
THEOREM BroadcastTypes == Spec => []TypeOK
<1>1. Init => TypeOK
  BY BroadcastAssumption DEF Init, TypeOK
<1> QED
  BY InitHolds, StepHolds, TypesStep, <1>1, PTL DEF Spec
=============================================================================
