----------------------------- MODULE PacketCustody -----------------------------
(***************************************************************************)
(* What the capture path promises about the packets of an agent            *)
(* (src/receivers/tcp_receiver.py, src/ingestion/pcap_assembler.py): each  *)
(* agent's packets are taken one at a time, and each is kept behind those  *)
(* kept before it, or lost.  Before the capture is impaired none is lost,  *)
(* and what is kept stays kept; when it is, packets may be missing, but    *)
(* never are any out of place.                                             *)
(*                                                                         *)
(* There is no file, no lock and no rotation here: kept is one sequence    *)
(* per agent, whatever files it is spread over.                            *)
(***************************************************************************)
EXTENDS Naturals, Sequences

CONSTANT Agents         \* the agents' connections

VARIABLES
  received,             \* packets taken from each agent so far
  carried,              \* the agents whose last packet is in hand
  kept,                 \* the numbers of the packets kept of each agent
  impaired              \* a file failed, a clock went back, or it is closed

custodyVars == <<received, carried, kept, impaired>>

CustodyInit ==
  /\ received = [a \in Agents |-> 0]
  /\ carried = {}
  /\ kept = [a \in Agents |-> <<>>]
  /\ impaired = FALSE

Take(a) ==
  /\ a \notin carried
  /\ received' = [received EXCEPT ![a] = @ + 1]
  /\ carried' = carried \cup {a}
  /\ UNCHANGED <<kept, impaired>>

Keep(a) ==
  /\ a \in carried
  /\ kept' = [kept EXCEPT ![a] = Append(@, received[a])]
  /\ carried' = carried \ {a}
  /\ UNCHANGED <<received, impaired>>

(* t is what is left of s when some of it is taken out. *)
IsLeftOf(t, s) ==
  \E at \in [DOMAIN t -> DOMAIN s] :
    /\ \A i, j \in DOMAIN t : i < j => at[i] < at[j]
    /\ \A i \in DOMAIN t : t[i] = s[at[i]]

(* A failure, which may be the first, costs some of what was kept, or none. *)
Wear ==
  /\ impaired' = TRUE
  /\ kept' \in [Agents -> Seq(Nat)]
  /\ \A a \in Agents : IsLeftOf(kept'[a], kept[a])

(* It loses the packet in hand. *)
Lose(a) ==
  /\ a \in carried
  /\ carried' = carried \ {a}
  /\ Wear
  /\ UNCHANGED received

Impair ==
  /\ Wear
  /\ UNCHANGED <<received, carried>>

CustodyNext ==
  \/ \E a \in Agents : Take(a) \/ Keep(a) \/ Lose(a)
  \/ Impair

CustodySpec == CustodyInit /\ [][CustodyNext]_custodyVars

(* No packet is kept twice or out of order; and unless the capture is      *)
(* impaired every packet received is kept, but for the one in hand.        *)
PacketsAreKept ==
  \A a \in Agents :
    /\ \A i, j \in DOMAIN kept[a] : i < j => kept[a][i] < kept[a][j]
    /\ ~impaired =>
         Len(kept[a]) = IF a \in carried THEN received[a] - 1 ELSE received[a]
=============================================================================
