----------------------------- MODULE CustodyProofs -----------------------------
(***************************************************************************)
(* What the promise of PacketCustody means, for any agents and any number  *)
(* of packets: nothing is kept twice or out of order, and nothing is       *)
(* missing while the capture is unimpaired.  The order of the packets kept *)
(* is preserved because each of them comes before the one in hand, which   *)
(* the invariant adds.                                                     *)
(***************************************************************************)
EXTENDS PacketCustody, TLAPS

StateOK ==
  /\ received \in [Agents -> Nat]
  /\ carried \subseteq Agents
  /\ kept \in [Agents -> Seq(Nat)]

(* The packet in hand is the last one received, and has not been kept yet. *)
KeptAreReceived ==
  \A a \in Agents : \A i \in DOMAIN kept[a] :
    /\ kept[a][i] <= received[a]
    /\ a \in carried => kept[a][i] < received[a]

IInv == StateOK /\ KeptAreReceived /\ PacketsAreKept

(* Appending what is greater than all there is keeps a sequence ascending. *)
LEMMA AppendingAscends ==
  ASSUME NEW s \in Seq(Nat), NEW p \in Nat,
         \A i \in DOMAIN s : s[i] < p,
         \A i, j \in DOMAIN s : i < j => s[i] < s[j]
  PROVE  /\ Append(s, p) \in Seq(Nat)
         /\ Len(Append(s, p)) = Len(s) + 1
         /\ \A i \in DOMAIN Append(s, p) : Append(s, p)[i] <= p
         /\ \A i, j \in DOMAIN Append(s, p) :
              i < j => Append(s, p)[i] < Append(s, p)[j]
<1>1. /\ Append(s, p) \in Seq(Nat)
      /\ Len(Append(s, p)) = Len(s) + 1
      /\ DOMAIN Append(s, p) = 1 .. Len(s) + 1
      /\ DOMAIN s = 1 .. Len(s)
      /\ Len(s) \in Nat
  OBVIOUS
<1>2. /\ Append(s, p)[Len(s) + 1] = p
      /\ \A i \in 1 .. Len(s) : Append(s, p)[i] = s[i] /\ s[i] \in Nat
  OBVIOUS
<1> QED
  BY <1>1, <1>2

(* What is left of an ascending sequence ascends, and holds nothing new. *)
LEMMA LeftAscends ==
  ASSUME NEW s \in Seq(Nat), NEW t \in Seq(Nat), IsLeftOf(t, s), NEW P \in Nat,
         \A i \in DOMAIN s : s[i] <= P,
         \A i, j \in DOMAIN s : i < j => s[i] < s[j]
  PROVE  /\ \A i \in DOMAIN t : t[i] <= P /\ \E k \in DOMAIN s : t[i] = s[k]
         /\ \A i, j \in DOMAIN t : i < j => t[i] < t[j]
<1>1. PICK at \in [DOMAIN t -> DOMAIN s] :
        /\ \A i, j \in DOMAIN t : i < j => at[i] < at[j]
        /\ \A i \in DOMAIN t : t[i] = s[at[i]]
  BY DEF IsLeftOf
<1> QED
  BY <1>1

(* A failure takes out of what was kept and adds nothing. *)
LEMMA WearKeepsOrder ==
  ASSUME StateOK, KeptAreReceived, PacketsAreKept, Wear, received' = received,
         carried' \subseteq carried
  PROVE  IInv'
<1>1. kept' \in [Agents -> Seq(Nat)] /\ received \in [Agents -> Nat] /\ impaired' = TRUE
  BY DEF Wear, StateOK
<1>2. ASSUME NEW a \in Agents
      PROVE  /\ \A i \in DOMAIN kept'[a] : \E k \in DOMAIN kept[a] : kept'[a][i] = kept[a][k]
             /\ \A i, j \in DOMAIN kept'[a] : i < j => kept'[a][i] < kept'[a][j]
  <2> DEFINE old == kept[a]
             new == kept'[a]
             last == received[a]
  <2>1. old \in Seq(Nat) /\ new \in Seq(Nat) /\ last \in Nat
    BY <1>1 DEF StateOK
  <2>2. IsLeftOf(new, old)
    BY DEF Wear
  <2>3. /\ \A i \in DOMAIN old : old[i] <= last
        /\ \A i, j \in DOMAIN old : i < j => old[i] < old[j]
    BY DEF KeptAreReceived, PacketsAreKept
  <2> HIDE DEF old, new, last
  <2>4. /\ \A i \in DOMAIN new : \E k \in DOMAIN old : new[i] = old[k]
        /\ \A i, j \in DOMAIN new : i < j => new[i] < new[j]
    BY <2>1, <2>2, <2>3, LeftAscends
  <2> QED
    BY <2>4 DEF old, new
<1>3. KeptAreReceived'
  BY <1>2 DEF KeptAreReceived
<1>4. PacketsAreKept'
  BY <1>1, <1>2 DEF PacketsAreKept
<1>5. StateOK'
  BY <1>1 DEF StateOK
<1> QED
  BY <1>3, <1>4, <1>5 DEF IInv

LEMMA InitHolds == CustodyInit => IInv
  BY DEF CustodyInit, IInv, StateOK, KeptAreReceived, PacketsAreKept

LEMMA StepHolds == IInv /\ [CustodyNext]_custodyVars => IInv'
<1> SUFFICES ASSUME IInv, [CustodyNext]_custodyVars
             PROVE  IInv'
  OBVIOUS
<1> USE DEF IInv, StateOK, KeptAreReceived, PacketsAreKept
<1>1. ASSUME NEW a \in Agents, Take(a)
      PROVE  IInv'
  <2>1. /\ StateOK'
        /\ received'[a] = received[a] + 1
        /\ \A b \in Agents \ {a} : received'[b] = received[b]
        /\ carried' = carried \cup {a} /\ kept' = kept /\ impaired' = impaired
    BY <1>1 DEF Take
  <2>2. \A b \in Agents : \A i \in DOMAIN kept[b] : kept[b][i] \in Nat
    OBVIOUS
  <2>3. KeptAreReceived'
    BY <1>1, <2>1, <2>2 DEF Take
  <2>4. PacketsAreKept'
    BY <1>1, <2>1 DEF Take
  <2> QED
    BY <2>1, <2>3, <2>4
<1>2. ASSUME NEW a \in Agents, Keep(a)
      PROVE  IInv'
  <2> DEFINE s == Append(kept[a], received[a])
  <2>1. /\ kept'[a] = s
        /\ \A b \in Agents \ {a} : kept'[b] = kept[b]
        /\ a \in carried /\ carried' = carried \ {a}
        /\ received' = received /\ impaired' = impaired
    BY <1>2 DEF Keep
  <2>2. /\ s \in Seq(Nat) /\ Len(s) = Len(kept[a]) + 1
        /\ \A i \in DOMAIN s : s[i] <= received[a]
        /\ \A i, j \in DOMAIN s : i < j => s[i] < s[j]
    <3>1. /\ kept[a] \in Seq(Nat) /\ received[a] \in Nat
          /\ \A i \in DOMAIN kept[a] : kept[a][i] < received[a]
          /\ \A i, j \in DOMAIN kept[a] : i < j => kept[a][i] < kept[a][j]
      BY <2>1
    <3> QED
      BY <3>1, AppendingAscends
  <2>3. StateOK'
    BY <1>2, <2>2 DEF Keep
  <2> HIDE DEF s
  <2>4. KeptAreReceived'
    BY <2>1, <2>2
  <2>5. PacketsAreKept'
    <3>1. \A b \in Agents : \A i, j \in DOMAIN kept'[b] :
            i < j => kept'[b][i] < kept'[b][j]
      BY <2>1, <2>2
    <3>2. ASSUME ~impaired, NEW b \in Agents
          PROVE  Len(kept'[b]) = IF b \in carried' THEN received[b] - 1 ELSE received[b]
      <4>1. CASE b = a
        BY <4>1, <3>2, <2>1, <2>2
      <4>2. CASE b # a
        BY <4>2, <3>2, <2>1
      <4> QED
        BY <4>1, <4>2
    <3> QED
      BY <3>1, <3>2, <2>1
  <2> QED
    BY <2>3, <2>4, <2>5
<1>3. ASSUME NEW a \in Agents, Lose(a)
      PROVE  IInv'
  <2>1. Wear /\ received' = received /\ carried' \subseteq carried
    BY <1>3 DEF Lose
  <2> QED
    BY <2>1, WearKeepsOrder
<1>4. CASE Impair
  <2>1. Wear /\ received' = received /\ carried' \subseteq carried
    BY <1>4 DEF Impair
  <2> QED
    BY <2>1, WearKeepsOrder
<1>5. CASE UNCHANGED custodyVars
  BY <1>5 DEF custodyVars
<1> QED
  BY <1>1, <1>2, <1>3, <1>4, <1>5 DEF CustodyNext

(* Whatever implements PacketCustody keeps no packet twice or out of       *)
(* order, and keeps every packet but the one in hand until the first       *)
(* failure: write_packet, through all its rotations, as Capture shows.     *)
THEOREM CustodyKeepsPackets == CustodySpec => []PacketsAreKept
<1>1. IInv => PacketsAreKept
  BY DEF IInv
<1> QED
  BY InitHolds, StepHolds, <1>1, PTL DEF CustodySpec
=============================================================================
