-------------------------------- MODULE Traffic --------------------------------
(***************************************************************************)
(* What the pipeline makes of one conn.log: totals per local device,       *)
(* totals of the network and the ranking of the devices                    *)
(* (src/analysis/metrics_calculator.py), and the connections the API shows *)
(* (save_recent_connections of src/database/repository.py).  A step is one *)
(* row of the log, on which the bodies of the three loops are run; the     *)
(* ranking is computed from the devices found so far.                      *)
(*                                                                         *)
(* An address stands for its first two octets and a host, one of IPv6 for  *)
(* IPv6, its first group and a host: that is all the code looks at, as a   *)
(* prefix of the text.  A destination stands for its port and protocol     *)
(* too.  What is left out is the rates, which are totals over one period,  *)
(* the retransmissions, counted like the failures, the number of distinct  *)
(* destinations and their names.                                           *)
(***************************************************************************)
EXTENDS Integers, Sequences, FiniteSets, Functions

CONSTANTS
  Addresses,            \* addresses in the log: <<octet, octet, host>> or
                        \* <<IPv6, group, host>>
  Bytes,                \* byte counts of one direction of a connection
  Known,                \* addresses with a row in the device table
  TopN,                 \* top_n of the ranking
  MaxRows               \* bound: rows of the log

IPv6 == 256             \* no octet: the address is one of IPv6

ASSUME AddressesAssumption ==
  Addresses \subseteq ((0 .. 255) \X (0 .. 255) \X Nat)
                         \cup ({IPv6} \X (0 .. 65535) \X Nat)

ASSUME TrafficAssumption ==
  /\ Known \subseteq Addresses /\ Bytes \subseteq Nat
  /\ TopN \in Nat \ {0} /\ MaxRows \in Nat

Unset == <<>>           \* a field the row does not have: None

VARIABLES
  rows,                 \* rows read so far
  devices,              \* the dictionary of devices
  order,                \* its keys, in the order of their insertion
  network,              \* the totals of the network
  grouped,              \* what is to be stored, by source and destination
  outside               \* history, what the counts differ by: bytes counted
                        \* for no device; failures with a source that is not
                        \* local; external bytes of no connection

vars == <<rows, devices, order, network, grouped, outside>>

LinkLocal6 == 65152     \* fe80

(* The repository's _is_local: "172.2" is also a prefix of 172.2 and of    *)
(* 172.200 to 172.255.                                                     *)
IsPrivate(ip) ==
  /\ ip # Unset
  /\ \/ ip[1] = 10
     \/ <<ip[1], ip[2]>> = <<192, 168>>
     \/ ip[1] = 172 /\ ip[2] \in (16 .. 19) \cup {2} \cup (20 .. 29) \cup (200 .. 255)
                                  \cup {30, 31}
     \/ <<ip[1], ip[2]>> = <<IPv6, LinkLocal6>>

(* The calculator's _is_local_ip knows IPv4's link-local range as well. *)
IsLocal(ip) == IsPrivate(ip) \/ (ip # Unset /\ <<ip[1], ip[2]>> = <<169, 254>>)

Locals == {ip \in Addresses : IsLocal(ip)}

States == {"SF", "S0"}  \* of a connection: one that is in FAILED_STATES, and not
FailedStates == {"S0"}

Connections ==
  [src : Addresses \cup {Unset}, dst : Addresses \cup {Unset},
   orig : Bytes, resp : Bytes, state : States]

Fresh == [in |-> 0, out |-> 0, total |-> 0, failed |-> 0]

TypeOK ==
  /\ rows \in 0 .. MaxRows
  /\ order \in Seq(Locals) /\ IsInjective(order)
  /\ DOMAIN devices = Range(order)
  /\ \A ip \in DOMAIN devices :
       devices[ip] \in [in : Nat, out : Nat, total : Nat, failed : 0 .. rows]
  /\ network \in [active : {rows}, failed : 0 .. rows, internal : Nat, external : Nat]
  /\ DOMAIN grouped \subseteq Addresses \X Addresses
  /\ \A key \in DOMAIN grouped : grouped[key] \in [bytes : Nat, count : 1 .. rows]
  /\ outside \in [bytes : Nat, failed : 0 .. rows, unowned : Nat]

Init ==
  /\ rows = 0
  /\ devices = <<>> /\ order = <<>>
  /\ network = [active |-> 0, failed |-> 0, internal |-> 0, external |-> 0]
  /\ grouped = <<>>
  /\ outside = [bytes |-> 0, failed |-> 0, unowned |-> 0]
-----------------------------------------------------------------------------
Failed(c) == IF c.state \in FailedStates THEN 1 ELSE 0
Total(c) == c.orig + c.resp

(* What a connection adds to the device at its source ... *)
AddSource(m, c) ==
  [in |-> m.in + c.resp, out |-> m.out + c.orig, total |-> m.total + Total(c),
   failed |-> m.failed + Failed(c)]

(* Mutant: the failure is counted again. *)
AddDestinationFailing(m, c) ==
  [m EXCEPT !.in = @ + c.orig, !.out = @ + c.resp, !.total = @ + Total(c),
            !.failed = @ + Failed(c)]

(* ... and to the one at its destination. *)
AddDestination(m, c) ==
  [m EXCEPT !.in = @ + c.orig, !.out = @ + c.resp, !.total = @ + Total(c)]

(* Mutant: the outside is counted as well. *)
AllEnds(c) == {c.src, c.dst} \ {Unset}

(* The devices a connection is counted for. *)
LocalEnds(c) ==
  IF c.src = Unset THEN {} ELSE {ip \in {c.src, c.dst} : IsLocal(ip)}

(* The loop body of calculate_device_metrics.  The source comes first; a   *)
(* device that talks to itself is met once and counted at either end.      *)
CountDevices(c) ==
  LET met(ip) == IF ip \in LocalEnds(c) \ DOMAIN devices THEN <<ip>> ELSE <<>>
      known(ip) == IF ip \in DOMAIN devices THEN devices[ip] ELSE Fresh
      sourced(ip) == IF ip = c.src THEN AddSource(known(ip), c) ELSE known(ip)
  IN /\ order' = order \o met(c.src) \o (IF c.dst = c.src THEN <<>> ELSE met(c.dst))
     /\ devices' = [ip \in Range(order') |->
          IF ip = c.dst /\ c.src # Unset THEN AddDestination(sourced(ip), c)
          ELSE sourced(ip)]

(* The loop body of calculate_network_metrics. *)
CountNetwork(c) ==
  LET internal == IsLocal(c.src) /\ IsLocal(c.dst)
  IN network' = [active |-> network.active + 1,
                 failed |-> network.failed + Failed(c),
                 internal |-> network.internal + IF internal THEN Total(c) ELSE 0,
                 external |-> network.external + IF internal THEN 0 ELSE Total(c)]

(* Mutant: the source may be anybody. *)
IsToOutside(c) == c.src # Unset /\ c.dst # Unset /\ ~IsPrivate(c.dst)

(* From a device to somewhere that is not one. *)
IsOutbound(c) == IsPrivate(c.src) /\ c.dst # Unset /\ ~IsPrivate(c.dst)

(* The loop body of save_recent_connections. *)
GroupConnection(c) ==
  LET key == <<c.src, c.dst>>
      known == IF key \in DOMAIN grouped THEN grouped[key] ELSE [bytes |-> 0, count |-> 0]
  IN grouped' =
       IF IsOutbound(c)
         THEN [k \in DOMAIN grouped \cup {key} |->
                 IF k = key THEN [bytes |-> known.bytes + Total(c),
                                  count |-> known.count + 1]
                 ELSE grouped[k]]
         ELSE grouped

(* Rows for devices that the device table does not have are not stored. *)
RecentConnections == {key \in DOMAIN grouped : key[1] \in Known}

Row(c) ==
  /\ rows < MaxRows
  /\ rows' = rows + 1
  /\ CountDevices(c)
  /\ CountNetwork(c)
  /\ GroupConnection(c)
  /\ outside' =
       [bytes |-> outside.bytes + IF LocalEnds(c) = {} THEN Total(c) ELSE 0,
        failed |-> outside.failed + IF IsLocal(c.src) THEN 0 ELSE Failed(c),
        unowned |-> outside.unowned
          + IF (IsLocal(c.src) /\ IsLocal(c.dst)) \/ (IsPrivate(c.src) /\ c.dst # Unset)
              THEN 0 ELSE Total(c)]

Next == \E c \in Connections : Row(c)

Spec == Init /\ [][Next]_vars
-----------------------------------------------------------------------------
(* calculate_top_talkers.                                                  *)

(* sorted() keeps the order of the dictionary among equals. *)
Precedes(i, j) ==
  \/ devices[order[i]].total > devices[order[j]].total
  \/ devices[order[i]].total = devices[order[j]].total /\ i < j

Sorted ==
  [n \in DOMAIN order |->
     order[CHOOSE i \in DOMAIN order :
             Cardinality({j \in DOMAIN order : Precedes(j, i)}) = n - 1]]

Totals == [ip \in DOMAIN devices |-> devices[ip].total]

TotalOfAll == SumFunction(Totals)

(* Mutant: more than the average. *)
IsAboveAverage(ip) == devices[ip].total * Cardinality(DOMAIN devices) > TotalOfAll

(* More than twice the average. *)
IsHog(ip) == devices[ip].total * Cardinality(DOMAIN devices) > 2 * TotalOfAll

TopTalkers ==
  LET top == SubSeq(Sorted, 1, IF Len(order) < TopN THEN Len(order) ELSE TopN)
  IN [rank \in DOMAIN top |->
        [ip |-> top[rank], total |-> devices[top[rank]].total, hog |-> IsHog(top[rank])]]
-----------------------------------------------------------------------------
(* Properties.                                                             *)

Failures == [ip \in DOMAIN devices |-> devices[ip].failed]

(* The two calculators, which read the log separately, account for the     *)
(* same bytes: traffic between two local devices is counted at both of its *)
(* ends, traffic with the outside at one, no byte twice or not at all.  A  *)
(* failure is counted for its source alone.  The network's failures are    *)
(* not the "sum across all devices" that the module announces for          *)
(* failed_connections_global: the code adds those of connections that come *)
(* from outside or have no source, and the difference is theirs exactly.   *)
TotalsAreConserved ==
  /\ SumFunction(Totals)
       = 2 * network.internal + network.external - outside.bytes
  /\ \A ip \in DOMAIN devices :
       devices[ip].total = devices[ip].in + devices[ip].out
  /\ network.failed = SumFunction(Failures) + outside.failed

(* The third reading of the log, with a rule of its own for what is local, *)
(* agrees with the other two: the connections it groups are the network's  *)
(* traffic with the outside, but for what came from outside and those with *)
(* link-local addresses, which it takes for outside; and what is stored of *)
(* a device is at most what the device was seen to move.                   *)
ConnectionsAreConserved ==
  LET bytes(keys) == SumFunction([key \in keys |-> grouped[key].bytes])
  IN  /\ bytes({key \in DOMAIN grouped : ~IsLocal(key[2])}) + outside.unowned
           = network.external
      /\ \A ip \in {key[1] : key \in RecentConnections} :
           /\ ip \in DOMAIN devices
           /\ bytes({key \in RecentConnections : key[1] = ip}) <= devices[ip].total

(* The ranking descends, has no device twice and leaves out no device that *)
(* consumes more than one it holds.  Hogs head it and are less than half   *)
(* of the devices: a network of one or two devices has none.               *)
HogsHeadTheRanking ==
  LET places == DOMAIN TopTalkers
      hogs == {i \in places : TopTalkers[i].hog}
  IN /\ \A i, j \in places : i < j =>
          /\ TopTalkers[i].ip # TopTalkers[j].ip
          /\ TopTalkers[i].total >= TopTalkers[j].total
          /\ j \in hogs => i \in hogs
     /\ Len(TopTalkers) = TopN \/ Len(TopTalkers) = Cardinality(DOMAIN devices)
     /\ \A ip \in DOMAIN devices \ {TopTalkers[i].ip : i \in places} :
          \A i \in places : TopTalkers[i].total >= devices[ip].total
     /\ hogs # {} => 2 * Cardinality(hogs) < Cardinality(DOMAIN devices)
=============================================================================
