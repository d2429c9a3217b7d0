------------------------------- MODULE MCTraffic -------------------------------
(* Instances of Traffic for TLC. *)
EXTENDS Traffic

(* An address that the prefix "172.2" takes for a private one, a link-local *)
(* one of IPv4, one of IPv6, and one outside.                               *)
MCAddresses ==
  {<<172, 217, 1>>, <<169, 254, 1>>, <<IPv6, LinkLocal6, 1>>, <<8, 8, 1>>}

MCKnown == {<<172, 217, 1>>}

MCBytes == {0, 3}
=============================================================================
