----------------------------- MODULE MCResolver ------------------------------
(* Two goroutines that ask for one name.  Two sets of constants: the first for  *)
(* the retries and the shared index (time stands still), the second for the     *)
(* cache and the clock (one resolver, no retry).                                *)
EXTENDS Resolver, TLC

Symmetry == Permutations(Client)

MCClient == {"g1", "g2"}
MCKey == {"k"}
MCNoSOA == -1

Records == [rcode |-> "NOERROR", ttls |-> {0, 2}, soa |-> MCNoSOA]
Absent == [rcode |-> "NXDOMAIN", ttls |-> {}, soa |-> 0]
NoSuchRecord == [rcode |-> "NOERROR", ttls |-> {}, soa |-> MCNoSOA]

MCOneResponse == {Records}
MCResponses == {Records, Absent, NoSuchRecord}
==============================================================================
