---------------------------- MODULE MCSliceQdisc ----------------------------
(* Every mark the harness writes, one that is no slice's, and ARP. *)
EXTENDS SliceQdisc

AllKinds ==
  {[slice |-> s, ipv4 |-> TRUE, tos |-> SliceTos[s]] : s \in Slices}
  \cup {[slice |-> 0, ipv4 |-> TRUE, tos |-> t] : t \in {20}}
  \cup {[slice |-> 0, ipv4 |-> FALSE, tos |-> 0]}
SomeLimits == {0, 3}
=============================================================================
