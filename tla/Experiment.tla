----------------------------- MODULE Experiment -----------------------------
(***************************************************************************)
(* What one traffic experiment promises its reader, with no clock, event   *)
(* queue, window or drain in sight: packets are sent, some arrive, and the *)
(* report written at the end counts every packet sent and calls lost       *)
(* exactly those that did not arrive.                                      *)
(***************************************************************************)
EXTENDS Naturals, FiniteSets

CONSTANTS Packets, Unreported

VARIABLES sent, received, outcome

vars == <<sent, received, outcome>>

Init ==
  /\ sent = {}
  /\ received = {}
  /\ outcome = Unreported

Send(p) ==
  /\ outcome = Unreported /\ p \notin sent
  /\ sent' = sent \cup {p}
  /\ UNCHANGED <<received, outcome>>

Receive(p) ==
  /\ outcome = Unreported /\ p \in sent \ received
  /\ received' = received \cup {p}
  /\ UNCHANGED <<sent, outcome>>

Report ==
  /\ outcome = Unreported
  /\ outcome' = [tx |-> Cardinality(sent), lost |-> Cardinality(sent \ received)]
  /\ UNCHANGED <<sent, received>>

Next == Report \/ \E p \in Packets : Send(p) \/ Receive(p)

Spec == Init /\ [][Next]_vars
=============================================================================
