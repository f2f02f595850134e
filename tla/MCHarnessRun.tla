---------------------------- MODULE MCHarnessRun ----------------------------
(* Command lines for the runs of HarnessRun; times are half seconds. *)
EXTENDS HarnessRun

Line == [olsr |-> FALSE, gaRoute |-> FALSE, warmup |-> FALSE, sliceTest |-> FALSE,
         linkTable |-> FALSE, router |-> "nsga", members |-> <<0, 0, 0>>, gridWidth |-> 3,
         sampleEdges |-> 0, bidir |-> FALSE, measure |-> <<2, 6>>]
Routed == [Line EXCEPT !.gaRoute = TRUE]

(* Every choice of mode, the ones refused among them. *)
Modes ==
  {[Line EXCEPT !.olsr = o, !.gaRoute = g, !.warmup = w, !.sliceTest = s] :
     o, g, w, s \in BOOLEAN}
Distinct == {a \in Modes : a.gaRoute /\ ~a.olsr => ~a.warmup /\ ~a.sliceTest}
(* Member counts odd, too many, none; windows that do not fit. *)
Refused ==
  {[Routed EXCEPT !.members = <<3, 2, 2>>], [Routed EXCEPT !.members = <<4, 4, 2>>],
   [Routed EXCEPT !.gridWidth = 1], [Routed EXCEPT !.linkTable = TRUE, !.measure = <<9, 0>>]}
(* A given table, the other optimiser, given counts, windows in any order. *)
Reused ==
  {[Routed EXCEPT !.linkTable = TRUE, !.router = "seng", !.members = <<2, 2, 0>>,
                  !.measure = <<3, 9, 5>>]}
AllRuns == Distinct \cup Refused \cup Reused

(* Two of twelve edges sampled: the sweep's safety Stop is 42 s away. *)
Sampled == {[Routed EXCEPT !.sampleEdges = 2, !.measure = <<4>>]}
(* The largest grid of the study. *)
Largest == {[Routed EXCEPT !.gridWidth = 32, !.measure = <<4>>]}

SweepTakes == {5}
NoRetries == {0}
OneRetry == {0, 1}
SomeRetries == {0, 600}
=============================================================================
