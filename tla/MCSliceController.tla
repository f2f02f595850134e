------------------------- MODULE MCSliceController -------------------------
EXTENDS SliceController

NoFixedShare == [s \in Slices |-> 0]
(* The published RU ratio of the comparator arm. *)
RatioShare == BySlice(10, 30, 60)

OnePass == [fixedShare |-> NoFixedShare, secondRound |-> FALSE]
TwoPass == [fixedShare |-> NoFixedShare, secondRound |-> TRUE]
Ratio == [fixedShare |-> RatioShare, secondRound |-> FALSE]

AllArms == {OnePass, TwoPass, Ratio}
DefaultArm == {OnePass}
OnePacketSeed == [s \in Slices |-> MinLimit]
(* More than the node can admit: the split of the start is contended. *)
HeavySeed == BySlice(30, 10, 50)
=============================================================================
