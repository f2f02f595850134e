----------------------------- MODULE LinkTable -----------------------------
(***************************************************************************)
(* The clean-up of the measured link table (harness/warmup.cc): a value    *)
(* that was never measured, or lies far off the median, takes the median.  *)
(*                                                                         *)
(* D_Variant is D with a plausible mistake in it, for the runs to find.    *)
(***************************************************************************)
EXTENDS Integers, FiniteSets

CONSTANT NumEdges    \* rows of the table, one per swept edge

ASSUME EdgesAssumption == NumEdges \in Nat \ {0}

Edges == 1..NumEdges
Unset == -1          \* a value no flow gave

(* The element at index size/2 of the sorted values of f over S. *)
Median(f, S) ==
  CHOOSE m \in {f[e] : e \in S} :
    /\ Cardinality({e \in S : f[e] < m}) <= Cardinality(S) \div 2
    /\ Cardinality({e \in S : f[e] <= m}) > Cardinality(S) \div 2

MeasuredDelay(t) == {e \in DOMAIN t : t[e].delay > 0}
MeasuredCapacity(t) == {e \in DOMAIN t : t[e].capacity > 0}

MedianDelay(t) == Median([e \in DOMAIN t |-> t[e].delay], MeasuredDelay(t))
MedianCapacity(t) == Median([e \in DOMAIN t |-> t[e].capacity], MeasuredCapacity(t))

DelayIsOff(t, e) == t[e].delay <= 0 \/ t[e].delay > 4 * MedianDelay(t)
CapacityIsOff(t, e) == t[e].capacity <= 0 \/ 4 * t[e].capacity < MedianCapacity(t)

MedianCorrectOutliers_AnyRow(t) ==
  LET d == Median([e \in DOMAIN t |-> t[e].delay], DOMAIN t)
      c == Median([e \in DOMAIN t |-> t[e].capacity], DOMAIN t)
  IN  IF MeasuredDelay(t) = {} \/ MeasuredCapacity(t) = {} THEN t
      ELSE [e \in DOMAIN t |->
             [t[e] EXCEPT !.delay = IF DelayIsOff(t, e) THEN d ELSE @,
                          !.capacity = IF CapacityIsOff(t, e) THEN c ELSE @]]

(* Nothing is corrected when no delay, or no capacity, was measured. *)
MedianCorrectOutliers(t) ==
  IF MeasuredDelay(t) = {} \/ MeasuredCapacity(t) = {} THEN t
  ELSE [e \in DOMAIN t |->
         [t[e] EXCEPT !.delay = IF DelayIsOff(t, e) THEN MedianDelay(t) ELSE @,
                      !.capacity = IF CapacityIsOff(t, e) THEN MedianCapacity(t) ELSE @]]
=============================================================================
