-------------------------- MODULE WarmupSweep_proofs --------------------------
(***************************************************************************)
(* Proofs about the warm-up sweep, for any number of edges and rounds, any *)
(* probe sizes and any length of the windows and stall limits: probes never*)
(* overlap, a flush never cuts a backlog that moves, a healthy edge has    *)
(* statistics of its own when the sweep concludes, and the safety Stop does*)
(* not fire if its budget covers the longest probe.                        *)
(***************************************************************************)
EXTENDS WarmupSweep, FiniteSetTheorems, WellFoundedInduction, TLAPS

(* The medium is idle but for the edge under the cursor, and wholly idle   *)
(* while the retry pass judges.                                            *)
QuietOK ==
  /\ OneProbeOnAir
  /\ stage = "retry" => Held = 0

(* A pending edge has a probe of this round to come; one that is not       *)
(* pending has been probed.                                                *)
ProbesOK ==
  /\ \A e \in Edges : /\ attempts[e] <= round
                      /\ e \in pending => attempts[e] < round
                      /\ e \notin pending => attempts[e] > 0
  /\ stage \in {"retry", "stopping"} => pending = {}

(* The poller's count bounds what the sender holds: one equal to it has    *)
(* not moved since the poller first saw it.                                *)
GateOK ==
  /\ lastSent <= clock /\ drainLastChange <= clock
  /\ drainLast # Unset =>
       /\ stage \in {"drain", "done"}
       /\ Held <= drainLast
       /\ Held = drainLast => lastSent <= drainLastChange

(* What a sink has counted, FlowMonitor has seen. *)
FlowsOK ==
  \A e \in Edges :
    /\ heard[e]["L"] > 0 => flow[e]["L"] > 0
    /\ heard[e]["R"] > 0 => flow[e]["R"] = CapacityOf(heard[e]["R"])

IInv == TypeOK /\ QuietOK /\ ProbesOK /\ GateOK /\ FlowsOK

-----------------------------------------------------------------------------
LEMMA HasLeast ==
  ASSUME NEW S \in SUBSET Nat, S # {}
  PROVE  \E m \in S : \A n \in S : m <= n
<1>1. PICK m \in S : \A n \in S : ~(<<n, m>> \in OpToRel(<, Nat))
  BY NatLessThanWellFounded, WFMin, Zenon
<1>2. \A n \in S : ~(n < m)
  BY <1>1 DEF OpToRel
<1> QED
  BY <1>2

LEMMA ArmedStopNat == ArmedStop \in Nat
<1>1. NumEdges * EdgeBudget \in Nat
  BY EdgesAssumption, SweepAssumption
<1>2. MaxRounds + 1 \in Nat
  BY SweepAssumption
<1> DEFINE edges == NumEdges * EdgeBudget
           rounds == MaxRounds + 1
<1>3. edges \in Nat /\ rounds \in Nat
  BY <1>1, <1>2
<1> HIDE DEF edges, rounds
<1>4. edges * rounds + 2 \in Nat
  BY <1>3
<1> QED
  BY <1>4 DEF ArmedStop, edges, rounds

PerWindow(R) == [Edges -> [Windows -> R]]

LEMMA Update ==
  ASSUME NEW R, NEW f \in PerWindow(R), NEW e \in Edges, NEW w \in Windows, NEW v \in R
  PROVE  /\ [f EXCEPT ![e][w] = v] \in PerWindow(R)
         /\ \A d \in Edges, x \in Windows :
              [f EXCEPT ![e][w] = v][d][x] = IF d = e /\ x = w THEN v ELSE f[d][x]
BY DEF PerWindow

LEMMA Reset ==
  ASSUME NEW f \in PerWindow(Nat), NEW e \in Edges
  PROVE  /\ [f EXCEPT ![e] = Nothing] \in PerWindow(Nat)
         /\ \A d \in Edges, x \in Windows :
              [f EXCEPT ![e] = Nothing][d][x] = IF d = e THEN 0 ELSE f[d][x]
BY DEF PerWindow, Nothing

(* What a step is, for a start of the next edge: there is none left, or e  *)
(* is probed next.                                                         *)
NoneLeft(todo, left) ==
  /\ todo = {}
  /\ stage' = "retry" /\ due' = clock
  /\ pending' = {} /\ queued' = left
  /\ UNCHANGED <<edge, heard, attempts, lastSent>>

Probes(e, todo, left) ==
  /\ stage' = "L" /\ due' = clock + WindowSec /\ edge' = e
  /\ pending' = todo \ {e}
  /\ queued' \in PerWindow(Nat) /\ \A d \in Edges \ {e} : queued'[d] = left[d]
  /\ \A x \in Windows : queued'[e][x] = IF x = "L" THEN left[e]["L"] + 1 ELSE left[e][x]
  /\ heard' = [heard EXCEPT ![e] = Nothing]
  /\ attempts' = [attempts EXCEPT ![e] = @ + 1]
  /\ lastSent' = clock

LEMMA StartSteps ==
  ASSUME NEW todo \in SUBSET Edges, NEW left \in PerWindow(Nat), StartNextEdge(todo, left)
  PROVE  NoneLeft(todo, left) \/ \E e \in todo : Probes(e, todo, left)
<1>1. CASE AtCursor(todo) = {}
  <2>1. todo = {}
    <3>1. todo \in SUBSET Nat
      BY EdgesAssumption DEF Edges
    <3> QED
      BY <1>1, <3>1, HasLeast DEF AtCursor
  <2> QED
    BY <1>1, <2>1 DEF StartNextEdge, NoneLeft
<1>2. ASSUME NEW e \in AtCursor(todo),
             /\ stage' = "L" /\ due' = clock + WindowSec /\ edge' = e
             /\ pending' = todo \ {e}
             /\ queued' = [left EXCEPT ![e]["L"] = @ + 1]
             /\ heard' = [heard EXCEPT ![e] = Nothing]
             /\ attempts' = [attempts EXCEPT ![e] = @ + 1]
             /\ lastSent' = clock
      PROVE  \E d \in todo : Probes(d, todo, left)
  <2>1. e \in todo
    BY DEF AtCursor
  <2>2. left[e]["L"] + 1 \in Nat /\ "L" \in Windows
    BY <2>1 DEF PerWindow, Windows
  <2>3. queued' \in PerWindow(Nat)
    BY <1>2, <2>1, <2>2, Update
  <2>4. \A d \in Edges \ {e} : queued'[d] = left[d]
    BY <1>2, <2>1 DEF PerWindow
  <2>5. \A x \in Windows : queued'[e][x] = IF x = "L" THEN left[e]["L"] + 1 ELSE left[e][x]
    BY <1>2, <2>1, <2>2, Update
  <2> QED
    BY <1>2, <2>1, <2>3, <2>4, <2>5 DEF Probes
<1> QED
  BY <1>1, <1>2 DEF StartNextEdge

LEMMA MediumSteps ==
  ASSUME TypeOK, OneProbeOnAir, NEW e \in Edges, NEW w \in Windows, Deliver(e, w) \/ Lose(e, w)
  PROVE  /\ e = edge
         /\ queued' \in PerWindow(Nat)
         /\ \A d \in Edges \ {edge} : queued'[d] = queued[d]
         /\ Held' = Held - 1 /\ Held' \in Nat
         /\ lastSent' = clock
         /\ UNCHANGED <<clock, stage, due, edge, pending, round, gate, attempts, table>>
<1>1. /\ queued[e][w] > 0 /\ queued' = [queued EXCEPT ![e][w] = @ - 1]
      /\ lastSent' = clock
      /\ UNCHANGED <<clock, stage, due, edge, pending, round, gate, attempts, table>>
  BY DEF Deliver, Lose
<1>2. queued \in PerWindow(Nat) /\ edge \in Edges
  BY DEF TypeOK, PerWindow
<1>3. queued[e]["L"] \in Nat /\ queued[e]["R"] \in Nat /\ w \in {"L", "R"}
  BY <1>2 DEF PerWindow, Windows
<1>4. e = edge
  BY <1>1, <1>3 DEF OneProbeOnAir, HeldFor
<1>5. queued[e][w] - 1 \in Nat
  BY <1>1, <1>3
<1>6. queued' \in PerWindow(Nat)
  BY <1>1, <1>2, <1>5, Update
<1>7. \A d \in Edges \ {edge} : queued'[d] = queued[d]
  BY <1>1, <1>2, <1>4 DEF PerWindow
<1>8. \A x \in Windows : queued'[e][x] = IF x = w THEN queued[e][w] - 1 ELSE queued[e][x]
  BY <1>1, <1>2, <1>5, Update
<1>9. Held' = queued'[e]["L"] + queued'[e]["R"]
  BY <1>1, <1>4 DEF Held, HeldFor
<1>10. Held = queued[e]["L"] + queued[e]["R"]
  BY <1>4 DEF Held, HeldFor
<1>11. Held' = Held - 1 /\ Held' \in Nat
  BY <1>1, <1>3, <1>5, <1>8, <1>9, <1>10 DEF Windows
<1> QED
  BY <1>1, <1>4, <1>6, <1>7, <1>11

(* The flush of the drain, and the start that follows it. *)
LEMMA FlushSteps ==
  ASSUME TypeOK, DrainDone
  PROVE  /\ Flushed \in PerWindow(Nat)
         /\ \A d \in Edges, x \in Windows : Flushed[d][x] = IF d = edge THEN 0 ELSE queued[d][x]
         /\ NoneLeft(pending, Flushed) \/ \E e \in pending : Probes(e, pending, Flushed)
         /\ stage = "drain" /\ due = clock
         /\ drainLast' = Unset /\ drainLastChange' = ChangedAt
         /\ UNCHANGED <<clock, round, flow, table>>
<1>1. queued \in PerWindow(Nat) /\ edge \in Edges /\ pending \in SUBSET Edges
  BY DEF TypeOK, PerWindow
<1>2. /\ Flushed \in PerWindow(Nat)
      /\ \A d \in Edges, x \in Windows : Flushed[d][x] = IF d = edge THEN 0 ELSE queued[d][x]
  BY <1>1, Reset DEF Flushed
<1>3. StartNextEdge(pending, Flushed)
  BY DEF DrainDone
<1>4. NoneLeft(pending, Flushed) \/ \E e \in pending : Probes(e, pending, Flushed)
  BY <1>1, <1>2, <1>3, StartSteps
<1> QED
  BY <1>2, <1>4 DEF DrainDone

(* A retry always has an edge to start. *)
LEMMA RetrySteps ==
  ASSUME TypeOK, Retry
  PROVE  /\ \E e \in Bad : Probes(e, Bad, queued)
         /\ stage = "retry" /\ round < MaxRounds /\ round' = round + 1
         /\ UNCHANGED <<clock, gate, flow, table>>
<1>1. queued \in PerWindow(Nat) /\ Bad \in SUBSET Edges
  BY DEF TypeOK, PerWindow, Bad
<1>2. StartNextEdge(Bad, queued) /\ Bad # {}
  BY DEF Retry
<1>3. \E e \in Bad : Probes(e, Bad, queued)
  BY <1>1, <1>2, StartSteps DEF NoneLeft
<1> QED
  BY <1>3 DEF Retry

(* What the windows leave alone. *)
LEMMA WindowSteps ==
  ASSUME TypeOK, WindowEnds
  PROVE  /\ queued' \in PerWindow(Nat)
         /\ \A d \in Edges \ {edge} : queued'[d] = queued[d]
         /\ lastSent' \in {lastSent, clock}
         /\ due' \in {clock, clock + GuardSec, clock + WindowSec}
         /\ stage \in {"L", "after L", "R", "after R"}
         /\ stage' \in {"after L", "R", "after R", "drain"}
         /\ UNCHANGED <<clock, edge, pending, round, gate, heard, flow, attempts, table>>
<1>1. queued \in PerWindow(Nat) /\ edge \in Edges /\ ProbeSize[edge] \in Nat
  BY SweepAssumption DEF TypeOK, PerWindow
<1>2. CASE queued' = queued
  BY <1>1, <1>2 DEF WindowEnds
<1>3. CASE queued' = [queued EXCEPT ![edge]["R"] = @ + ProbeSize[edge]]
  <2>1. queued[edge]["R"] + ProbeSize[edge] \in Nat /\ "R" \in Windows
    BY <1>1 DEF PerWindow, Windows
  <2>2. queued' \in PerWindow(Nat)
    BY <1>1, <1>3, <2>1, Update
  <2>3. \A d \in Edges \ {edge} : queued'[d] = queued[d]
    BY <1>1, <1>3 DEF PerWindow
  <2> QED
    BY <2>2, <2>3 DEF WindowEnds
<1> QED
  BY <1>2, <1>3 DEF WindowEnds

-----------------------------------------------------------------------------
LEMMA InitInvariant ==
  ASSUME Init
  PROVE  IInv
<1>1. 1 \in Edges
  BY EdgesAssumption DEF Edges
<1>2. queued \in PerWindow(Nat) /\ \A e \in Edges \ {1} : queued[e]["L"] = 0 /\ queued[e]["R"] = 0
  BY DEF Init, PerWindow, Nothing, Windows
<1>3. TypeOK
  <2>1. clock \in 0..ArmedStop
    BY ArmedStopNat DEF Init
  <2>2. flow \in PerWindow(Int) /\ heard \in PerWindow(Nat)
    BY DEF Init, PerWindow, Nothing, Unset
  <2>3. attempts \in [Edges -> 0..MaxRounds] /\ round \in 1..MaxRounds
    BY SweepAssumption DEF Init
  <2> QED
    BY <1>1, <1>2, <2>1, <2>2, <2>3, SweepAssumption DEF Init, TypeOK, PerWindow, Stages
<1>4. QuietOK
  BY <1>2 DEF Init, QuietOK, OneProbeOnAir, HeldFor
<1>5. ProbesOK
  BY DEF Init, ProbesOK
<1>6. GateOK
  BY DEF Init, GateOK
<1>7. FlowsOK
  BY DEF Init, FlowsOK, Nothing, Windows
<1> QED
  BY <1>3, <1>4, <1>5, <1>6, <1>7 DEF IInv

(* A start leaves the types alone while no edge is probed too often. *)
LEMMA ProbeTypes ==
  ASSUME TypeOK, NEW todo \in SUBSET Edges, NEW left, NEW e \in todo, Probes(e, todo, left),
         attempts[e] < MaxRounds
  PROVE  /\ stage' \in Stages /\ due' \in Nat /\ edge' \in Edges /\ pending' \subseteq Edges
         /\ queued' \in PerWindow(Nat) /\ heard' \in PerWindow(Nat)
         /\ attempts' \in [Edges -> 0..MaxRounds] /\ lastSent' \in Nat
<1>1. clock \in Nat /\ heard \in PerWindow(Nat) /\ attempts \in [Edges -> 0..MaxRounds]
  BY ArmedStopNat DEF TypeOK, PerWindow
<1>2. heard' \in PerWindow(Nat)
  BY <1>1, Reset DEF Probes
<1>3. attempts' \in [Edges -> 0..MaxRounds]
  BY <1>1, SweepAssumption DEF Probes
<1> QED
  BY <1>1, <1>2, <1>3, SweepAssumption DEF Probes, Stages

LEMMA TypeStep ==
  ASSUME IInv, [Next]_vars
  PROVE  TypeOK'
<1> DEFINE RestOK == /\ queued \in PerWindow(Nat) /\ heard \in PerWindow(Nat)
                     /\ flow \in PerWindow(Int) /\ attempts \in [Edges -> 0..MaxRounds]
           PlanOK == /\ clock \in 0..ArmedStop /\ stage \in Stages /\ due \in Nat
                     /\ edge \in Edges /\ pending \subseteq Edges /\ round \in 1..MaxRounds
           MarkOK == drainLast \in Nat \cup {Unset} /\ drainLastChange \in Nat /\ lastSent \in Nat
<1>1. TypeOK <=> RestOK /\ PlanOK /\ MarkOK
  BY DEF TypeOK, PerWindow
<1>2. TypeOK' <=> RestOK' /\ PlanOK' /\ MarkOK'
  BY DEF TypeOK, PerWindow
<1>3. TypeOK /\ RestOK /\ PlanOK /\ MarkOK /\ OneProbeOnAir
  BY <1>1 DEF IInv, QuietOK
<1>4. clock \in Nat /\ clock + GuardSec \in Nat /\ clock + WindowSec \in Nat
      /\ clock + PollSec \in Nat
  BY <1>3, ArmedStopNat, SweepAssumption
<1>5. CASE WindowEnds
  BY <1>2, <1>3, <1>4, <1>5, WindowSteps DEF gate, Stages
<1>6. CASE WaitLonger
  <2>1. Held \in Nat
    BY <1>3 DEF Held, HeldFor, PerWindow, Windows
  <2> QED
    BY <1>2, <1>3, <1>4, <1>6, <2>1 DEF WaitLonger, ChangedAt, medium
<1>7. CASE DrainDone
  <2>1. drainLast' = Unset /\ drainLastChange' \in Nat /\ UNCHANGED <<clock, round, flow>>
    BY <1>3, <1>4, <1>7, FlushSteps DEF ChangedAt
  <2>2. CASE NoneLeft(pending, Flushed)
    BY <1>2, <1>3, <1>4, <1>7, <2>1, <2>2, FlushSteps DEF NoneLeft, Stages
  <2>3. ASSUME NEW e \in pending, Probes(e, pending, Flushed) PROVE TypeOK'
    <3>1. attempts[e] < MaxRounds
      BY <1>3, SweepAssumption DEF IInv, ProbesOK
    <3>2. pending \in SUBSET Edges
      BY <1>3
    <3> QED
      BY <1>2, <1>3, <2>1, <2>3, <3>1, <3>2, ProbeTypes
  <2> QED
    BY <1>3, <1>7, <2>2, <2>3, FlushSteps
<1>8. CASE Retry
  <2>1. PICK e \in Bad : Probes(e, Bad, queued)
    BY <1>3, <1>8, RetrySteps
  <2>2. Bad \in SUBSET Edges /\ round < MaxRounds /\ round' = round + 1
        /\ UNCHANGED <<clock, gate, flow>>
    BY <1>3, <1>8, RetrySteps DEF Bad
  <2>3. attempts[e] < MaxRounds
    BY <1>3, <2>2, SweepAssumption DEF IInv, ProbesOK
  <2> QED
    BY <1>2, <1>3, <2>1, <2>2, <2>3, ProbeTypes, SweepAssumption DEF gate
<1>9. CASE Conclude
  BY <1>2, <1>3, <1>4, <1>9 DEF Conclude, gate, medium, Stages
<1>10. CASE Finish
  BY <1>2, <1>3, <1>10 DEF Finish, gate, medium, Stages
<1>11. CASE Advance
  BY <1>2, <1>3, <1>11, ArmedStopNat DEF Advance, gate, medium
<1>12. ASSUME NEW e \in Edges, NEW w \in Windows, Deliver(e, w) \/ Lose(e, w)
       PROVE  TypeOK'
  <2>1. /\ queued' \in PerWindow(Nat) /\ lastSent' = clock
        /\ UNCHANGED <<clock, stage, due, edge, pending, round, gate, attempts>>
    BY <1>3, <1>12, MediumSteps
  <2>2. heard' \in PerWindow(Nat)
    <3>1. heard[e][w] + 1 \in Nat
      BY <1>3 DEF PerWindow
    <3>2. heard' = heard \/ heard' = [heard EXCEPT ![e][w] = heard[e][w] + 1]
      BY <1>12 DEF Deliver, Lose
    <3>3. [heard EXCEPT ![e][w] = heard[e][w] + 1] \in PerWindow(Nat)
      BY <1>3, <3>1, Update
    <3> QED
      BY <1>3, <3>2, <3>3
  <2>3. flow' \in PerWindow(Int)
    <3>1. CASE Lose(e, w)
      BY <1>3, <3>1 DEF Lose
    <3>2. CASE Deliver(e, w)
      <4>1. PICK v \in IF w = "L" THEN Delays ELSE {CapacityOf(heard'[e][w])} :
              flow' = [flow EXCEPT ![e][w] = v]
        BY <3>2 DEF Deliver
      <4>2. v \in Int
        BY <2>2, SweepAssumption DEF CapacityOf, PerWindow
      <4> QED
        BY <1>3, <4>1, <4>2, Update
    <3> QED
      BY <1>12, <3>1, <3>2
  <2> QED
    BY <1>2, <1>3, <1>4, <2>1, <2>2, <2>3 DEF gate
<1>13. CASE UNCHANGED vars
  BY <1>2, <1>3, <1>13 DEF vars, gate, medium
<1> QED
  BY <1>5, <1>6, <1>7, <1>8, <1>9, <1>10, <1>11, <1>12, <1>13 DEF Next

LEMMA QuietStep ==
  ASSUME IInv, [Next]_vars
  PROVE  QuietOK'
<1>1. TypeOK /\ QuietOK /\ OneProbeOnAir /\ edge \in Edges /\ queued \in PerWindow(Nat)
  BY DEF IInv, QuietOK, TypeOK, PerWindow
<1> USE DEF QuietOK, OneProbeOnAir, HeldFor, Held
<1>2. CASE WindowEnds
  BY <1>1, <1>2, WindowSteps
<1>3. CASE DrainDone
  <2>1. \A d \in Edges : Flushed[d]["L"] + Flushed[d]["R"] = 0
    <3> SUFFICES ASSUME NEW d \in Edges PROVE Flushed[d]["L"] = 0 /\ Flushed[d]["R"] = 0
      OBVIOUS
    <3>1. CASE d = edge
      BY <1>1, <1>3, <3>1, FlushSteps DEF Windows
    <3>2. CASE d # edge
      <4>1. queued[d]["L"] \in Nat /\ queued[d]["R"] \in Nat /\ queued[d]["L"] + queued[d]["R"] = 0
        BY <1>1, <3>2 DEF PerWindow, Windows
      <4>2. Flushed[d]["L"] = queued[d]["L"] /\ Flushed[d]["R"] = queued[d]["R"]
        BY <1>1, <1>3, <3>2, FlushSteps DEF Windows
      <4> QED
        BY <4>1, <4>2
    <3> QED
      BY <3>1, <3>2
  <2>2. CASE NoneLeft(pending, Flushed)
    BY <1>1, <2>1, <2>2 DEF NoneLeft
  <2>3. ASSUME NEW e \in pending, Probes(e, pending, Flushed) PROVE QuietOK'
    BY <2>1, <2>3 DEF Probes
  <2> QED
    BY <1>1, <1>3, <2>2, <2>3, FlushSteps
<1>4. CASE Retry
  <2>1. PICK e \in Bad : Probes(e, Bad, queued)
    BY <1>1, <1>4, RetrySteps
  <2>2. \A d \in Edges : HeldFor(d) = 0
    BY <1>1, <1>4 DEF Retry
  <2> QED
    BY <2>1, <2>2 DEF Probes
<1>5. ASSUME NEW e \in Edges, NEW w \in Windows, Deliver(e, w) \/ Lose(e, w)
      PROVE  QuietOK'
  <2>1. /\ \A d \in Edges \ {edge} : queued'[d] = queued[d]
        /\ UNCHANGED <<stage, edge>> /\ e = edge
    BY <1>1, <1>5, MediumSteps
  <2>2. queued[e][w] > 0 /\ queued[e]["L"] \in Nat /\ queued[e]["R"] \in Nat /\ w \in {"L", "R"}
    BY <1>1, <1>5 DEF Deliver, Lose, PerWindow, Windows
  <2>3. stage # "retry"
    BY <1>1, <2>1, <2>2
  <2> QED
    BY <1>1, <2>1, <2>3
<1>6. CASE WaitLonger \/ Conclude \/ Finish \/ Advance \/ UNCHANGED vars
  BY <1>1, <1>6 DEF WaitLonger, Conclude, Finish, Advance, vars, medium
<1> QED
  BY <1>2, <1>3, <1>4, <1>5, <1>6 DEF Next

LEMMA ProbesStep ==
  ASSUME IInv, [Next]_vars
  PROVE  ProbesOK'
<1>1. TypeOK /\ ProbesOK /\ OneProbeOnAir /\ round \in Nat /\ pending \in SUBSET Edges
      /\ attempts \in [Edges -> Nat]
  BY SweepAssumption DEF IInv, QuietOK, TypeOK
<1> USE DEF ProbesOK
<1>2. CASE WindowEnds
  BY <1>1, <1>2, WindowSteps
<1>3. CASE DrainDone
  <2>1. CASE NoneLeft(pending, Flushed)
    BY <1>1, <1>3, <2>1, FlushSteps DEF NoneLeft
  <2>2. ASSUME NEW e \in pending, Probes(e, pending, Flushed) PROVE ProbesOK'
    BY <1>1, <1>3, <2>2, FlushSteps DEF Probes
  <2> QED
    BY <1>1, <1>3, <2>1, <2>2, FlushSteps
<1>4. CASE Retry
  <2>1. PICK e \in Bad : Probes(e, Bad, queued)
    BY <1>1, <1>4, RetrySteps
  <2>2. round' = round + 1 /\ stage = "retry" /\ Bad \in SUBSET Edges
    BY <1>1, <1>4, RetrySteps DEF Bad
  <2> QED
    BY <1>1, <2>1, <2>2 DEF Probes
<1>5. ASSUME NEW e \in Edges, NEW w \in Windows, Deliver(e, w) \/ Lose(e, w)
      PROVE  ProbesOK'
  BY <1>1, <1>5, MediumSteps
<1>6. CASE WaitLonger \/ Conclude \/ Finish \/ Advance \/ UNCHANGED vars
  BY <1>1, <1>6 DEF WaitLonger, Conclude, Finish, Advance, vars
<1> QED
  BY <1>2, <1>3, <1>4, <1>5, <1>6 DEF Next

LEMMA GateStep ==
  ASSUME IInv, [Next]_vars
  PROVE  GateOK'
<1>1. /\ TypeOK /\ GateOK /\ OneProbeOnAir
      /\ clock \in Nat /\ lastSent \in Nat /\ drainLastChange \in Nat
      /\ drainLast \in Nat \cup {Unset}
  BY ArmedStopNat DEF IInv, QuietOK, TypeOK
<1>2. Held \in Nat
  BY <1>1 DEF TypeOK, Held, HeldFor, Windows
<1> USE DEF GateOK, Unset
<1>3. CASE WindowEnds
  <2>1. /\ stage \in {"L", "after L", "R", "after R"}
        /\ lastSent' = lastSent \/ lastSent' = clock
        /\ clock' = clock /\ drainLast' = drainLast /\ drainLastChange' = drainLastChange
    BY <1>1, <1>3, WindowSteps DEF gate
  <2>2. drainLast = Unset
    BY <1>1, <2>1
  <2>3. lastSent <= clock /\ drainLastChange <= clock /\ clock <= clock
    BY <1>1
  <2>4. drainLastChange' <= clock' /\ lastSent' <= clock'
    BY <2>1, <2>3
  <2> QED
    BY <2>1, <2>2, <2>4
<1>4. CASE WaitLonger
  <2>1. /\ drainLast' = Held /\ drainLastChange' = ChangedAt /\ stage = "drain"
        /\ UNCHANGED <<clock, stage, lastSent>> /\ Held' = Held
    BY <1>4 DEF WaitLonger, medium, Held, HeldFor
  <2> QED
    BY <1>1, <1>2, <2>1 DEF ChangedAt
<1>5. CASE DrainDone
  <2>1. drainLast' = Unset /\ drainLastChange' \in {clock, drainLastChange} /\ clock' = clock
    BY <1>1, <1>5, FlushSteps DEF ChangedAt
  <2>2. lastSent' \in {lastSent, clock}
    BY <1>1, <1>5, FlushSteps DEF NoneLeft, Probes
  <2> QED
    BY <1>1, <2>1, <2>2
<1>6. CASE Retry
  <2>1. UNCHANGED <<clock, gate>> /\ lastSent' = clock /\ stage = "retry"
    BY <1>1, <1>6, RetrySteps DEF Probes
  <2> QED
    BY <1>1, <2>1 DEF gate
<1>7. ASSUME NEW e \in Edges, NEW w \in Windows, Deliver(e, w) \/ Lose(e, w)
      PROVE  GateOK'
  <2>1. Held' = Held - 1 /\ lastSent' = clock /\ UNCHANGED <<clock, stage, gate>>
    BY <1>1, <1>7, MediumSteps
  <2> QED
    BY <1>1, <1>2, <2>1 DEF gate
<1>8. CASE Conclude \/ Finish \/ Advance \/ UNCHANGED vars
  <2>1. UNCHANGED <<gate, lastSent>> /\ Held' = Held /\ clock' \in {clock, clock + 1}
        /\ (stage' = stage \/ stage' = "done" \/ stage = "retry")
    BY <1>8 DEF Conclude, Finish, Advance, vars, medium, Held, HeldFor
  <2> QED
    BY <1>1, <1>2, <2>1 DEF gate
<1> QED
  BY <1>3, <1>4, <1>5, <1>6, <1>7, <1>8 DEF Next

LEMMA FlowsStep ==
  ASSUME IInv, [Next]_vars
  PROVE  FlowsOK'
<1>1. /\ TypeOK /\ FlowsOK /\ OneProbeOnAir
      /\ heard \in PerWindow(Nat) /\ flow \in PerWindow(Int)
  BY DEF IInv, QuietOK, TypeOK, PerWindow
<1> USE DEF FlowsOK
<1>2. CASE WindowEnds
  BY <1>1, <1>2, WindowSteps
<1>3. ASSUME NEW e \in Edges, heard' = [heard EXCEPT ![e] = Nothing], flow' = flow
      PROVE  FlowsOK'
  <2>1. \A d \in Edges, x \in Windows : heard'[d][x] = IF d = e THEN 0 ELSE heard[d][x]
    BY <1>1, <1>3, Reset
  <2> QED
    BY <1>1, <1>3, <2>1 DEF Windows
<1>4. CASE DrainDone
  <2>1. pending \in SUBSET Edges /\ flow' = flow
    BY <1>1, <1>4, FlushSteps DEF TypeOK
  <2>2. CASE NoneLeft(pending, Flushed)
    BY <1>1, <2>1, <2>2 DEF NoneLeft
  <2>3. ASSUME NEW e \in pending, Probes(e, pending, Flushed) PROVE FlowsOK'
    BY <1>3, <2>1, <2>3 DEF Probes
  <2> QED
    BY <1>1, <1>4, <2>2, <2>3, FlushSteps
<1>5. CASE Retry
  BY <1>1, <1>3, <1>5, RetrySteps DEF Probes, Bad
<1>6. ASSUME NEW e \in Edges, NEW w \in Windows, Lose(e, w)
      PROVE  FlowsOK'
  BY <1>1, <1>6 DEF Lose
<1>7. ASSUME NEW e \in Edges, NEW w \in Windows, Deliver(e, w)
      PROVE  FlowsOK'
  <2>1. heard[e][w] + 1 \in Nat
    BY <1>1 DEF PerWindow
  <2>2. \A d \in Edges, x \in Windows :
          heard'[d][x] = IF d = e /\ x = w /\ SinkOpen(e, w) THEN heard[e][w] + 1 ELSE heard[d][x]
    <3>1. CASE SinkOpen(e, w)
      <4>1. heard' = [heard EXCEPT ![e][w] = heard[e][w] + 1]
        BY <1>7, <3>1 DEF Deliver
      <4>2. \A d \in Edges, x \in Windows :
              heard'[d][x] = IF d = e /\ x = w THEN heard[e][w] + 1 ELSE heard[d][x]
        BY <1>1, <2>1, <4>1, Update
      <4> QED
        BY <3>1, <4>2
    <3>2. CASE ~SinkOpen(e, w)
      BY <1>7, <3>2 DEF Deliver
    <3> QED
      BY <3>1, <3>2
  <2>3. PICK v \in IF w = "L" THEN Delays ELSE {CapacityOf(heard'[e][w])} :
          flow' = [flow EXCEPT ![e][w] = v]
    BY <1>7 DEF Deliver
  <2>4. v \in Int
    BY <1>1, <2>1, <2>2, SweepAssumption DEF CapacityOf, PerWindow
  <2>5. \A d \in Edges, x \in Windows : flow'[d][x] = IF d = e /\ x = w THEN v ELSE flow[d][x]
    BY <1>1, <2>3, <2>4, Update
  <2>6. ASSUME NEW d \in Edges, heard'[d]["L"] > 0 PROVE flow'[d]["L"] > 0
    <3>1. CASE d = e /\ w = "L"
      BY <2>3, <2>5, <3>1, SweepAssumption DEF Windows
    <3>2. CASE ~(d = e /\ w = "L")
      BY <1>1, <2>2, <2>5, <2>6, <3>2 DEF Windows
    <3> QED
      BY <3>1, <3>2
  <2>7. ASSUME NEW d \in Edges, heard'[d]["R"] > 0
        PROVE  flow'[d]["R"] = CapacityOf(heard'[d]["R"])
    <3>1. CASE d = e /\ w = "R"
      BY <2>3, <2>5, <3>1 DEF Windows
    <3>2. CASE ~(d = e /\ w = "R")
      BY <1>1, <2>2, <2>5, <2>7, <3>2 DEF Windows
    <3> QED
      BY <3>1, <3>2
  <2> QED
    BY <2>6, <2>7 DEF CapacityOf
<1>8. CASE WaitLonger \/ Conclude \/ Finish \/ Advance \/ UNCHANGED vars
  BY <1>1, <1>8 DEF WaitLonger, Conclude, Finish, Advance, vars, medium
<1> QED
  BY <1>2, <1>4, <1>5, <1>6, <1>7, <1>8 DEF Next

(* The invariant holds in every state of the sweep.                        *)
THEOREM Invariance == Spec => []IInv
<1>1. Init => IInv
  BY InitInvariant
<1>2. IInv /\ [Next]_vars => IInv'
  BY TypeStep, QuietStep, ProbesStep, GateStep, FlowsStep DEF IInv
<1> QED
  BY <1>1, <1>2, PTL DEF Spec

-----------------------------------------------------------------------------
(* The sweep's variables keep their types; in particular no edge is probed *)
(* more than once a round, nor after the last.                             *)
THEOREM TypeCorrect == Spec => []TypeOK
BY Invariance, PTL DEF IInv

(* No sender holds a packet of a probe but the edge's under the cursor:    *)
(* what a probe measures is its link alone.                                *)
THEOREM ProbesAlone == Spec => []OneProbeOnAir
BY Invariance, PTL DEF IInv, QuietOK

(* When the retry pass concludes, every edge that it does not call failing *)
(* was probed, and the statistics hold its own delay and capacity.         *)
THEOREM HealthyMeasured == Spec => []HealthyEdgesAreMeasured
<1>1. IInv => HealthyEdgesAreMeasured
  <2> SUFFICES ASSUME IInv, stage = "stopping", NEW e \in Edges \ Bad
               PROVE  flow[e]["L"] > 0 /\ flow[e]["R"] = CapacityOf(heard[e]["R"])
    BY DEF HealthyEdgesAreMeasured
  <2>1. attempts[e] > 0
    BY DEF IInv, ProbesOK
  <2>2. heard[e]["L"] # 0 /\ heard[e]["R"] # 0
    BY <2>1 DEF Bad, Failing
  <2>3. heard[e]["L"] \in Nat /\ heard[e]["R"] \in Nat
    BY DEF IInv, TypeOK, Windows
  <2> QED
    BY <2>2, <2>3 DEF IInv, FlowsOK
<1> QED
  BY <1>1, Invariance, PTL

(* The flush that ends a drain cuts nothing that still moves: what it      *)
(* throws away has stood still for StallSec.                               *)
THEOREM FlushIsLate == Spec => FlushSparesMoving
<1>1. ASSUME IInv, [Next]_vars, stage = "drain", stage' # "drain", stage' # "done", Held > 0
      PROVE  clock - lastSent >= StallSec
  <2>1. TypeOK /\ GateOK /\ OneProbeOnAir
    BY <1>1 DEF IInv, QuietOK
  <2>2. DrainDone
    <3>1. ~WindowEnds /\ ~Retry /\ ~Conclude
      BY <1>1 DEF WindowEnds, Retry, Conclude
    <3>2. ~WaitLonger /\ ~Finish /\ ~Advance /\ ~UNCHANGED vars
      BY <1>1 DEF WaitLonger, Finish, Advance, vars
    <3>3. ASSUME NEW e \in Edges, NEW w \in Windows, Deliver(e, w) \/ Lose(e, w) PROVE FALSE
      BY <1>1, <3>3 DEF Deliver, Lose
    <3> QED
      BY <1>1, <3>1, <3>2, <3>3 DEF Next
  <2>3. clock - ChangedAt >= StallSec
    BY <1>1, <2>2 DEF DrainDone, Stalled
  <2>4. /\ clock \in Nat /\ lastSent \in Nat /\ drainLastChange \in Nat
        /\ drainLast \in Nat \cup {Unset} /\ Held \in Nat /\ edge \in Edges
    BY <2>1, ArmedStopNat DEF TypeOK, Held, HeldFor, Windows
  <2>5. lastSent <= ChangedAt
    <3>1. CASE Held # drainLast
      BY <2>1, <3>1 DEF ChangedAt, GateOK
    <3>2. CASE Held = drainLast
      BY <2>1, <2>4, <3>2 DEF ChangedAt, GateOK, Unset
    <3> QED
      BY <3>1, <3>2
  <2>6. ChangedAt \in Nat
    BY <2>4 DEF ChangedAt
  <2> QED
    BY <2>3, <2>4, <2>5, <2>6, SweepAssumption
<1>2. IInv /\ [Next]_vars =>
        [stage = "drain" /\ stage' # "drain" /\ stage' # "done" /\ Held > 0
           => clock - lastSent >= StallSec]_vars
  BY <1>1
<1> QED
  BY <1>2, Invariance, PTL DEF Spec, FlushSparesMoving

-----------------------------------------------------------------------------
(* How long a probe can take: its windows, and a drain in which each       *)
(* packet leaves as late as it may without being taken for stuck.          *)
Patience == StallSec + PollSec - 1
ProbeWindows == 2 * WindowSec + 2 * GuardSec
Longest(e) == ProbeWindows + (1 + ProbeSize[e]) * Patience

(* How many probes have begun at most; every round is of all edges.        *)
Begun == (round - 1) * NumEdges + NumEdges - Cardinality(pending)

(* A probe begins, and never more than there are edges and rounds. *)
OneMore == Begun' >= Begun + 1

(* When the probe under way has begun at the latest, if none takes longer  *)
(* than `longest`.                                                         *)
Start(longest) == (Begun - 1) * longest

(* When its stage is over at the latest, and what the sender holds at most.*)
StageOnTime(longest) ==
  LET most == 1 + ProbeSize[edge]
      sent == Start(longest) + ProbeWindows
  IN  /\ stage = "L" => due <= Start(longest) + WindowSec /\ Held <= 1
      /\ stage = "after L" => due <= Start(longest) + WindowSec + GuardSec /\ Held <= 1
      /\ stage = "R" => due <= Start(longest) + 2 * WindowSec + GuardSec /\ Held <= most
      /\ stage = "after R" => due <= sent /\ Held <= most
      /\ stage = "drain" /\ drainLast = Unset => due <= sent /\ Held <= most
      /\ stage = "drain" /\ drainLast # Unset =>
           /\ drainLast \in 1..most
           /\ drainLastChange <= sent + (most - drainLast) * Patience
           /\ due <= drainLastChange + Patience
      /\ stage = "retry" => due <= Start(longest) + longest
      /\ stage = "stopping" => due <= Start(longest) + longest + 1

OnTime(longest) ==
  /\ stage # "done" => clock <= due
  /\ StageOnTime(longest)

Suffices(longest) ==
  /\ longest \in Nat
  /\ \A e \in Edges : Longest(e) <= longest
  /\ NumEdges * MaxRounds * longest + 1 < ArmedStop

(* Products of what is not fixed, for the arithmetic. *)
LEMMA TimesMore ==
  ASSUME NEW a \in Int, NEW b \in Int, NEW q \in Nat, a >= b
  PROVE  a * q >= b * q /\ a * q \in Int /\ (a + 1) * q = a * q + q
<1>1. PICK j \in Nat : a = b + j
  BY a - b \in Nat
<1>2. j * q \in Nat /\ a * q = b * q + j * q /\ a * q \in Int /\ b * q \in Int
  BY <1>1
<1>3. (a + 1) * q = a * q + q
  OBVIOUS
<1> QED
  BY <1>2, <1>3

LEMMA BegunIs ==
  ASSUME NEW n \in Nat, NEW P \in SUBSET Edges
  PROVE  /\ IsFiniteSet(P) /\ Cardinality(P) \in 0..NumEdges
         /\ \A e \in P : Cardinality(P \ {e}) = Cardinality(P) - 1
         /\ n * NumEdges \in Nat /\ (n + 1) * NumEdges = n * NumEdges + NumEdges
<1>1. IsFiniteSet(Edges) /\ Cardinality(Edges) = NumEdges /\ NumEdges \in Nat
  BY EdgesAssumption, FS_Interval DEF Edges
<1>2. IsFiniteSet(P) /\ Cardinality(P) <= NumEdges
  BY <1>1, FS_Subset
<1>3. Cardinality(P) \in Nat
  BY <1>2, FS_CardinalityType
<1>4. \A e \in P : Cardinality(P \ {e}) = Cardinality(P) - 1
  BY <1>2, FS_RemoveElement
<1>5. n * NumEdges \in Nat /\ (n + 1) * NumEdges = n * NumEdges + NumEdges
  BY <1>1
<1> QED
  BY <1>1, <1>2, <1>3, <1>4, <1>5

(* Begun counts from one to all edges in all rounds. *)
LEMMA BegunBounds ==
  ASSUME TypeOK
  PROVE  Begun \in Int /\ Begun >= 0 /\ Begun <= NumEdges * MaxRounds
<1>1. PICK n \in Nat : n = round - 1
  BY SweepAssumption DEF TypeOK
<1>2. PICK m \in Nat : m = MaxRounds
  BY SweepAssumption
<1>3. n + 1 <= m /\ pending \in SUBSET Edges
  BY <1>1, <1>2 DEF TypeOK
<1>4. /\ Cardinality(pending) \in 0..NumEdges
      /\ n * NumEdges \in Nat /\ (n + 1) * NumEdges = n * NumEdges + NumEdges
  BY <1>3, BegunIs
<1>5. Begun = n * NumEdges + NumEdges - Cardinality(pending)
  BY <1>1 DEF Begun
<1>6. m * NumEdges >= (n + 1) * NumEdges /\ m * NumEdges \in Int
  BY <1>3, TimesMore, EdgesAssumption
<1>7. m * NumEdges = NumEdges * MaxRounds
  BY <1>2, EdgesAssumption
<1>8. NumEdges \in Nat
  BY EdgesAssumption
<1> HIDE <1>1, <1>2
<1> QED
  BY <1>4, <1>5, <1>6, <1>7, <1>8

LEMMA StartBounds ==
  ASSUME TypeOK, NEW longest, Suffices(longest)
  PROVE  /\ Start(longest) \in Int
         /\ Start(longest) + longest + 1 < ArmedStop
<1>1. PICK b \in Int : b = Begun /\ b >= 0 /\ b <= NumEdges * MaxRounds
  BY BegunBounds
<1>2. PICK all \in Nat : all = NumEdges * MaxRounds
  BY EdgesAssumption, SweepAssumption
<1>3. PICK q \in Nat : q = longest
  BY DEF Suffices
<1>4. all * q >= b * q
  BY <1>1, <1>2, TimesMore
<1>5. ((b - 1) + 1) * q = (b - 1) * q + q /\ (b - 1) * q \in Int
  BY <1>1, TimesMore
<1>6. (b - 1) + 1 = b
  BY <1>1
<1>7. all * q + 1 < ArmedStop /\ all * q \in Int
  BY <1>2, <1>3 DEF Suffices
<1>8. Start(longest) = (b - 1) * q
  BY <1>1, <1>3 DEF Start
<1>9. b * q = (b - 1) * q + q
  BY <1>5, <1>6
<1> HIDE <1>1, <1>2
<1>10. PICK x \in Int : x = (b - 1) * q
  BY <1>5
<1>11. PICK y \in Int : y = all * q
  BY <1>7
<1>12. Start(longest) = x /\ b * q = x + q /\ y >= b * q /\ y + 1 < ArmedStop
  BY <1>4, <1>7, <1>8, <1>9, <1>10, <1>11
<1> QED
  BY <1>3, <1>12, ArmedStopNat

(* A new probe begins as the latest end of the last one, or later. *)
LEMMA StartsLater ==
  ASSUME TypeOK, TypeOK', NEW longest, Suffices(longest), OneMore
  PROVE  Start(longest)' \in Int /\ Start(longest)' >= Start(longest) + longest
<1>1. PICK b \in Int : b = Begun
  BY BegunBounds
<1>2. Begun' \in Int
  <2>0. PICK r \in 1..MaxRounds : r = round'
    BY DEF TypeOK
  <2>1. PICK n \in Nat : n = round' - 1
    <3>1. r - 1 \in Nat
      BY SweepAssumption
    <3> QED
      BY <2>0, <3>1
  <2>2. pending' \in SUBSET Edges
    BY DEF TypeOK
  <2>3. n * NumEdges \in Nat /\ Cardinality(pending') \in 0..NumEdges
    BY <2>2, BegunIs
  <2>4. Begun' = n * NumEdges + NumEdges - Cardinality(pending')
    BY <2>1 DEF Begun
  <2>5. NumEdges \in Nat
    BY EdgesAssumption
  <2> HIDE <2>1
  <2> QED
    BY <2>3, <2>4, <2>5
<1>3. PICK c \in Int : c = Begun'
  BY <1>2
<1>4. PICK q \in Nat : q = longest
  BY DEF Suffices
<1>5. (c - 1) * q >= b * q /\ (c - 1) * q \in Int
  <2>0. c >= b + 1
    BY <1>1, <1>3 DEF OneMore
  <2>1. PICK d \in Int : d = c - 1 /\ d >= b
    <3>1. c - 1 \in Int /\ c - 1 >= b
      BY <2>0
    <3> QED
      BY <3>1
  <2>2. d * q >= b * q /\ d * q \in Int
    BY <2>1, TimesMore
  <2> QED
    BY <2>1, <2>2
<1>6. ((b - 1) + 1) * q = (b - 1) * q + q /\ (b - 1) + 1 = b
  BY <1>1, TimesMore
<1>7. Start(longest) = (b - 1) * q /\ Start(longest)' = (c - 1) * q
  BY <1>1, <1>3, <1>4 DEF Start
<1>8. b * q = (b - 1) * q + q
  BY <1>6
<1> QED
  BY <1>4, <1>5, <1>7, <1>8

LEMMA StartStays ==
  ASSUME UNCHANGED <<round, pending>>, NEW longest
  PROVE  Start(longest)' = Start(longest)
BY DEF Start, Begun

LEMMA Budgets ==
  ASSUME NEW longest, Suffices(longest), TypeOK
  PROVE  /\ longest \in Nat /\ Patience \in Nat /\ ProbeSize[edge] \in Nat
         /\ (1 + ProbeSize[edge]) * Patience \in Nat
         /\ ProbeWindows + (1 + ProbeSize[edge]) * Patience <= longest
         /\ WindowSec \in Nat /\ GuardSec \in Nat /\ WindowSec <= longest
         /\ ProbeWindows = 2 * WindowSec + 2 * GuardSec /\ ProbeWindows <= longest
<1>1. PICK q \in Nat : q = Patience
  BY SweepAssumption DEF Patience
<1>2. PICK p \in Nat : p = 1 + ProbeSize[edge] /\ ProbeSize[edge] \in Nat
  BY SweepAssumption DEF TypeOK
<1>3. p * q \in Nat
  OBVIOUS
<1>4. Longest(edge) <= longest /\ longest \in Nat
  BY DEF Suffices, TypeOK
<1>5. ProbeWindows + p * q <= longest
  BY <1>1, <1>2, <1>4 DEF Longest
<1>6. PICK x \in Nat : x = p * q
  BY <1>3
<1>7. WindowSec \in Nat /\ GuardSec \in Nat /\ ProbeWindows = 2 * WindowSec + 2 * GuardSec
  BY SweepAssumption DEF ProbeWindows
<1>8. WindowSec <= longest /\ ProbeWindows <= longest
  BY <1>4, <1>5, <1>6, <1>7
<1> QED
  BY <1>1, <1>2, <1>3, <1>4, <1>5, <1>7, <1>8

(* A probe that starts at once, with nothing held, is on time. *)
LEMMA ProbesOnTime ==
  ASSUME TypeOK, TypeOK', NEW longest, Suffices(longest), OneMore,
         NEW todo, NEW left \in PerWindow(Nat), NEW e \in Edges, Probes(e, todo, left),
         left[e]["L"] = 0, left[e]["R"] = 0,
         clock' = clock, clock <= Start(longest) + longest
  PROVE  OnTime(longest)'
<1>1. stage' = "L" /\ due' = clock + WindowSec /\ edge' = e
  BY DEF Probes
<1>2. queued'[e]["L"] = 1 /\ queued'[e]["R"] = 0
  BY DEF Probes, Windows
<1>3. Held' = 1
  BY <1>1, <1>2 DEF Held, HeldFor
<1>4. /\ Start(longest)' \in Int /\ Start(longest)' >= Start(longest) + longest
      /\ Start(longest) \in Int /\ longest \in Nat /\ WindowSec \in Nat /\ clock \in Nat
  <2>1. clock \in 0..ArmedStop
    BY DEF TypeOK
  <2> QED
    BY <2>1, StartsLater, StartBounds, Budgets, ArmedStopNat
<1>5. due' <= Start(longest)' + WindowSec
  BY <1>1, <1>4
<1>6. clock' <= due'
  BY <1>1, <1>4
<1> QED
  BY <1>1, <1>3, <1>5, <1>6 DEF OnTime, StageOnTime

(* However late a stage is, the probe is over in time. *)
LEMMA OverInTime ==
  ASSUME TypeOK, NEW longest, Suffices(longest), OnTime(longest), stage # "done"
  PROVE  /\ clock <= Start(longest) + longest + 1
         /\ stage \in {"drain", "retry"} => due <= Start(longest) + longest
<1>1. PICK S \in Int : S = Start(longest)
  BY StartBounds
<1>2. /\ longest \in Nat /\ Patience \in Nat /\ WindowSec \in Nat /\ GuardSec \in Nat
      /\ WindowSec <= longest /\ ProbeWindows <= longest
      /\ ProbeWindows = 2 * WindowSec + 2 * GuardSec
  BY Budgets
<1>3. PICK most \in Nat : most = 1 + ProbeSize[edge]
  BY Budgets
<1>4. PICK q \in Nat : q = Patience
  BY <1>2
<1>5. most * q \in Nat /\ ProbeWindows + most * q <= longest
  BY <1>3, <1>4, Budgets
<1>6. clock \in Nat /\ due \in Nat /\ drainLastChange \in Nat
  BY ArmedStopNat DEF TypeOK
<1>7. CASE stage = "drain" /\ drainLast # Unset
  <2>1. PICK k \in 1..most : k = drainLast
    BY <1>3, <1>7 DEF OnTime, StageOnTime
  <2>2. drainLastChange <= S + ProbeWindows + (most - k) * q /\ due <= drainLastChange + q
    BY <1>1, <1>3, <1>4, <1>7, <2>1 DEF OnTime, StageOnTime
  <2>3. ((most - k) + 1) * q = (most - k) * q + q /\ (most - k) * q \in Int
    BY TimesMore
  <2>4. most * q >= ((most - k) + 1) * q
    BY TimesMore
  <2>5. PICK x \in Int : x = (most - k) * q
    BY <2>3
  <2>6. PICK y \in Int : y = most * q
    BY <1>5
  <2>7. y >= x + q /\ ProbeWindows + y <= longest /\ drainLastChange <= S + ProbeWindows + x
    BY <1>5, <2>2, <2>3, <2>4, <2>5, <2>6
  <2>8. due <= S + longest
    BY <1>2, <1>6, <2>2, <2>7
  <2> QED
    BY <1>1, <1>2, <1>6, <1>7, <2>8 DEF OnTime
<1>8. CASE ~(stage = "drain" /\ drainLast # Unset)
  <2>1. stage \in Stages /\ stage # "done"
    BY DEF TypeOK
  <2>2. \/ due <= S + WindowSec
        \/ due <= S + WindowSec + GuardSec
        \/ due <= S + 2 * WindowSec + GuardSec
        \/ due <= S + ProbeWindows
        \/ due <= S + longest
        \/ stage = "stopping" /\ due <= S + longest + 1
    BY <1>1, <1>8, <2>1 DEF OnTime, StageOnTime, Stages
  <2>3. due <= S + longest + 1 /\ (stage # "stopping" => due <= S + longest)
    BY <1>2, <1>6, <2>2
  <2>4. clock <= due
    BY DEF OnTime
  <2> QED
    BY <1>1, <1>2, <1>6, <2>3, <2>4
<1> QED
  BY <1>7, <1>8

(* Every step keeps what a stage may take. *)
LEMMA OnTimeStep ==
  ASSUME IInv, TypeOK', NEW longest, Suffices(longest), OnTime(longest), [Next]_vars
  PROVE  OnTime(longest)'
<1>1. /\ TypeOK /\ QuietOK /\ OneProbeOnAir /\ ProbesOK /\ GateOK /\ edge \in Edges
      /\ stage \in Stages /\ queued \in PerWindow(Nat) /\ pending \in SUBSET Edges
  BY DEF IInv, QuietOK, TypeOK, PerWindow
<1>2. PICK S \in Int : S = Start(longest)
  BY <1>1, StartBounds
<1>3. /\ longest \in Nat /\ Patience \in Nat /\ WindowSec \in Nat /\ GuardSec \in Nat
      /\ ProbeSize[edge] \in Nat /\ ProbeWindows = 2 * WindowSec + 2 * GuardSec
  BY <1>1, Budgets
<1>4. clock \in Nat /\ due \in Nat /\ drainLastChange \in Nat /\ PollSec \in Nat /\ StallSec \in Nat
  BY <1>1, ArmedStopNat, SweepAssumption DEF TypeOK
<1>5. Held \in Nat /\ Unset \notin Nat
  BY <1>1 DEF Held, HeldFor, PerWindow, Windows, Unset
<1>6. CASE WindowEnds
  <2>1. UNCHANGED <<clock, edge, pending, round, gate>> /\ due = clock
    BY <1>6 DEF WindowEnds
  <2>0. PICK c \in Nat : c = clock /\ c = due /\ c = clock'
    BY <1>4, <2>1
  <2>9. PICK W \in Nat, G \in Nat : W = WindowSec /\ G = GuardSec
    BY <1>3
  <2>2. Start(longest)' = S
    BY <1>2, <2>1, StartStays
  <2>3. stage = "after R" => drainLast = Unset
    BY <1>1 DEF GateOK
  <2>4. CASE UNCHANGED queued
    <3>1. Held' = Held
      BY <2>1, <2>4 DEF Held, HeldFor
    <3>2. CASE stage = "L" /\ stage' = "after L" /\ due' = clock + GuardSec
      <4>1. due <= S + WindowSec /\ Held <= 1
        BY <1>2, <3>2 DEF OnTime, StageOnTime
      <4>2. due' <= S + WindowSec + GuardSec /\ clock' <= due'
        <5>1. c <= S + W
          BY <2>0, <2>9, <4>1
        <5>2. c + G <= S + W + G /\ c <= c + G
          BY <5>1
        <5> QED
          BY <1>3, <2>0, <2>9, <3>2, <5>2
      <4> QED
        BY <2>1, <2>2, <3>1, <3>2, <4>1, <4>2 DEF OnTime, StageOnTime
    <3>3. CASE stage = "R" /\ stage' = "after R" /\ due' = clock + GuardSec
      <4>1. due <= S + 2 * WindowSec + GuardSec /\ Held <= 1 + ProbeSize[edge]
        BY <1>2, <3>3 DEF OnTime, StageOnTime
      <4>2. due' <= S + ProbeWindows /\ clock' <= due'
        <5>1. c <= S + 2 * W + G
          BY <2>0, <2>9, <4>1
        <5>2. c + G <= S + (2 * W + 2 * G) /\ c <= c + G
          BY <5>1
        <5> QED
          BY <1>3, <2>0, <2>9, <3>3, <5>2
      <4> QED
        BY <2>1, <2>2, <3>1, <3>3, <4>1, <4>2 DEF OnTime, StageOnTime
    <3>4. CASE stage = "after R" /\ stage' = "drain" /\ due' = clock
      BY <1>2, <1>3, <1>4, <2>1, <2>2, <2>3, <3>1, <3>4 DEF OnTime, StageOnTime, gate
    <3>5. CASE stage = "after L" /\ stage' = "R" /\ queued' = [queued EXCEPT ![edge]["R"] = @ + ProbeSize[edge]]
      <4>1. ProbeSize[edge] = 0
        <5>1. queued'[edge]["R"] = queued[edge]["R"] + ProbeSize[edge] /\ queued[edge]["R"] \in Nat
          BY <1>1, <3>5 DEF PerWindow, Windows
        <5> QED
          BY <1>3, <2>4, <5>1
      <4> QED
        BY <1>1, <4>1, SweepAssumption
    <3> QED
      BY <1>6, <3>2, <3>3, <3>4, <3>5 DEF WindowEnds
  <2>5. CASE /\ stage = "after L" /\ stage' = "R" /\ due' = clock + WindowSec
             /\ queued' = [queued EXCEPT ![edge]["R"] = @ + ProbeSize[edge]]
    <3>1. /\ queued'[edge]["R"] = queued[edge]["R"] + ProbeSize[edge] /\ queued'[edge]["L"] = queued[edge]["L"]
          /\ queued[edge]["R"] \in Nat /\ queued[edge]["L"] \in Nat
      BY <1>1, <2>5 DEF PerWindow, Windows
    <3>2. Held' = Held + ProbeSize[edge]
      BY <1>3, <2>1, <3>1 DEF Held, HeldFor
    <3>3. Held <= 1 /\ due <= S + WindowSec + GuardSec
      BY <1>2, <2>5 DEF OnTime, StageOnTime
    <3>4. stage' = "R" /\ Held' <= 1 + ProbeSize[edge] /\ due' <= S + 2 * WindowSec + GuardSec /\ clock <= due'
      <4>1. Held' <= 1 + ProbeSize[edge]
        BY <1>3, <1>5, <3>2, <3>3
      <4>2. due' <= S + 2 * WindowSec + GuardSec /\ clock <= due'
        <5>1. c <= S + W + G
          BY <2>0, <2>9, <3>3
        <5>2. c + W <= S + 2 * W + G /\ c <= c + W
          BY <5>1
        <5> QED
          BY <2>0, <2>5, <2>9, <5>2
      <4> QED
        BY <2>5, <4>1, <4>2
    <3> QED
      BY <2>1, <2>2, <3>4 DEF OnTime, StageOnTime
  <2> QED
    BY <1>6, <2>4, <2>5 DEF WindowEnds
<1>7. CASE DrainDone
  <2>1. /\ UNCHANGED <<clock, round>> /\ stage = "drain" /\ due = clock
        /\ \A d \in Edges, x \in Windows : Flushed[d][x] = IF d = edge THEN 0 ELSE queued[d][x]
        /\ Flushed \in PerWindow(Nat)
        /\ NoneLeft(pending, Flushed) \/ \E e \in pending : Probes(e, pending, Flushed)
    BY <1>1, <1>7, FlushSteps
  <2>2. clock <= Start(longest) + longest
    BY <1>1, <2>1, OverInTime
  <2>3. CASE NoneLeft(pending, Flushed)
    <3>1. stage' = "retry" /\ due' = clock /\ UNCHANGED <<round, pending>>
      BY <2>1, <2>3 DEF NoneLeft
    <3>2. Start(longest)' = S
      BY <1>2, <3>1, StartStays
    <3> QED
      BY <1>2, <1>4, <2>1, <2>2, <3>1, <3>2 DEF OnTime, StageOnTime
  <2>4. ASSUME NEW e \in pending, Probes(e, pending, Flushed) PROVE OnTime(longest)'
    <3>1. pending' = pending \ {e} /\ round' = round
      BY <2>1, <2>4 DEF Probes
    <3>2. OneMore
      <4>1. Cardinality(pending') = Cardinality(pending) - 1 /\ Cardinality(pending) \in Int
        BY <1>1, <3>1, BegunIs
      <4>2. PICK n \in Nat : n = round - 1
        BY <1>1, SweepAssumption DEF TypeOK
      <4>3. n * NumEdges \in Nat /\ NumEdges \in Nat
        BY EdgesAssumption
      <4>4. /\ Begun = n * NumEdges + NumEdges - Cardinality(pending)
            /\ Begun' = n * NumEdges + NumEdges - Cardinality(pending')
        BY <3>1, <4>2 DEF Begun
      <4> HIDE <4>2
      <4> QED
        BY <4>1, <4>3, <4>4 DEF OneMore
    <3>3. Flushed[e]["L"] = 0 /\ Flushed[e]["R"] = 0
      <4>1. e # edge => queued[e]["L"] + queued[e]["R"] = 0 /\ queued[e]["L"] \in Nat /\ queued[e]["R"] \in Nat
        BY <1>1 DEF OneProbeOnAir, HeldFor, PerWindow, Windows
      <4> QED
        BY <1>1, <2>1, <4>1 DEF Windows
    <3> QED
      BY <1>1, <2>1, <2>2, <2>4, <3>2, <3>3, ProbesOnTime
  <2> QED
    BY <2>1, <2>3, <2>4
<1>8. CASE Retry
  <2>1. PICK e \in Bad : Probes(e, Bad, queued)
    BY <1>1, <1>8, RetrySteps
  <2>2. Bad \in SUBSET Edges /\ stage = "retry" /\ round' = round + 1 /\ clock' = clock /\ pending = {}
    BY <1>1, <1>8, RetrySteps DEF Bad, ProbesOK
  <2>3. clock <= Start(longest) + longest
    <3>1. clock <= due /\ due <= Start(longest) + longest
      BY <1>1, <2>2, OverInTime DEF OnTime
    <3> QED
      BY <1>2, <1>3, <1>4, <3>1
  <2>4. OneMore
    <3>1. Cardinality(pending) = 0
      BY <2>2, FS_EmptySet
    <3>2. pending' = Bad \ {e} /\ e \in Bad
      BY <2>1 DEF Probes
    <3>3. Cardinality(Bad) \in 0..NumEdges /\ Cardinality(Bad \ {e}) = Cardinality(Bad) - 1
      BY <2>2, <3>2, BegunIs
    <3>4. PICK n \in Nat : n = round - 1
      BY <1>1, SweepAssumption DEF TypeOK
    <3>5. n * NumEdges \in Nat /\ NumEdges \in Nat /\ (n + 1) * NumEdges = n * NumEdges + NumEdges
      BY <1>1, BegunIs, EdgesAssumption
    <3>6. round' - 1 = n + 1
      <4>1. round \in 1..MaxRounds /\ MaxRounds \in Nat
        BY <1>1, SweepAssumption DEF TypeOK
      <4> QED
        BY <2>2, <3>4, <4>1
    <3>7. /\ Begun = n * NumEdges + NumEdges - Cardinality(pending)
          /\ Begun' = (n + 1) * NumEdges + NumEdges - Cardinality(pending')
      BY <3>4, <3>6 DEF Begun
    <3> HIDE <3>4
    <3> QED
      BY <3>1, <3>2, <3>3, <3>5, <3>7 DEF OneMore
  <2>5. queued[e]["L"] = 0 /\ queued[e]["R"] = 0
    <3>1. queued[e]["L"] + queued[e]["R"] = 0
      BY <1>1, <2>2 DEF QuietOK, OneProbeOnAir, HeldFor, Held
    <3>2. queued[e]["L"] \in Nat /\ queued[e]["R"] \in Nat
      BY <1>1, <2>2 DEF PerWindow, Windows
    <3> QED
      BY <3>1, <3>2
  <2> QED
    BY <1>1, <2>1, <2>2, <2>3, <2>4, <2>5, ProbesOnTime
<1>9. CASE WaitLonger
  <2>1. /\ stage = "drain" /\ due = clock /\ Held > 0 /\ clock - ChangedAt < StallSec
        /\ drainLast' = Held /\ drainLastChange' = ChangedAt /\ due' = clock + PollSec
        /\ UNCHANGED <<clock, stage, edge, pending, round, queued>>
    <3>1. ChangedAt \in Nat /\ ~(clock - ChangedAt >= StallSec)
      BY <1>4, <1>9 DEF WaitLonger, Stalled, ChangedAt
    <3>2. clock - ChangedAt < StallSec
      BY <1>4, <3>1
    <3> QED
      BY <1>9, <3>2 DEF WaitLonger, medium
  <2>2. Start(longest)' = S /\ Held' = Held
    BY <1>2, <2>1, StartStays DEF Held, HeldFor
  <2>3. PICK most \in Nat : most = 1 + ProbeSize[edge]
    BY <1>3
  <2>4. PICK q \in Nat : q = Patience /\ q = StallSec + PollSec - 1
    BY <1>3 DEF Patience
  <2>5. PICK h \in Nat : h = Held
    BY <1>5
  <2>6. PICK c \in Nat : c = ChangedAt
    BY <1>4 DEF ChangedAt
  <2>7. due' <= c + q /\ clock <= due'
    BY <1>4, <2>1, <2>4, <2>6
  <2>8. h \in 1..most /\ c <= S + ProbeWindows + (most - h) * q
    <3>1. CASE drainLast = Unset
      <4>1. c = clock
        BY <1>5, <2>6, <3>1 DEF ChangedAt
      <4>2. h <= most /\ clock <= S + ProbeWindows
        BY <1>2, <2>1, <2>3, <2>5, <3>1 DEF OnTime, StageOnTime
      <4>3. PICK x \in Nat : x = (most - h) * q
        <5>1. most - h \in Nat
          BY <4>2
        <5>2. (most - h) * q \in Nat
          BY <5>1
        <5> QED
          BY <5>2
      <4>4. c <= S + ProbeWindows + x
        BY <1>3, <4>1, <4>2, <4>3
      <4> QED
        BY <2>1, <2>5, <4>2, <4>3, <4>4
    <3>2. CASE drainLast # Unset
      <4>1. PICK k \in 1..most : k = drainLast
        BY <2>1, <2>3, <3>2 DEF OnTime, StageOnTime
      <4>2. drainLastChange <= S + ProbeWindows + (most - k) * q /\ due <= drainLastChange + q
        BY <1>2, <2>1, <2>3, <2>4, <3>2, <4>1 DEF OnTime, StageOnTime
      <4>3. h <= k
        BY <1>1, <2>5, <3>2, <4>1 DEF GateOK
      <4>4. CASE h = k
        <5>1. c = drainLastChange
          BY <2>5, <2>6, <4>1, <4>4 DEF ChangedAt
        <5> QED
          BY <2>1, <2>5, <4>2, <4>4, <5>1
      <4>5. CASE h # k
        <5>1. c = clock
          BY <2>5, <2>6, <4>1, <4>5 DEF ChangedAt
        <5>2. ((most - k) + 1) * q = (most - k) * q + q /\ (most - k) * q \in Int
          BY TimesMore
        <5>3. PICK d \in Int : d = (most - k) + 1
          OBVIOUS
        <5>4. PICK m \in Int : m = most - h /\ m >= d
          BY <4>3, <4>5, <5>3
        <5>5. m * q >= d * q /\ m * q \in Int
          BY <5>4, TimesMore
        <5>6. PICK x \in Int : x = (most - k) * q
          BY <5>2
        <5>7. PICK y \in Int : y = m * q
          BY <5>5
        <5>8. y >= x + q
          BY <5>2, <5>3, <5>5, <5>6, <5>7
        <5>9. clock <= S + ProbeWindows + y
          BY <1>3, <1>4, <2>1, <4>2, <5>6, <5>8
        <5> QED
          BY <2>1, <2>5, <4>3, <5>1, <5>4, <5>7, <5>9
      <4> QED
        BY <4>4, <4>5
    <3> QED
      BY <3>1, <3>2
  <2>9. /\ drainLast' \in 1..most /\ drainLast' # Unset
        /\ drainLastChange' <= S + ProbeWindows + (most - drainLast') * q
        /\ due' <= drainLastChange' + q
    BY <2>1, <2>5, <2>6, <2>7, <2>8 DEF Unset
  <2>10. stage' = "drain" /\ edge' = edge /\ clock' <= due'
    BY <2>1, <2>7
  <2> QED
    BY <2>2, <2>3, <2>4, <2>9, <2>10 DEF OnTime, StageOnTime
<1>10. ASSUME UNCHANGED <<stage, due, edge, pending, round, gate>>, Held' = Held \/ Held' = Held - 1,
              stage # "done" => clock' <= due
       PROVE  OnTime(longest)'
  <2>1. Start(longest)' = S
    BY <1>2, <1>10, StartStays
  <2> QED
    <3>1. \A m \in Nat : Held <= m => Held' <= m
      BY <1>5, <1>10
    <3>2. (Held <= 1 => Held' <= 1) /\ (Held <= 1 + ProbeSize[edge] => Held' <= 1 + ProbeSize[edge])
      BY <1>3, <3>1
    <3> QED
      BY <1>2, <1>10, <2>1, <3>2 DEF OnTime, StageOnTime, gate
<1>11. ASSUME NEW e \in Edges, NEW w \in Windows, Deliver(e, w) \/ Lose(e, w) PROVE OnTime(longest)'
  BY <1>1, <1>10, <1>11, MediumSteps DEF OnTime, gate
<1>12. CASE Advance
  BY <1>4, <1>10, <1>12 DEF Advance, Held, HeldFor, medium, gate
<1>13. CASE UNCHANGED vars
  BY <1>10, <1>13 DEF OnTime, vars, Held, HeldFor, medium, gate
<1>14. CASE Conclude
  <2>1. /\ stage = "retry" /\ stage' = "stopping" /\ due' = clock + 1
        /\ UNCHANGED <<clock, pending, round>>
    BY <1>14 DEF Conclude
  <2>2. Start(longest)' = S
    BY <1>2, <2>1, StartStays
  <2>3. clock <= due /\ due <= S + longest
    BY <1>2, <2>1 DEF OnTime, StageOnTime
  <2>4. clock <= clock + 1 /\ clock + 1 <= S + longest + 1
    BY <1>3, <1>4, <2>3
  <2> QED
    BY <2>1, <2>2, <2>4 DEF OnTime, StageOnTime
<1>15. CASE Finish
  <2>1. stage' = "done"
    BY <1>15 DEF Finish
  <2> QED
    BY <2>1 DEF OnTime, StageOnTime
<1> QED
  BY <1>6, <1>7, <1>8, <1>9, <1>11, <1>12, <1>13, <1>14, <1>15 DEF Next

LEMMA InitOnTime ==
  ASSUME Init, NEW longest, Suffices(longest)
  PROVE  OnTime(longest)
<1>1. 1 \in Edges /\ NumEdges \in Nat
  BY EdgesAssumption DEF Edges
<1>2. Cardinality(pending) = NumEdges - 1
  <2>1. IsFiniteSet(Edges) /\ Cardinality(Edges) = NumEdges
    BY <1>1, FS_Interval, EdgesAssumption DEF Edges
  <2> QED
    BY <1>1, <2>1, FS_RemoveElement DEF Init
<1>3. Begun = 1
  <2>1. (round - 1) * NumEdges = 0
    BY <1>1 DEF Init
  <2> QED
    BY <1>1, <1>2, <2>1 DEF Begun
<1>4. Start(longest) = 0
  BY <1>3 DEF Start, Suffices
<1>5. Held = 1
  BY <1>1 DEF Init, Held, HeldFor, Nothing, Windows
<1>6. stage = "L" /\ due = WindowSec /\ clock = 0 /\ WindowSec \in Nat
  BY SweepAssumption DEF Init
<1> QED
  BY <1>4, <1>5, <1>6 DEF OnTime, StageOnTime

(* If the armed Stop leaves every round the time that its probes may take, *)
(* it never fires: the simulator returns on the Stop of the retry pass.    *)
THEOREM StopOutlastsRounds ==
  ASSUME NEW longest, Suffices(longest)
  PROVE  Spec => SweepNotCut
<1>1. Init => OnTime(longest)
  BY InitOnTime
<1>2. IInv /\ OnTime(longest) /\ [Next]_vars => OnTime(longest)'
  BY TypeStep, OnTimeStep
<1>3. ASSUME IInv, OnTime(longest), [Next]_vars, stage' # stage, stage' = "done"
      PROVE  stage = "stopping"
  <2>1. TypeOK
    BY <1>3 DEF IInv
  <2>2. Finish
    <3>1. ~WaitLonger /\ ~Conclude /\ ~Advance /\ ~UNCHANGED vars
      BY <1>3 DEF WaitLonger, Conclude, Advance, vars
    <3>2. ~WindowEnds /\ ~DrainDone /\ ~Retry
      BY <1>3 DEF WindowEnds, DrainDone, Retry, StartNextEdge
    <3>3. ASSUME NEW e \in Edges, NEW w \in Windows, Deliver(e, w) \/ Lose(e, w) PROVE FALSE
      BY <1>3, <3>3 DEF Deliver, Lose
    <3> QED
      BY <1>3, <3>1, <3>2, <3>3 DEF Next
  <2>3. CASE stage # "done" /\ clock = ArmedStop
    <3>1. clock <= Start(longest) + longest + 1 /\ Start(longest) + longest + 1 < ArmedStop
      BY <1>3, <2>1, <2>3, OverInTime, StartBounds
    <3>2. Start(longest) \in Int /\ longest \in Nat
      BY <2>1, StartBounds DEF Suffices
    <3> QED
      BY <2>3, <3>1, <3>2, ArmedStopNat
  <2> QED
    BY <2>2, <2>3 DEF Finish
<1>4. IInv /\ OnTime(longest) /\ [Next]_vars => [stage' = "done" => stage = "stopping"]_stage
  BY <1>3
<1> QED
  BY <1>1, <1>2, <1>4, Invariance, PTL DEF Spec, SweepNotCut
=============================================================================
