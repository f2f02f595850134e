----------------------------- MODULE Drain_proofs -----------------------------
(***************************************************************************)
(* Proofs about the end of a run, for any number of packets and hops, any  *)
(* lifetime and any setting of the poller.  The poller compares two counts *)
(* and follows no packet; the invariant says what a count that stands      *)
(* still means while packets enter, cross, outlive and leave the mesh.     *)
(***************************************************************************)
EXTENDS Drain, FiniteSetTheorems, TLAPS

Places == {"source", "qdisc", "radio", "delivered", "dropped"}
Verdicts == {"none", "empty", "corpses", "stuck in queue disc", "unexplained", "cut at cap"}

FlagsOK ==
  /\ reap \in BOOLEAN /\ running \in BOOLEAN /\ stopping \in BOOLEAN /\ stalled \in BOOLEAN

PacketsOK ==
  /\ place \in [Packets -> Places]
  /\ hop \in [Packets -> 1..Hops]
  /\ since \in [Packets -> Nat]

ClocksOK ==
  /\ clock \in Nat /\ expired \in Nat /\ lastHeld \in Nat
  /\ nextPoll \in Nat \cup {Unset} /\ drainTook \in Int /\ flatSince \in Nat \cup {Unset}
  /\ lastLeft \in Nat /\ lastLeft <= clock

TypeOK == FlagsOK /\ PacketsOK /\ ClocksOK /\ verdict \in Verdicts

(* A poll is due, or it has asked the simulator to stop; a frozen clock    *)
(* keeps what the last poll saw true of the instant of the verdict.        *)
PollerOK ==
  /\ IF stopping THEN nextPoll = Unset /\ clock >= SourcesStop
                 ELSE nextPoll >= clock /\ nextPoll >= SourcesStop
  /\ flatSince # Unset => SourcesStop <= flatSince /\ flatSince <= clock
  /\ ~stopping => IF flatSince = Unset THEN nextPoll = SourcesStop
                                       ELSE nextPoll <= clock + PollSec
  /\ stalled => stopping /\ flatSince # Unset /\ clock - flatSince >= Stall
  /\ ~running => stopping \/ clock = ArmedStopAt

(* What the poller remembers bounds what the mesh holds: a count equal to  *)
(* the remembered one means that nothing has left since it was first seen. *)
CountOK ==
  /\ flatSince # Unset =>
       Held <= lastHeld /\ (Held = lastHeld => lastLeft <= flatSince)
  /\ flatSince # Unset /\ ~stopping /\ Held = 0 => nextPoll <= lastLeft + PollSec
  /\ stopping => stalled \/ Held = 0 \/ clock >= DrainStart + CapSec
  /\ StopsOnceEmpty

VerdictOK ==
  /\ verdict # "none" => ~running
  /\ verdict = "corpses" => stalled
  /\ verdict = "cut at cap" => clock >= DrainStart + CapSec

IInv == TypeOK /\ PollerOK /\ CountOK /\ VerdictOK

-----------------------------------------------------------------------------
(* The packets that HeldPackets counts. *)
Mesh == {p \in Packets : place[p] \in {"qdisc", "radio"}}

LEMMA PacketCounts ==
  ASSUME NEW S \in SUBSET Packets
  PROVE  IsFiniteSet(S) /\ Cardinality(S) \in Nat
BY MeshAssumption, FS_Subset, FS_CardinalityType

LEMMA DisjointCounts ==
  ASSUME NEW S \in SUBSET Packets, NEW T \in SUBSET Packets, S \cap T = {}
  PROVE  Cardinality(S) + Cardinality(T) = Cardinality(S \cup T)
<1>1. IsFiniteSet(S) /\ IsFiniteSet(T)
  BY PacketCounts
<1>2. Cardinality(S \cup T) = Cardinality(S) + Cardinality(T) - Cardinality(S \cap T)
  BY <1>1, FS_Union
<1>3. Cardinality(S \cap T) = 0
  BY FS_EmptySet
<1> QED
  BY <1>2, <1>3, PacketCounts

LEMMA SmallerCount ==
  ASSUME NEW S \in SUBSET Packets, NEW T \in SUBSET S, T # S
  PROVE  Cardinality(T) < Cardinality(S)
<1>1. T \in SUBSET Packets
  OBVIOUS
<1>2. Cardinality(T) <= Cardinality(S) /\ (Cardinality(S) = Cardinality(T) => S = T)
  BY PacketCounts, FS_Subset
<1> QED
  BY <1>1, <1>2, PacketCounts

LEMMA EmptyCount ==
  ASSUME NEW S \in SUBSET Packets
  PROVE  Cardinality(S) = 0 <=> S = {}
BY PacketCounts, FS_EmptySet

LEMMA HeldIsMesh ==
  /\ Mesh \in SUBSET Packets /\ Held = Cardinality(Mesh) /\ Held \in Nat
  /\ Held = 0 <=> Mesh = {}
<1> DEFINE Q == In("qdisc")
           R == In("radio")
<1>1. Q \in SUBSET Packets /\ R \in SUBSET Packets /\ Q \cap R = {} /\ Mesh = Q \cup R
  BY DEF In, Mesh
<1>2. Held = Cardinality(Q) + Cardinality(R)
  BY DEF Held
<1> HIDE DEF Q, R
<1>3. Mesh \in SUBSET Packets
  BY <1>1
<1> QED
  BY <1>1, <1>2, <1>3, DisjointCounts, EmptyCount, PacketCounts

LEMMA HeldIsMeshNext ==
  /\ Mesh' \in SUBSET Packets /\ Held' = Cardinality(Mesh') /\ Held' \in Nat
  /\ Held' = 0 <=> Mesh' = {}
<1> DEFINE Q == In("qdisc")'
           R == In("radio")'
<1>1. Q \in SUBSET Packets /\ R \in SUBSET Packets /\ Q \cap R = {} /\ Mesh' = Q \cup R
  BY DEF In, Mesh
<1>2. Held' = Cardinality(Q) + Cardinality(R)
  BY DEF Held
<1> HIDE DEF Q, R
<1>3. Mesh' \in SUBSET Packets
  BY <1>1
<1> QED
  BY <1>1, <1>2, <1>3, DisjointCounts, EmptyCount, PacketCounts

-----------------------------------------------------------------------------
(* What a step does to the packets the mesh holds. *)
Stays == Mesh' = Mesh /\ lastLeft' = lastLeft
Enters == clock < SourcesStop /\ Mesh' # {} /\ lastLeft' = lastLeft
Leaves == Mesh' \in SUBSET Mesh /\ Mesh' # Mesh /\ lastLeft' = clock

PacketMoves == \E p \in Packets : Emit(p) \/ EnterRadio(p) \/ Relay(p) \/ Leave(p)

LEMMA PacketSteps ==
  ASSUME PacketsOK, PacketMoves
  PROVE  /\ Live /\ UNCHANGED <<reap, clock, running, stopping, expired, poller, verdict>>
         /\ Stays \/ Enters \/ Leaves
<1>1. ASSUME NEW p \in Packets, Emit(p)
      PROVE  Live /\ UNCHANGED <<reap, clock, running, stopping, expired, poller, verdict>> /\ Enters
  BY <1>1 DEF Emit, Enters, Mesh, PacketsOK
<1>2. ASSUME NEW p \in Packets, EnterRadio(p)
      PROVE  Live /\ UNCHANGED <<reap, clock, running, stopping, expired, poller, verdict>>
             /\ (Stays \/ Leaves)
  <2> DEFINE swept == {d \in InRadio(hop[p]) : Dead(d)}
  <2>1. /\ Live /\ UNCHANGED <<reap, clock, running, stopping, expired, poller, verdict>>
        /\ place[p] = "qdisc"
        /\ place' = [q \in Packets |-> IF q = p THEN "radio"
                                       ELSE IF q \in swept THEN "dropped" ELSE place[q]]
        /\ lastLeft' = IF swept = {} THEN lastLeft ELSE clock
    BY <1>2 DEF EnterRadio
  <2>2. swept \in SUBSET Mesh /\ p \in Mesh \ swept
    BY <2>1 DEF InRadio, In, Mesh
  <2> HIDE DEF swept
  <2>3. Mesh' = Mesh \ swept
    BY <2>1, <2>2 DEF Mesh
  <2> QED
    BY <2>1, <2>2, <2>3 DEF Stays, Leaves
<1>3. ASSUME NEW p \in Packets, Relay(p)
      PROVE  Live /\ UNCHANGED <<reap, clock, running, stopping, expired, poller, verdict>> /\ Stays
  BY <1>3 DEF Relay, Stays, Mesh, PacketsOK
<1>4. ASSUME NEW p \in Packets, Leave(p)
      PROVE  Live /\ UNCHANGED <<reap, clock, running, stopping, expired, poller, verdict>> /\ Leaves
  <2>1. p \in Mesh /\ Mesh' = Mesh \ {p} /\ lastLeft' = clock
    BY <1>4 DEF Leave, Mesh, PacketsOK
  <2> QED
    BY <1>4, <2>1 DEF Leave, Leaves
<1> QED
  BY <1>1, <1>2, <1>3, <1>4 DEF PacketMoves

(* The poll counts what is left once it has swept. *)
LEMMA PollSteps ==
  ASSUME PacketsOK, DrainPoll
  PROVE  HeldNow = Held' /\ (Stays \/ Leaves)
<1>1. Swept \in SUBSET Mesh /\ Swept \in SUBSET Packets
  BY DEF Swept, Dead, Mesh
<1>2. /\ place' = [p \in Packets |-> IF p \in Swept THEN "dropped" ELSE place[p]]
      /\ lastLeft' = IF Swept = {} THEN lastLeft ELSE clock
  BY DEF DrainPoll
<1>3. Mesh' = Mesh \ Swept
  BY <1>1, <1>2 DEF Mesh
<1>4. Cardinality(Mesh \ Swept) + Cardinality(Swept) = Cardinality(Mesh)
  <2>1. (Mesh \ Swept) \cup Swept = Mesh /\ (Mesh \ Swept) \cap Swept = {}
    BY <1>1
  <2>2. Mesh \ Swept \in SUBSET Packets
    BY HeldIsMesh
  <2> QED
    BY <1>1, <2>1, <2>2, DisjointCounts
<1>5. HeldNow = Held'
  BY <1>1, <1>3, <1>4, HeldIsMesh, HeldIsMeshNext, PacketCounts DEF HeldNow
<1> QED
  BY <1>1, <1>2, <1>3, <1>5 DEF Stays, Leaves

LEMMA HeldSteps ==
  /\ Stays => Held' = Held
  /\ Enters => Held' > 0
  /\ Leaves => Held' < Held
<1>1. Stays => Held' = Held
  BY HeldIsMesh, HeldIsMeshNext DEF Stays
<1>2. Enters => Held' > 0
  BY HeldIsMeshNext DEF Enters
<1>3. Leaves => Held' < Held
  BY HeldIsMesh, HeldIsMeshNext, SmallerCount DEF Leaves
<1> QED
  BY <1>1, <1>2, <1>3

-----------------------------------------------------------------------------
LEMMA InitInvariant ==
  ASSUME Init
  PROVE  IInv
<1> USE DEF Init, Unset, SourcesStop, ArmedStopAt
<1>1. TypeOK
  <2>1. FlagsOK
    BY MeshAssumption DEF FlagsOK
  <2>2. PacketsOK
    BY TimeAssumption, MeshAssumption DEF PacketsOK, Places
  <2>3. ClocksOK
    BY TimeAssumption, MeshAssumption DEF ClocksOK
  <2> QED
    BY <2>1, <2>2, <2>3 DEF TypeOK, Verdicts
<1>2. PollerOK
  BY TimeAssumption DEF PollerOK
<1>3. CountOK
  BY TimeAssumption DEF CountOK, StopsOnceEmpty
<1>4. VerdictOK
  BY DEF VerdictOK
<1> QED
  BY <1>1, <1>2, <1>3, <1>4 DEF IInv

LEMMA PacketsStep ==
  ASSUME PacketsOK, ClocksOK, [Next]_vars
  PROVE  PacketsOK'
<1> USE DEF PacketsOK, ClocksOK, Places
<1>1. ASSUME NEW p \in Packets, Emit(p) PROVE PacketsOK'
  BY <1>1 DEF Emit
<1>2. ASSUME NEW p \in Packets, EnterRadio(p) PROVE PacketsOK'
  <2>1. place' \in [Packets -> Places]
    BY <1>2 DEF EnterRadio
  <2>2. since' \in [Packets -> Nat] /\ hop' = hop
    BY <1>2 DEF EnterRadio
  <2> QED
    BY <2>1, <2>2
<1>3. ASSUME NEW p \in Packets, Relay(p) PROVE PacketsOK'
  BY <1>3, MeshAssumption DEF Relay
<1>4. ASSUME NEW p \in Packets, Leave(p) PROVE PacketsOK'
  BY <1>4 DEF Leave
<1>5. CASE DrainPoll
  BY <1>5 DEF DrainPoll
<1>6. CASE Advance \/ Halt \/ PrintDrain \/ UNCHANGED vars
  BY <1>6 DEF Advance, Halt, PrintDrain, vars, packets
<1> QED
  BY <1>1, <1>2, <1>3, <1>4, <1>5, <1>6 DEF Next

LEMMA ClocksStep ==
  ASSUME PacketsOK, ClocksOK, [Next]_vars
  PROVE  ClocksOK'
<1> USE TimeAssumption DEF ClocksOK, Unset
<1>1. CASE PacketMoves
  <2>1. UNCHANGED <<clock, expired, poller>> /\ lastLeft' \in {lastLeft, clock}
    BY <1>1, PacketSteps DEF Stays, Enters, Leaves
  <2> QED
    BY <2>1 DEF poller
<1>2. CASE Advance
  <2>1. Cardinality({p \in In("radio") : clock + 1 - since[p] = Lifetime}) \in Nat
    BY PacketCounts DEF In
  <2> QED
    BY <1>2, <2>1 DEF Advance, poller
<1>3. CASE DrainPoll
  <2>1. UNCHANGED <<clock, expired>> /\ lastLeft' \in {lastLeft, clock}
    BY <1>3 DEF DrainPoll
  <2>2. HeldNow \in Nat
    BY <1>3, PollSteps, HeldIsMeshNext
  <2>3. CASE StopAsEmpty
    BY <2>1, <2>3 DEF StopAsEmpty, DrainStart
  <2>4. CASE StopAsStalled
    BY <2>1, <2>4 DEF StopAsStalled, DrainStart
  <2>5. CASE KeepLooking
    BY <2>1, <2>2, <2>5 DEF KeepLooking
  <2> QED
    BY <1>3, <2>3, <2>4, <2>5 DEF DrainPoll
<1>4. CASE Halt \/ PrintDrain \/ UNCHANGED vars
  BY <1>4 DEF Halt, PrintDrain, vars, poller
<1> QED
  BY <1>1, <1>2, <1>3, <1>4 DEF Next, PacketMoves

LEMMA FlagsStep ==
  ASSUME FlagsOK, verdict \in Verdicts, [Next]_vars
  PROVE  FlagsOK' /\ verdict' \in Verdicts
<1> USE DEF FlagsOK
<1>1. CASE PacketMoves
  BY <1>1 DEF PacketMoves, Emit, EnterRadio, Relay, Leave, poller
<1>2. CASE DrainPoll
  BY <1>2 DEF DrainPoll, StopAsEmpty, StopAsStalled, KeepLooking
<1>3. CASE Advance \/ Halt \/ UNCHANGED vars
  BY <1>3 DEF Advance, Halt, vars, poller
<1>4. CASE PrintDrain
  <2>1. Judgement \in Verdicts
    BY DEF Judgement, Verdicts
  <2> QED
    BY <1>4, <2>1 DEF PrintDrain, poller
<1> QED
  BY <1>1, <1>2, <1>3, <1>4 DEF Next, PacketMoves

LEMMA TypeStep ==
  ASSUME TypeOK, [Next]_vars
  PROVE  TypeOK'
BY PacketsStep, ClocksStep, FlagsStep DEF TypeOK

LEMMA PollerStep ==
  ASSUME TypeOK, PollerOK, [Next]_vars
  PROVE  PollerOK'
<1> USE TimeAssumption DEF TypeOK, ClocksOK, PollerOK, Unset, SourcesStop, ArmedStopAt, Stall
<1>1. CASE PacketMoves
  BY <1>1, PacketSteps DEF Live, poller
<1>2. CASE Advance
  BY <1>2 DEF Advance, Live, poller
<1>3. CASE DrainPoll
  BY <1>3 DEF DrainPoll, Live, StopAsEmpty, StopAsStalled, KeepLooking, Moved, Flat
<1>4. CASE Halt
  BY <1>4 DEF Halt, poller
<1>5. CASE PrintDrain
  BY <1>5 DEF PrintDrain, poller
<1>6. CASE UNCHANGED vars
  BY <1>6 DEF vars, poller
<1> QED
  BY <1>1, <1>2, <1>3, <1>4, <1>5, <1>6 DEF Next, PacketMoves

(* The four steps after which the mesh holds what it held. *)
LEMMA StillSteps ==
  ASSUME Advance \/ Halt \/ PrintDrain \/ UNCHANGED vars
  PROVE  Held' = Held /\ In("qdisc")' = In("qdisc") /\ UNCHANGED <<lastLeft, poller, stopping>>
<1>1. UNCHANGED <<place, lastLeft, poller, stopping>>
  BY DEF Advance, Halt, PrintDrain, vars, packets, poller
<1> QED
  BY <1>1 DEF Held, In

LEMMA CountStep ==
  ASSUME TypeOK, PollerOK, CountOK, [Next]_vars
  PROVE  CountOK'
<1> USE TimeAssumption, HeldIsMesh, HeldIsMeshNext
    DEF TypeOK, ClocksOK, PollerOK, CountOK, StopsOnceEmpty, Unset, SourcesStop, DrainStart
<1>1. CASE PacketMoves
  <2>1. Live /\ UNCHANGED <<clock, running, stopping, poller>> /\ (Stays \/ Enters \/ Leaves)
    BY <1>1, PacketSteps
  <2>2. CASE Stays
    BY <2>1, <2>2, HeldSteps DEF Stays, poller
  <2>3. CASE Enters
    BY <2>1, <2>3, HeldSteps DEF Enters, poller
  <2>4. CASE Leaves
    BY <2>1, <2>4, HeldSteps DEF Leaves, poller
  <2> QED
    BY <2>1, <2>2, <2>3, <2>4
<1>2. CASE Advance
  BY <1>2, StillSteps DEF Advance, poller
<1>3. CASE DrainPoll
  <2>1. HeldNow = Held' /\ (Stays \/ Leaves)
    BY <1>3, PollSteps
  <2>2. Held' <= Held /\ (Held' = Held => lastLeft' = lastLeft) /\ (Held' < Held => lastLeft' = clock)
    BY <2>1, HeldSteps DEF Stays, Leaves
  <2>3. /\ Live /\ nextPoll = clock /\ UNCHANGED <<clock, running>>
        /\ StopAsEmpty \/ StopAsStalled \/ KeepLooking
    BY <1>3 DEF DrainPoll
  <2>4. CASE StopAsEmpty
    BY <2>1, <2>2, <2>3, <2>4 DEF StopAsEmpty, Live
  <2>5. CASE StopAsStalled
    BY <2>1, <2>2, <2>3, <2>5 DEF StopAsStalled, Moved, Flat
  <2>6. CASE KeepLooking
    BY <2>1, <2>2, <2>3, <2>6 DEF KeepLooking, Moved, AtCap
  <2> QED
    BY <2>3, <2>4, <2>5, <2>6
<1>4. CASE Halt
  BY <1>4, StillSteps DEF Halt, poller
<1>5. CASE PrintDrain
  BY <1>5, StillSteps DEF PrintDrain, poller
<1>6. CASE UNCHANGED vars
  BY <1>6, StillSteps DEF vars, poller
<1> QED
  BY <1>1, <1>2, <1>3, <1>4, <1>5, <1>6 DEF Next, PacketMoves

LEMMA VerdictStep ==
  ASSUME IInv, [Next]_vars
  PROVE  VerdictOK'
<1> USE DEF VerdictOK
<1>1. CASE PacketMoves
  <2>1. Live /\ UNCHANGED <<running, verdict>>
    BY <1>1, PacketSteps DEF IInv, TypeOK
  <2> QED
    BY <2>1 DEF IInv, Live
<1>2. CASE Advance
  BY <1>2 DEF IInv, Advance, Live
<1>3. CASE DrainPoll
  BY <1>3 DEF IInv, DrainPoll, Live
<1>4. CASE Halt
  BY <1>4, StillSteps DEF IInv, Halt, poller
<1>5. CASE PrintDrain
  <2>1. UNCHANGED <<clock, running, stalled>> /\ ~running /\ verdict' = Judgement
    BY <1>5, StillSteps DEF PrintDrain, poller
  <2>2. verdict' = "corpses" => stalled
    BY <2>1 DEF Judgement
  <2>3. ASSUME verdict' = "cut at cap" PROVE clock >= DrainStart + CapSec
    <3>1. Held = 0 \/ Held > 0
      BY HeldIsMesh
    <3>2. expired = 0 \/ expired > 0
      <4>1. ClocksOK
        BY DEF IInv, TypeOK
      <4> QED
        BY <4>1 DEF ClocksOK
    <3>3. Judgement = "cut at cap" => Held # 0 /\ ~stalled
      BY <3>1, <3>2, Zenon DEF Judgement
    <3>4. stopping \/ clock = ArmedStopAt
      BY <2>1 DEF IInv, PollerOK
    <3>5. CASE stopping
      BY <2>1, <2>3, <3>3, <3>5 DEF IInv, CountOK
    <3>6. CASE clock = ArmedStopAt
      BY <3>6, TimeAssumption DEF ArmedStopAt, DrainStart
    <3> QED
      BY <3>4, <3>5, <3>6
  <2> QED
    BY <2>1, <2>2, <2>3
<1>6. CASE UNCHANGED vars
  BY <1>6, StillSteps DEF IInv, vars, poller
<1> QED
  BY <1>1, <1>2, <1>3, <1>4, <1>5, <1>6 DEF Next, PacketMoves

(* The invariant holds in every state of a run's end.                      *)
THEOREM Invariance == Spec => []IInv
<1>1. Init => IInv
  BY InitInvariant
<1>2. IInv /\ [Next]_vars => IInv'
  BY TypeStep, PollerStep, CountStep, VerdictStep DEF IInv
<1> QED
  BY <1>1, <1>2, PTL DEF Spec

(* The type invariant of the drain. *)
THEOREM TypeCorrect == Spec => []TypeOK
BY Invariance, PTL DEF IInv

(* The simulator does not outlive the drain by more than a poll.           *)
THEOREM StopsWithinAPoll == Spec => []StopsOnceEmpty
BY Invariance, PTL DEF IInv, CountOK

(* With a stall limit no shorter than the lifetime of a frame, a corpse    *)
(* verdict excuses only dead frames and those that came after the stall    *)
(* began.                                                                  *)
THEOREM CorpsesExcused == Spec => []CorpsesDeadOrRecent
<1>1. IInv => CorpsesDeadOrRecent
  <2> SUFFICES ASSUME IInv, verdict = "corpses", Lifetime <= StallSec,
                      NEW p \in In("radio"), ~(since[p] > flatSince)
               PROVE  Dead(p)
    BY DEF CorpsesDeadOrRecent
  <2>1. PacketsOK /\ ClocksOK /\ PollerOK /\ stalled
    BY DEF IInv, TypeOK, VerdictOK
  <2>2. p \in Packets /\ place[p] = "radio" /\ since[p] \in Nat
    BY <2>1 DEF In, PacketsOK
  <2>3. Stall >= StallSec
    BY TimeAssumption DEF Stall
  <2>4. clock - since[p] >= Lifetime
    BY <2>1, <2>2, <2>3, TimeAssumption DEF PollerOK, ClocksOK, Stall, Unset
  <2> QED
    BY <2>2, <2>4 DEF Dead
<1> QED
  BY <1>1, Invariance, PTL

(* "Still draining at the cap" is never said earlier than CapSec after the *)
(* delay the poller takes for the drain's start.                           *)
CapVerdictAtDelay == verdict = "cut at cap" => clock >= DrainStart + CapSec

(* The verdict on the poller's own time axis, whatever clock the traffic   *)
(* run was set up at.                                                      *)
THEOREM CapVerdictOnDelay == Spec => []CapVerdictAtDelay
BY Invariance, PTL DEF IInv, VerdictOK, CapVerdictAtDelay

(* A run that reads a saved link table sets the traffic up at time zero:   *)
(* there the two axes agree and the cap verdict is said at the cap.  After *)
(* a warm-up sweep they do not (Base > 0), and the statement fails.        *)
THEOREM CapVerdictAtZero ==
  ASSUME Base = 0
  PROVE  Spec => []CapVerdictAtCap
<1>1. ArmedStopAt = DrainStart + CapSec
  BY TimeAssumption DEF DrainStart, ArmedStopAt
<1>2. CapVerdictAtDelay => CapVerdictAtCap
  BY <1>1 DEF CapVerdictAtDelay, CapVerdictAtCap
<1> QED
  BY <1>2, CapVerdictOnDelay, PTL

(* A stall is declared only after Stall without a departure.               *)
THEOREM StallIsStill == Spec => StallMeansNoDeparture
<1>1. ASSUME IInv, [Next]_vars, stalled' # stalled
      PROVE  clock - lastLeft >= Stall
  <2>1. UNCHANGED stalled \/ DrainPoll
    <3>1. CASE PacketMoves
      BY <1>1, <3>1, PacketSteps DEF IInv, TypeOK, poller
    <3>2. CASE Advance \/ Halt \/ PrintDrain \/ UNCHANGED vars
      BY <3>2, StillSteps DEF poller
    <3> QED
      BY <1>1, <3>1, <3>2 DEF Next, PacketMoves
  <2>2. DrainPoll /\ StopAsStalled
    BY <1>1, <2>1 DEF DrainPoll, StopAsEmpty, KeepLooking
  <2>3. TypeOK /\ PollerOK /\ CountOK
    BY <1>1 DEF IInv
  <2>4. Held' = lastHeld /\ flatSince # Unset /\ clock - flatSince >= Stall /\ Held' <= Held
    <3>1. HeldNow = Held' /\ Held' <= Held
      BY <2>2, <2>3, PollSteps, HeldSteps, HeldIsMesh, HeldIsMeshNext DEF TypeOK
    <3> QED
      BY <2>2, <3>1 DEF StopAsStalled, Moved, Flat, Unset
  <2>5. Held <= lastHeld /\ (Held = lastHeld => lastLeft <= flatSince)
    BY <2>3, <2>4 DEF CountOK
  <2>6. lastLeft <= flatSince
    BY <2>3, <2>4, <2>5, HeldIsMesh, HeldIsMeshNext DEF TypeOK, ClocksOK
  <2> QED
    BY <2>3, <2>4, <2>6, TimeAssumption DEF TypeOK, ClocksOK, Stall, Unset
<1>2. IInv /\ [Next]_vars => [stalled' # stalled => clock - lastLeft >= Stall]_vars
  BY <1>1
<1> QED
  BY <1>2, Invariance, PTL DEF Spec, StallMeansNoDeparture
=============================================================================
