---------------------------- MODULE WarmupSweep ----------------------------
(***************************************************************************)
(* The warm-up sweep of harness/warmup.cc: every edge is probed alone, an  *)
(* L window (delay) and then an R window (capacity), and the next edge     *)
(* waits until the sender of the last one is drained and flushed.  Edges   *)
(* whose sinks heard too little are probed again, for at most MaxRounds    *)
(* rounds; the flow statistics then become the link table, whose holes and *)
(* outliers take the median.                                               *)
(*                                                                         *)
(* The medium is ns-3's: each queued packet is delivered, lost, or never   *)
(* moves at all.  A delay is one of the values in Delays; a capacity is    *)
(* the number of packets that the R flow delivered, 0 when it delivered    *)
(* one only and so has no span to divide by.                               *)
(*                                                                         *)
(* D_Variant is D with a plausible mistake in it, for the runs to find.    *)
(***************************************************************************)
EXTENDS LinkTable

CONSTANTS
  MaxRounds,
  WindowSec, GuardSec, PollSec, StallSec,
  EdgeBudget,    \* seconds the armed Stop grants an edge and round (10.0)
  ProbeSize,     \* bound: packets the R window of each edge sends
  Delays         \* bound: the delays an L packet can show

ASSUME SweepAssumption ==
  /\ MaxRounds \in Nat \ {0}
  /\ WindowSec \in Nat \ {0} /\ GuardSec \in Nat \ {0} /\ PollSec \in Nat \ {0}
  /\ StallSec \in Nat /\ EdgeBudget \in Nat
  /\ ProbeSize \in [Edges -> Nat \ {0}]
  /\ Delays \subseteq Nat \ {0}

VARIABLES
  clock,
  stage,       \* what the sweep is waiting for
  due,         \* when that happens
  edge,        \* the edge being probed, or probed last
  pending,     \* edges of this round not started yet
  round,
  drainLast, drainLastChange,
  queued,      \* per edge, the packets its sender still holds from the probe
  heard,       \* per edge, the totals of its latest L and R sinks
  attempts,    \* how often an edge was probed
  flow,        \* per edge, the last non-empty flow statistics of L and R
  table,       \* the link table, once the simulator has returned
  lastSent     \* history: when the probe's packets last changed in number

gate == <<drainLast, drainLastChange>>
medium == <<queued, heard, flow, lastSent>>
vars == <<clock, stage, due, edge, pending, round, gate, medium, attempts, table>>

Windows == {"L", "R"}
Nothing == [w \in Windows |-> 0]
Stages == {"L", "after L", "R", "after R", "drain", "retry", "stopping", "done"}

ArmedStop_OneRound == NumEdges * EdgeBudget + 2
ArmedStop == NumEdges * EdgeBudget * (MaxRounds + 1) + 2

HeldFor(e) == queued[e]["L"] + queued[e]["R"]
Held == HeldFor(edge)

-----------------------------------------------------------------------------
(* BeginWarmup: the whole edge list is pending, the safety Stop is armed,  *)
(* and the first edge starts.                                              *)
Init ==
  /\ clock = 0
  /\ stage = "L" /\ due = WindowSec /\ edge = 1
  /\ pending = Edges \ {1}
  /\ round = 1
  /\ drainLast = Unset /\ drainLastChange = 0
  /\ queued = [e \in Edges |-> IF e = 1 THEN [Nothing EXCEPT !["L"] = 1] ELSE Nothing]
  /\ heard = [e \in Edges |-> Nothing]
  /\ attempts = [e \in Edges |-> IF e = 1 THEN 1 ELSE 0]
  /\ flow = [e \in Edges |-> [w \in Windows |-> Unset]]
  /\ table = <<>>
  /\ lastSent = 0

(* The edge under the cursor, none past the end of the list. *)
AtCursor_StopsShort(todo) == {e \in todo : todo # {e} /\ \A d \in todo : e <= d}
AtCursor(todo) == {e \in todo : \A d \in todo : e <= d}

(* StartNextEdge over the pending edges `todo`, the sender having been left*)
(* with `left`: the windows of the first one are laid out from now on      *)
(* fresh ports with fresh sinks, or the retry pass is scheduled for now.   *)
StartNextEdge(todo, left) ==
  \/ /\ AtCursor(todo) = {}
     /\ stage' = "retry" /\ due' = clock
     /\ pending' = todo /\ queued' = left
     /\ UNCHANGED <<edge, heard, attempts, lastSent>>
  \/ \E e \in AtCursor(todo) :
       /\ stage' = "L" /\ due' = clock + WindowSec /\ edge' = e
       /\ pending' = todo \ {e}
       /\ queued' = [left EXCEPT ![e]["L"] = @ + 1]
       /\ heard' = [heard EXCEPT ![e] = Nothing]
       /\ attempts' = [attempts EXCEPT ![e] = @ + 1]
       /\ lastSent' = clock

(* The windows of ScheduleEdgeWindows: L, guard, R, guard, then WaitDrain. *)
WindowEnds ==
  /\ due = clock /\ clock < ArmedStop
  /\ \/ /\ stage = "L" /\ stage' = "after L" /\ due' = clock + GuardSec
        /\ UNCHANGED <<queued, lastSent>>
     \/ /\ stage = "after L" /\ stage' = "R" /\ due' = clock + WindowSec
        /\ queued' = [queued EXCEPT ![edge]["R"] = @ + ProbeSize[edge]]
        /\ lastSent' = clock
     \/ /\ stage = "R" /\ stage' = "after R" /\ due' = clock + GuardSec
        /\ UNCHANGED <<queued, lastSent>>
     \/ /\ stage = "after R" /\ stage' = "drain" /\ due' = clock
        /\ UNCHANGED <<queued, lastSent>>
  /\ UNCHANGED <<clock, edge, pending, round, gate, heard, flow, attempts, table>>

-----------------------------------------------------------------------------
(* The medium.  FlowMonitor sees every arrival; the L sink counts only     *)
(* until its guard is over, the R sink for ever.                           *)
SinkOpen(e, w) == w = "R" \/ (e = edge /\ stage \in {"L", "after L"})

(* What ExtractLinkTable makes of the R flow: bytes over span.             *)
CapacityOf(delivered) == IF delivered = 1 THEN 0 ELSE delivered

Deliver(e, w) ==
  /\ stage # "done" /\ queued[e][w] > 0
  /\ queued' = [queued EXCEPT ![e][w] = @ - 1]
  /\ heard' = IF SinkOpen(e, w) THEN [heard EXCEPT ![e][w] = @ + 1] ELSE heard
  /\ \E v \in IF w = "L" THEN Delays ELSE {CapacityOf(heard'[e][w])} :
       flow' = [flow EXCEPT ![e][w] = v]
  /\ lastSent' = clock
  /\ UNCHANGED <<clock, stage, due, edge, pending, round, gate, attempts, table>>

Lose(e, w) ==
  /\ stage # "done" /\ queued[e][w] > 0
  /\ queued' = [queued EXCEPT ![e][w] = @ - 1]
  /\ lastSent' = clock
  /\ UNCHANGED <<clock, stage, due, edge, pending, round, gate, heard, flow, attempts, table>>

-----------------------------------------------------------------------------
(* WaitDrain: the sender's count, and since when it has not moved.         *)
ChangedAt == IF Held # drainLast THEN clock ELSE drainLastChange
Stalled_BeforeUpdate == clock - drainLastChange >= StallSec
Stalled == clock - ChangedAt >= StallSec

WaitLonger ==
  /\ stage = "drain" /\ due = clock /\ clock < ArmedStop
  /\ Held > 0 /\ ~Stalled
  /\ drainLast' = Held
  /\ drainLastChange' = ChangedAt
  /\ due' = clock + PollSec
  /\ UNCHANGED <<clock, stage, edge, pending, round, medium, attempts, table>>

(* FlushSender empties every queue of the node, whatever is in it.         *)
Flushed_Nothing == queued
Flushed == [queued EXCEPT ![edge] = Nothing]

DrainDone ==
  /\ stage = "drain" /\ due = clock /\ clock < ArmedStop
  /\ Held = 0 \/ Stalled
  /\ drainLast' = Unset
  /\ drainLastChange' = ChangedAt
  /\ StartNextEdge(pending, Flushed)
  /\ UNCHANGED <<clock, round, flow, table>>

-----------------------------------------------------------------------------
(* WarmupRetryPass judges every probed edge by its latest sinks.           *)
Heard(w) == [e \in Edges |-> heard[e][w]]
MedianR == LET some == {e \in Edges : attempts[e] > 0 /\ heard[e]["R"] > 0}
           IN  IF some = {} THEN 0 ELSE Median(Heard("R"), some)

Failing_RateOnly(e) == heard[e]["R"] = 0 \/ heard[e]["R"] * 4 < MedianR
Failing(e) ==
  \/ heard[e]["L"] = 0
  \/ heard[e]["R"] = 0
  \/ heard[e]["R"] * 4 < MedianR

Bad == {e \in Edges : attempts[e] > 0 /\ Failing(e)}

Retry_Unbounded ==
  /\ stage = "retry" /\ clock < ArmedStop
  /\ Bad # {}
  /\ round' = round + 1
  /\ StartNextEdge(Bad, queued)
  /\ UNCHANGED <<clock, gate, flow, table>>
Retry ==
  /\ stage = "retry" /\ clock < ArmedStop
  /\ Bad # {} /\ round < MaxRounds
  /\ round' = round + 1
  /\ StartNextEdge(Bad, queued)
  /\ UNCHANGED <<clock, gate, flow, table>>

(* Nothing failing, or out of rounds: stop half a second later.            *)
Conclude ==
  /\ stage = "retry" /\ clock < ArmedStop
  /\ Bad = {} \/ round >= MaxRounds
  /\ stage' = "stopping" /\ due' = clock + 1
  /\ UNCHANGED <<clock, edge, pending, round, gate, medium, attempts, table>>

-----------------------------------------------------------------------------
(* ExtractLinkTable; the table is corrected as it is read back.            *)
Extracted == [e \in Edges |-> [delay |-> flow[e]["L"], capacity |-> flow[e]["R"]]]

(* The simulator returns, on the Stop of the retry pass or on the armed    *)
(* one, and the table is written.                                          *)
Finish ==
  /\ \/ stage = "stopping" /\ due = clock
     \/ stage # "done" /\ clock = ArmedStop
  /\ stage' = "done"
  /\ table' = MedianCorrectOutliers(Extracted)
  /\ UNCHANGED <<clock, due, edge, pending, round, gate, medium, attempts>>

Advance ==
  /\ stage # "done" /\ due > clock /\ clock < ArmedStop
  /\ clock' = clock + 1
  /\ UNCHANGED <<stage, due, edge, pending, round, gate, medium, attempts, table>>

Next ==
  \/ WindowEnds \/ WaitLonger \/ DrainDone
  \/ Retry \/ Conclude \/ Finish \/ Advance
  \/ \E e \in Edges, w \in Windows : Deliver(e, w) \/ Lose(e, w)

(* The scheduler runs every event that is due; the medium owes nothing.    *)
Spec == Init /\ [][Next]_vars
FairSpec == /\ Spec
            /\ WF_vars(WindowEnds) /\ WF_vars(WaitLonger) /\ WF_vars(DrainDone)
            /\ WF_vars(Retry) /\ WF_vars(Conclude) /\ WF_vars(Finish) /\ WF_vars(Advance)

-----------------------------------------------------------------------------
TypeOK ==
  /\ clock \in 0..ArmedStop
  /\ stage \in Stages
  /\ due \in Nat
  /\ edge \in Edges
  /\ pending \subseteq Edges
  /\ round \in 1..MaxRounds
  /\ drainLast \in Nat \cup {Unset}
  /\ drainLastChange \in Nat
  /\ queued \in [Edges -> [Windows -> Nat]]
  /\ heard \in [Edges -> [Windows -> Nat]]
  /\ attempts \in [Edges -> 0..MaxRounds]
  /\ flow \in [Edges -> [Windows -> Int]]
  /\ lastSent \in Nat

(* One probe is on air at a time: no sender holds a packet of any probe    *)
(* but the current one, which is what makes the reading the link's own.    *)
OneProbeOnAir == \A e \in Edges \ {edge} : HeldFor(e) = 0

(* A sender is flushed with packets left only if none of them has moved    *)
(* for StallSec: the flush never cuts short a backlog that is draining.    *)
FlushSparesMoving ==
  [][stage = "drain" /\ stage' # "drain" /\ stage' # "done" /\ Held > 0
       => clock - lastSent >= StallSec]_vars

(* The simulator returns from the sweep only on the Stop of the retry      *)
(* pass: the safety Stop armed for all rounds at once never cuts a probe   *)
(* or leaves an edge out, whatever the drains and retries take.            *)
SweepNotCut == [][stage' = "done" => stage = "stopping"]_stage

(* An edge whose latest sinks both heard packets in number has a delay and *)
(* a capacity of its own in the statistics, not a leftover of an earlier   *)
(* probe or nothing.                                                       *)
HealthyEdgesAreMeasured ==
  stage = "stopping" =>
    \A e \in Edges \ Bad : /\ flow[e]["L"] > 0
                           /\ flow[e]["R"] = CapacityOf(heard[e]["R"])

(* Every edge gets its turn.                                               *)
EveryEdgeProbed == <>(\A e \in Edges : attempts[e] > 0)
=============================================================================
