------------------------------- MODULE Drain -------------------------------
(***************************************************************************)
(* How a traffic run ends (harness/loss-ledger.cc, armed in main.cc): once *)
(* the sources stop, DrainPoll looks at the packets the mesh still holds   *)
(* and stops the simulator when there are none, when their count no longer *)
(* moves, or at the cap; PrintDrain then says whether the run is usable.   *)
(*                                                                         *)
(* Packets cross a path of Hops nodes, at each a queue disc and a radio    *)
(* queue.  A frame that outlives Lifetime in a radio is dead and counted   *)
(* as dropped, but stays in the queue until something sweeps it: an        *)
(* enqueue, or the drain's own ReapExpired.  That part is ns-3's.          *)
(*                                                                         *)
(* D_Variant is D with a plausible mistake in it, for the runs to find.    *)
(***************************************************************************)
EXTENDS Integers, FiniteSets

CONSTANTS
  Packets,     \* the packets of the run's last moments
  Hops,        \* nodes on their path
  RadioCap,    \* bound: frames a radio queue holds
  Lifetime,    \* dot11MaxTransmitMSDULifetime
  Base,        \* simulator time when the traffic run is set up
  StartSec,    \* the sources stop, and the drain begins, this long after
  PollSec, CapSec, StallSec,
  ReapArms,    \* the values of drainReap looked at
  EarlyExpiries \* frames of other traffic that may have expired before

ASSUME TimeAssumption ==
  /\ Lifetime \in Nat \ {0} /\ Base \in Nat /\ StartSec \in Nat /\ CapSec \in Nat
  /\ PollSec \in Nat \ {0} /\ StallSec \in Nat
ASSUME MeshAssumption ==
  /\ Hops \in Nat \ {0} /\ RadioCap \in Nat \ {0} /\ IsFiniteSet(Packets)
  /\ ReapArms \subseteq BOOLEAN /\ EarlyExpiries \subseteq Nat

VARIABLES
  reap,        \* g_drainReap: the drain sweeps dead frames itself
  clock,
  running,     \* the simulator is inside Run
  stopping,    \* a Stop(0) is queued for this instant
  place,       \* where each packet is
  hop,         \* at which node of the path
  since,       \* when it entered the radio it is in
  expired,     \* g_macDrops[1], frames dropped on their lifetime
  nextPoll,    \* when the next DrainPoll fires
  drainTook,   \* g_drainTook
  lastHeld,    \* g_lastHeld
  flatSince,   \* g_flatSince
  stalled,     \* g_drainStalled
  verdict,     \* which line PrintDrain wrote
  lastLeft     \* history: when a packet last left the mesh

packets == <<place, hop, since>>
poller == <<nextPoll, drainTook, lastHeld, flatSince, stalled>>
vars == <<reap, clock, running, stopping, packets, expired, poller, verdict, lastLeft>>

Unset == -1

(* g_drainStart is the delay handed to Schedule, not the instant it means. *)
DrainStart_Zero == 0
DrainStart == StartSec
SourcesStop == Base + StartSec
ArmedStopAt == Base + StartSec + CapSec
Stall_OnePoll == PollSec
Stall == IF StallSec > PollSec THEN StallSec ELSE PollSec

In(where) == {p \in Packets : place[p] = where}
InRadio(h) == {p \in In("radio") : hop[p] = h}

(* HeldPackets: every queue disc and every radio queue, dead frames too. *)
Held == Cardinality(In("qdisc")) + Cardinality(In("radio"))

Dead(p) == place[p] = "radio" /\ clock - since[p] >= Lifetime

-----------------------------------------------------------------------------
(* ScheduleDrain, the armed Stop and the call of Run. *)
Init ==
  /\ reap \in ReapArms
  /\ clock = Base
  /\ running = TRUE
  /\ stopping = FALSE
  /\ place \in [Packets -> {"source", "qdisc"}]
  /\ hop \in [Packets -> 1..Hops]
  /\ \A p \in In("source") : hop[p] = 1
  /\ since = [p \in Packets |-> Base]
  /\ expired \in EarlyExpiries
  /\ nextPoll = Base + StartSec
  /\ drainTook = Unset
  /\ lastHeld = 0
  /\ flatSince = Unset
  /\ stalled = FALSE
  /\ verdict = "none"
  /\ lastLeft = Base

(* The armed Stop was queued first, so nothing else runs at its instant. *)
Live == running /\ clock < ArmedStopAt

Emit(p) ==
  /\ Live /\ clock < SourcesStop
  /\ place[p] = "source"
  /\ place' = [place EXCEPT ![p] = "qdisc"]
  /\ UNCHANGED <<reap, clock, running, stopping, hop, since, expired, poller, verdict, lastLeft>>

(* A queue disc hands a packet to the radio; the enqueue sweeps the dead.  *)
(* A full radio has stopped the disc behind it.                            *)
EnterRadio(p) ==
  LET swept == {d \in InRadio(hop[p]) : Dead(d)} IN
  /\ Live
  /\ place[p] = "qdisc"
  /\ Cardinality(InRadio(hop[p])) < RadioCap
  /\ place' = [q \in Packets |-> IF q = p THEN "radio"
                                 ELSE IF q \in swept THEN "dropped" ELSE place[q]]
  /\ since' = [since EXCEPT ![p] = clock]
  /\ lastLeft' = IF swept = {} THEN lastLeft ELSE clock
  /\ UNCHANGED <<reap, clock, running, stopping, hop, expired, poller, verdict>>

Relay(p) ==
  /\ Live
  /\ place[p] = "radio" /\ ~Dead(p) /\ hop[p] < Hops
  /\ place' = [place EXCEPT ![p] = "qdisc"]
  /\ hop' = [hop EXCEPT ![p] = @ + 1]
  /\ UNCHANGED <<reap, clock, running, stopping, since, expired, poller, verdict, lastLeft>>

(* Delivered at the last node, or given up at the retry limit anywhere. *)
Leave(p) ==
  /\ Live
  /\ place[p] = "radio" /\ ~Dead(p)
  /\ \/ hop[p] = Hops /\ place' = [place EXCEPT ![p] = "delivered"]
     \/ place' = [place EXCEPT ![p] = "dropped"]
  /\ lastLeft' = clock
  /\ UNCHANGED <<reap, clock, running, stopping, hop, since, expired, poller, verdict>>

(* Time passes between events; frames reaching their lifetime are counted. *)
Advance ==
  /\ Live /\ ~stopping /\ nextPoll # clock
  /\ clock' = clock + 1
  /\ expired' = expired + Cardinality({p \in In("radio") : clock + 1 - since[p] = Lifetime})
  /\ UNCHANGED <<reap, running, stopping, packets, poller, verdict, lastLeft>>

-----------------------------------------------------------------------------
(* One DrainPoll: sweep, count, and stop as empty, stalled or capped, or   *)
(* look again a poll interval later.                                       *)
Swept == IF reap THEN {p \in Packets : Dead(p)} ELSE {}
HeldNow == Held - Cardinality(Swept)
Moved_FirstOnly(held) == flatSince < 0
Moved(held) == held # lastHeld \/ flatSince < 0
Flat == clock - flatSince >= Stall
AtCap == clock - DrainStart >= CapSec

StopAsEmpty_LooksAgain ==
  /\ HeldNow = 0
  /\ nextPoll' = clock + PollSec
  /\ UNCHANGED <<drainTook, stopping, lastHeld, flatSince, stalled>>
StopAsEmpty ==
  /\ HeldNow = 0
  /\ drainTook' = clock - DrainStart
  /\ stopping' = TRUE
  /\ nextPoll' = Unset
  /\ UNCHANGED <<lastHeld, flatSince, stalled>>

StopAsStalled ==
  /\ HeldNow # 0 /\ ~Moved(HeldNow) /\ Flat
  /\ stalled' = TRUE
  /\ drainTook' = clock - DrainStart
  /\ stopping' = TRUE
  /\ nextPoll' = Unset
  /\ UNCHANGED <<lastHeld, flatSince>>

KeepLooking ==
  /\ HeldNow # 0 /\ (Moved(HeldNow) \/ ~Flat)
  /\ lastHeld' = HeldNow
  /\ flatSince' = IF Moved(HeldNow) THEN clock ELSE flatSince
  /\ IF AtCap THEN stopping' = TRUE /\ nextPoll' = Unset
              ELSE nextPoll' = clock + PollSec /\ UNCHANGED stopping
  /\ UNCHANGED <<drainTook, stalled>>

DrainPoll_NoDelay ==
  /\ Live /\ nextPoll = clock
  /\ HeldNow # 0
  /\ UNCHANGED <<reap, clock, running, stopping, packets, expired, nextPoll, verdict, lastLeft>>
  /\ lastHeld' = HeldNow
  /\ UNCHANGED <<drainTook, flatSince, stalled>>
DrainPoll ==
  /\ Live /\ nextPoll = clock
  /\ place' = [p \in Packets |-> IF p \in Swept THEN "dropped" ELSE place[p]]
  /\ lastLeft' = IF Swept = {} THEN lastLeft ELSE clock
  /\ StopAsEmpty \/ StopAsStalled \/ KeepLooking
  /\ UNCHANGED <<reap, clock, running, hop, since, expired, verdict>>

(* The simulator leaves Run: on a poll's Stop(0), after whatever else was  *)
(* due at that instant, or on the Stop armed at the cap.                   *)
Halt ==
  /\ running
  /\ stopping \/ clock = ArmedStopAt
  /\ running' = FALSE
  /\ UNCHANGED <<reap, clock, stopping, packets, expired, poller, verdict, lastLeft>>

Judgement ==
  CASE Held = 0                                             -> "empty"
    [] Held > 0 /\ stalled /\ expired > 0 /\ In("qdisc") = {} -> "corpses"
    [] Held > 0 /\ stalled /\ In("qdisc") # {}               -> "stuck in queue disc"
    [] Held > 0 /\ stalled /\ expired = 0 /\ In("qdisc") = {} -> "unexplained"
    [] OTHER                                                -> "cut at cap"

PrintDrain ==
  /\ ~running /\ verdict = "none"
  /\ verdict' = Judgement
  /\ UNCHANGED <<reap, clock, running, stopping, packets, expired, poller, lastLeft>>

Next ==
  \/ \E p \in Packets : Emit(p) \/ EnterRadio(p) \/ Relay(p) \/ Leave(p)
  \/ Advance \/ DrainPoll \/ Halt \/ PrintDrain

Spec == Init /\ [][Next]_vars
FairSpec == Spec /\ WF_vars(Advance) /\ WF_vars(DrainPoll)
                 /\ WF_vars(Halt) /\ WF_vars(PrintDrain)

-----------------------------------------------------------------------------
(* A stall is declared only after Stall without a single departure from    *)
(* the mesh, though the poll compares two counts and follows no packet.    *)
StallMeansNoDeparture == [][stalled' # stalled => clock - lastLeft >= Stall]_vars

(* What the corpse verdict excuses is dead, or reached its radio after the *)
(* poller had begun to see a count that did not move.                      *)
CorpsesDeadOrRecent ==
  verdict = "corpses" /\ Lifetime <= StallSec =>
    \A p \in In("radio") : Dead(p) \/ since[p] > flatSince

(* "Still draining at the cap" is said at the cap and never earlier.       *)
CapVerdictAtCap == verdict = "cut at cap" => clock >= ArmedStopAt

(* The run does not outlive the drain: a poll interval after the last      *)
(* packet left, the simulator has stopped.                                 *)
StopsOnceEmpty ==
  running /\ Held = 0 => clock <= PollSec + (IF lastLeft > SourcesStop THEN lastLeft
                                                                     ELSE SourcesStop)

(* Whatever the queues do, the run ends and is judged.                     *)
EndsJudged == <>(verdict # "none")

(* "These are unreaped corpses ... and the run is VALID" (PrintDrain).     *)
CorpsesAreDead == verdict = "corpses" => \A p \in In("radio") : Dead(p)
=============================================================================
