----------------------------- MODULE HarnessRun -----------------------------
(***************************************************************************)
(* One run of the harness (harness/main.cc, run-mode.cc, applications.cc): *)
(* resolve the mode, sweep the links or reuse a table, choose the routes,  *)
(* run the slice traffic, drain, report.  In-process warm-up and traffic   *)
(* are two calls of Simulator::Run over ONE event queue and ONE clock, and *)
(* what the first leaves in the queue is still there in the second.        *)
(*                                                                         *)
(* Times are in half seconds, clock is Simulator::Now.  Warm-up and drain  *)
(* have modules of their own; here the sweep is the time it takes and the  *)
(* ports it uses, and a poll of the drain that finds packets may give up.  *)
(* The packets stand for those of every slice.                             *)
(***************************************************************************)
EXTENDS Ranking, Sequences

CONSTANTS
  Runs,        \* command lines looked at
  Packets,     \* bound: packets the sources send
  Tick,        \* bound: grain at which sends and arrivals are looked at
  SweepTimes,  \* how long a sweep may take
  Retried,     \* how many edges it may measure again, over all its rounds
  MaxRounds, WarmupStart, TrafficSec, DrainSec, PollSec,
  Unreported,  \* stands for no report
  MaxPerHopDelay  \* 0 derives it from the run's span

ASSUME TimesAssumption ==
  /\ Tick \in Nat \ {0} /\ PollSec \in Nat \ {0} /\ TrafficSec \in Nat \ {0}
  /\ DrainSec \in Nat /\ WarmupStart \in Nat /\ MaxPerHopDelay \in Nat
  /\ MaxRounds \in Nat \ {0} /\ SweepTimes \subseteq Nat /\ Retried \subseteq Nat

ASSUME PacketsAssumption == IsFiniteSet(Packets)

ASSUME RunsAssumption ==
  \A a \in Runs : a.measure \in Seq(Nat) /\ a.gridWidth \in Nat /\ a.sampleEdges \in Nat

VARIABLES
  args,        \* the command line
  phase,       \* where main is
  clock,
  queue,       \* events of the simulator, by time and then by age
  stop,        \* m_stop: Run returns before the next event
  stoppedBy,   \* history: who scheduled the Stop that ended the last Run
  probed,      \* ports the sweep used: nextPort - 5000
  sourcing,    \* the sources are between start and stop
  place,       \* where each packet is
  sentAt,      \* when, for the packets FlowMonitor still follows
  rx, lost,    \* packets FlowMonitor counts received, counts lost
  watching,    \* g_settleWatching
  windows,     \* the measured windows, longest first
  report       \* what PrintSliceResults and PrintDrain wrote

traffic == <<sourcing, place, sentAt, rx, lost>>
measures == <<watching, windows>>
vars == <<args, phase, clock, queue, stop, stoppedBy, probed, traffic, measures, report>>

One == 2
Half == 1
Slices == 1..3
FirstPort == <<10000, 20000, 30000>>
FirstProbePort == 5000

Minimum(a, b) == IF a < b THEN a ELSE b
At(places) == {p \in Packets : place[p] \in places}
InFlight == At({"air"})
Sent == Packets \ At({"source"})
(* FlowMonitor still follows what it saw sent and neither received nor lost. *)
Tracked == Sent \ (rx \cup lost)

-----------------------------------------------------------------------------
(* The command line. *)

(* ResolveRunMode: refuse the clashes, or return the flags it leaves. *)
ResolveRunMode(a) ==
  LET warmup == a.warmup \/ a.gaRoute
      sliceTest == a.sliceTest \/ a.olsr IN
  [ok |-> ~(a.olsr /\ (a.gaRoute \/ a.warmup)) /\ (warmup \/ sliceTest),
   warmup |-> warmup, sliceTest |-> sliceTest]

Nodes == args.gridWidth * args.gridWidth

(* A quarter of the grid per slice, made even, unless counts are given. *)
Members ==
  LET quarter == Nodes \div 4 IN
  IF args.members = <<0, 0, 0>> THEN [i \in Slices |-> quarter - (quarter % 2)] ELSE args.members

MembersFit ==
  /\ \/ args.members # <<0, 0, 0>>
     \/ Members # <<0, 0, 0>>
  /\ Members[1] + Members[2] + Members[3] <= Nodes
  /\ \A i \in Slices : Members[i] % 2 = 0

(* The classic contention test has one pair per slice. *)
Pairs == IF args.gaRoute THEN [i \in Slices |-> Members[i] \div 2] ELSE [i \in Slices |-> 1]

(* --measureSec: the lengths that fit the traffic, longest first. *)
WinLens ==
  LET fits == {i \in DOMAIN args.measure : 0 < args.measure[i] /\ args.measure[i] <= TrafficSec}
      order == StableOrder([i \in fits |-> -args.measure[i]]) IN
  [k \in DOMAIN order |-> args.measure[order[k]]]

LossWindow_NoDrain == IF MaxPerHopDelay > 0 THEN MaxPerHopDelay ELSE One + TrafficSec
LossWindow == IF MaxPerHopDelay > 0 THEN MaxPerHopDelay ELSE One + TrafficSec + DrainSec

(* The grid's edges are its horizontal and vertical neighbours. *)
BuildEdgeListGeometric == 2 * args.gridWidth * (args.gridWidth - 1)
SweptEdges ==
  IF args.sampleEdges > 0 /\ args.sampleEdges < BuildEdgeListGeometric
    THEN args.sampleEdges ELSE BuildEdgeListGeometric

-----------------------------------------------------------------------------
(* The simulator: events in time order, oldest first among equals. *)
Event(at, what, arg) == [at |-> at, what |-> what, arg |-> arg]
ScheduleAll(q, events) ==
  LET all == q \o events
      order == StableOrder([i \in DOMAIN all |-> all[i].at]) IN
  [k \in DOMAIN order |-> all[order[k]]]

Running == phase \in {"sweeping", "testing", "traffic"}
Due == Running /\ ~stop /\ queue # <<>> /\ Head(queue).at = clock

(* Take the event at the head of the queue and queue the events it causes. *)
Fire(what, causes) ==
  /\ Due /\ Head(queue).what = what
  /\ queue' = ScheduleAll(Tail(queue), causes)
  /\ UNCHANGED <<args, phase, clock>>

(* Time passes.  FlowMonitor gives up on what it has not seen for too long. *)
Advance ==
  /\ Running /\ ~stop /\ queue # <<>> /\ Head(queue).at > clock
  /\ clock' = Minimum(clock + Tick, Head(queue).at)
  /\ lost' = lost \cup {p \in Tracked : clock' - sentAt[p] >= LossWindow}
  /\ UNCHANGED <<args, phase, queue, stop, stoppedBy, probed, sourcing, place, sentAt, rx,
                 measures, report>>

-----------------------------------------------------------------------------
Init ==
  /\ args \in Runs
  /\ phase = "args"
  /\ clock = 0
  /\ queue = <<>>
  /\ stop = FALSE
  /\ stoppedBy = "nobody"
  /\ probed = 0
  /\ sourcing = FALSE
  /\ place = [p \in Packets |-> "source"]
  /\ sentAt = [p \in Packets |-> 0]
  /\ rx = {} /\ lost = {}
  /\ watching = FALSE
  /\ windows = <<>>
  /\ report = Unreported

ScheduleWarmup == <<Event(clock + WarmupStart, "begin", "none")>>

(* The slice test: no warm-up, no windows, and a Stop 2 s after its sources. *)
SliceTestEvents ==
  LET off == WarmupStart + TrafficSec IN
  <<Event(off + 2 * One, "stop", "armed"), Event(WarmupStart, "on", "none"),
    Event(off, "off", "none")>>

(* main up to its mode: refuse, sweep, go straight to routing on a given   *)
(* table, or set the slice test up.  With both asked for, it does the test *)
(* and no sweep.                                                           *)
Start ==
  LET mode == ResolveRunMode(args)
      Enter(next, events) == phase' = next /\ queue' = ScheduleAll(queue, events) IN
  /\ phase = "args"
  /\ IF ~mode.ok \/ (args.gaRoute /\ ~MembersFit) THEN Enter("refused", <<>>)
     ELSE IF args.gaRoute /\ args.linkTable THEN Enter("routing", <<>>)
     ELSE IF mode.sliceTest /\ ~args.gaRoute THEN Enter("testing", SliceTestEvents)
     ELSE Enter("sweeping", ScheduleWarmup)
  /\ UNCHANGED <<args, clock, stop, stoppedBy, probed, traffic, measures, report>>

(* Simulator::Stop sets the flag Run looks at before its next event. *)
StopFires ==
  /\ Fire("stop", <<>>)
  /\ stop' = TRUE
  /\ stoppedBy' = Head(queue).arg
  /\ UNCHANGED <<probed, traffic, measures, report>>

(* Run returns; the events after the Stop stay queued. *)
Return ==
  /\ Running /\ (stop \/ queue = <<>>)
  /\ phase' = IF phase # "sweeping" THEN "reports"
              ELSE IF args.gaRoute THEN "routing" ELSE "written"
  /\ stop' = FALSE
  /\ UNCHANGED <<args, clock, queue, stoppedBy, probed, traffic, measures, report>>

-----------------------------------------------------------------------------
(* The sweep.  BeginWarmup arms a Stop far out, WarmupRetryPass the real   *)
(* one; the probes of every round take fresh ports.                        *)
SafetyStop == SweptEdges * 10 * One * (MaxRounds + 1) + 2 * One

BeginWarmup ==
  /\ \E took \in SweepTimes, again \in (IF MaxRounds > 1 THEN Retried ELSE {0}) :
       /\ again <= SweptEdges * (MaxRounds - 1)
       /\ Fire("begin", <<Event(clock + SafetyStop, "stop", "safety"),
                          Event(clock + took, "swept", "none")>>)
       /\ probed' = 2 * (SweptEdges + again)
  /\ UNCHANGED <<stop, stoppedBy, traffic, measures, report>>

SweepEnds ==
  /\ Fire("swept", <<Event(clock + Half, "stop", "sweep")>>)
  /\ UNCHANGED <<stop, stoppedBy, probed, traffic, measures, report>>

-----------------------------------------------------------------------------
(* Route and set the traffic up, all times counted from now.  NSGA-II may  *)
(* return an empty front, and then nothing is run.                         *)
SourcesStart == clock + One
SourcesStop == clock + One + TrafficSec
ArmedStop_TrafficOnly == clock + TrafficSec
ArmedStop == clock + One + TrafficSec + DrainSec

OpenEvents == [w \in DOMAIN WinLens |-> Event(SourcesStop - WinLens[w], "open", w)]

(* main's own events first; applications queue theirs as Run initialises them. *)
TrafficEvents ==
  <<Event(SourcesStart, "settle", "none")>> \o OpenEvents \o
  <<Event(SourcesStop, "close", "none"), Event(SourcesStop, "poll", "none"),
    Event(ArmedStop, "stop", "armed"),
    Event(SourcesStart, "on", "none"), Event(SourcesStop, "off", "none")>>

Unopened == [opened |-> -1, closed |-> -1, tx |-> 0, rx |-> 0, heldOpen |-> 0, heldClose |-> 0]

RouteAndSetUp ==
  /\ phase = "routing"
  /\ IF WinLens = <<>>
       THEN phase' = "aborted" /\ UNCHANGED <<queue, measures>>
       ELSE /\ phase' = "traffic"
            /\ queue' = ScheduleAll(queue, TrafficEvents)
            /\ watching' = TRUE
            /\ windows' = [w \in DOMAIN WinLens |-> Unopened]
  /\ UNCHANGED <<args, clock, stop, stoppedBy, probed, traffic, report>>

EmptyFront ==
  /\ phase = "routing" /\ args.router = "nsga"
  /\ phase' = "written"
  /\ UNCHANGED <<args, clock, queue, stop, stoppedBy, probed, traffic, measures, report>>

SourcesSwitch ==
  /\ \/ Fire("on", <<>>) /\ sourcing' = TRUE
     \/ Fire("off", <<>>) /\ sourcing' = FALSE
  /\ UNCHANGED <<stop, stoppedBy, probed, place, sentAt, rx, lost, measures, report>>

SettleDelay_Zero == 0
SettleDelay == 1
SettlePoll ==
  /\ Fire("settle", IF watching THEN <<Event(clock + SettleDelay, "settle", "none")>> ELSE <<>>)
  /\ UNCHANGED <<stop, stoppedBy, probed, traffic, measures, report>>

(* The counters as the window opens; the last one to open ends the watch. *)
Opened_TxOnly(w) ==
  [windows[w] EXCEPT !.opened = clock, !.tx = Cardinality(Sent), !.heldOpen = Cardinality(InFlight)]
Opened(w) ==
  [windows[w] EXCEPT !.opened = clock, !.tx = Cardinality(Sent), !.rx = Cardinality(rx),
                     !.heldOpen = Cardinality(InFlight)]

OpenFlowWindow ==
  /\ Fire("open", <<>>)
  /\ LET w == Head(queue).arg IN
       /\ windows' = [windows EXCEPT ![w] = Opened(w)]
       /\ watching' = (watching /\ w # Len(windows))
  /\ UNCHANGED <<stop, stoppedBy, probed, traffic, report>>

CloseFlowWindows ==
  /\ Fire("close", <<>>)
  /\ windows' = [w \in DOMAIN windows |->
       [windows[w] EXCEPT !.closed = clock, !.heldClose = Cardinality(InFlight)]]
  /\ UNCHANGED <<stop, stoppedBy, probed, traffic, watching, report>>

(* DrainPoll: with nothing held, or if it finds its packets stalled or the *)
(* cap reached, stop; else look again.                                     *)
DrainPoll ==
  /\ \/ Fire("poll", <<Event(clock, "stop", "drain")>>)
     \/ InFlight # {} /\ Fire("poll", <<Event(clock + PollSec, "poll", "none")>>)
  /\ UNCHANGED <<stop, stoppedBy, probed, traffic, measures, report>>

-----------------------------------------------------------------------------
(* Packets, at any instant of the run: sent, delivered or destroyed.  What *)
(* FlowMonitor has given up on it ignores when it arrives after all; a     *)
(* queue disc tells it what it drops, a radio does not.                    *)
Emit(p) ==
  /\ Running /\ ~stop /\ sourcing /\ ~Due
  /\ place[p] = "source"
  /\ place' = [place EXCEPT ![p] = "air"]
  /\ sentAt' = [sentAt EXCEPT ![p] = clock]
  /\ UNCHANGED <<args, phase, clock, queue, stop, stoppedBy, probed, sourcing, rx, lost,
                 measures, report>>

Deliver(p) ==
  /\ Running /\ ~stop
  /\ place[p] = "air"
  /\ place' = [place EXCEPT ![p] = "got"]
  /\ rx' = rx \cup ({p} \ lost)
  /\ sentAt' = [sentAt EXCEPT ![p] = 0]
  /\ UNCHANGED <<args, phase, clock, queue, stop, stoppedBy, probed, sourcing, lost,
                 measures, report>>

Lose(p) ==
  /\ Running /\ ~stop
  /\ place[p] = "air"
  /\ place' = [place EXCEPT ![p] = "dropped"]
  /\ \/ lost' = lost \cup {p} /\ sentAt' = [sentAt EXCEPT ![p] = 0]
     \/ UNCHANGED <<lost, sentAt>>
  /\ UNCHANGED <<args, phase, clock, queue, stop, stoppedBy, probed, sourcing, rx,
                 measures, report>>

-----------------------------------------------------------------------------
(* PrintSliceResults.  What is still followed is lost; windowed counts are *)
(* those since the window opened, loss is the whole run's.  A flow belongs *)
(* to the slice whose port range its destination port falls in, and so do  *)
(* its packets: a probe in a slice's range is counted as sent, and as lost *)
(* unless heard (a probe's flow stands for one packet).  A window counts   *)
(* no probe: the sweep is over when it opens.                              *)
ProbesAmong(slice) ==
  {k \in 0..(probed - 1) :
     (FirstProbePort + k) % 65536 \in FirstPort[slice]..(FirstPort[slice] + 2 * Pairs[slice] - 1)}

Intruders == UNION {ProbesAmong(i) : i \in Slices}

FlowsCounted(slice) ==
  (IF args.bidir THEN 2 ELSE 1) * Pairs[slice] + Cardinality(ProbesAmong(slice))

Windowed(w) ==
  [tx |-> Cardinality(Sent) - windows[w].tx, rx |-> Cardinality(rx) - windows[w].rx]

Settled_AsFound == lost
Settled == lost \cup Tracked

PrintSliceResults ==
  /\ phase = "reports"
  /\ phase' = "written"
  /\ lost' = Settled
  /\ \E unheard \in 0..Cardinality(Intruders) :
       report' = [tx |-> Cardinality(Sent) + Cardinality(Intruders),
                  lost |-> Cardinality(lost') + unheard,
                  windows |-> [w \in DOMAIN windows |-> Windowed(w)],
                  flows |-> [i \in Slices |-> FlowsCounted(i)]]
  /\ UNCHANGED <<args, clock, queue, stop, stoppedBy, probed, sourcing, place, sentAt, rx,
                 measures>>

Simulator ==
  \/ BeginWarmup \/ SweepEnds
  \/ SourcesSwitch \/ SettlePoll \/ OpenFlowWindow \/ CloseFlowWindows
  \/ DrainPoll \/ StopFires \/ Advance \/ Return
Main == Start \/ RouteAndSetUp \/ EmptyFront \/ PrintSliceResults
Medium == \E p \in Packets : Emit(p) \/ Deliver(p) \/ Lose(p)

Over == phase \in {"refused", "aborted", "written"}
Next == Simulator \/ Main \/ Medium \/ (Over /\ UNCHANGED vars)

(* main and the event loop go on while they can; sources and medium need not. *)
Spec == Init /\ [][Next]_vars /\ WF_vars(Simulator) /\ WF_vars(Main)

-----------------------------------------------------------------------------
(* The run keeps an experiment's promise: whatever the windows, the drain  *)
(* and the loss window do, and as long as no probe has a slice's port, the *)
(* report counts every packet sent and calls lost those that did not       *)
(* arrive, no late one among them.                                         *)
Counted == IF report = Unreported THEN report ELSE [tx |-> report.tx, lost |-> report.lost]
E == INSTANCE Experiment WITH sent <- Sent, received <- At({"got"}), outcome <- Counted
Contract == E!Spec

(* main.cc:669-707.  A window that is reported is the one asked for: open  *)
(* its own length before the sources stopped, closed as they stopped, even *)
(* if the drain or a Stop of the same instant ends the run.                *)
EveryWindowReported ==
  phase = "written" /\ report # Unreported /\ args.gaRoute =>
    /\ Len(windows) = Len(WinLens)
    /\ \A w, v \in DOMAIN windows :
         /\ windows[w].closed - windows[w].opened = WinLens[w]
         /\ windows[w].closed = windows[v].closed

(* applications.cc:216-227.  Received counts are read after the drain and  *)
(* may hold packets sent before the window opened, but no more of them     *)
(* than were in flight at that instant.                                    *)
RxBoundedByInFlight ==
  report # Unreported =>
    \A w \in DOMAIN windows :
      report.windows[w].rx <= report.windows[w].tx + windows[w].heldOpen

(* applications.cc:251-254.  The remainder called "unresolved by           *)
(* FlowMonitor (not loss)" is never printed: what a window sent is         *)
(* received by the end or lost, though its counts start at the window and  *)
(* loss is the whole run's.                                                *)
NothingUnresolved ==
  report # Unreported =>
    \A w \in DOMAIN windows : report.windows[w].tx <= report.windows[w].rx + report.lost

(* main.cc:709-712.  A traffic run that is set up is reported, whatever    *)
(* the packets do: no poll keeps the simulator from its Stop.              *)
TrafficReported == phase = "traffic" ~> report # Unreported

(* warmup.cc:342-344.  "Safety bound only: the sweep now ends when the     *)
(* queues say so": the traffic run is ended by its own drain or its own    *)
(* cap, never by what the sweep armed.                                     *)
EndedByItsOwnStop == report # Unreported => stoppedBy \in {"drain", "armed"}

(* main.cc:423, applications.h:60.  Results group by port range: what is   *)
(* counted for a slice is its own flows.                                   *)
CountsOnlySlices ==
  report # Unreported =>
    \A i \in Slices : report.flows[i] = (IF args.bidir THEN 2 ELSE 1) * Pairs[i]
=============================================================================
