# mesh-slicing: TLA+ models, checks and proofs

The program slices a Wi-Fi mesh into three kinds of traffic (eMBB, URLLC, mMTC).
One run of `src/harness/main.cc` measures every link by probing it, searches
slice trees with a genetic algorithm, installs them as static routes, caps each
slice at each node with token buckets that a control loop retunes, sends
traffic, waits for the mesh to drain, and reports what was lost and why. All of
it runs inside the ns-3 simulator, which is one thread executing timed events in
order: the hard part is not shared memory but *time and order*: what is
scheduled when, which state survives from one event or phase to the next, and
what a number read at one event still means at a later one.

This directory keeps the models beside that code. A module is translated from
the source it names, not from the documents; where the two disagree the
disagreement is stated as a property that a run shows violated.

## 1. The system

| part | source | state it keeps | operations | talks to |
|---|---|---|---|---|
| Rate allocator | `ofdma/allocator.cc` | none | `Allocate`: pass 1, optional second round | called by the controller |
| Admission controller | `harness/controller.cc` | admit budget per node, last backlog, last byte counters, `m_stop` | `Start`, `Tick` (re-armed until `m_stop`) | reads radios and bucket counters, writes bucket rates |
| Slice queue discs | `harness/traffic-control.cc` | per node a priority root with three token buckets; the smallest rate | install, `SetSliceRatesOn`, offered/backlog/drop counters | fed by IP, drained into the radio |
| Drain and loss ledger | `harness/loss-ledger.cc` | drop counters, drain start and end, last held count, flat-since time, stalled flag | `ScheduleDrain`, `DrainPoll`, `ReapExpired`, `HeldPackets`, `PrintDrain` | stops the simulator |
| Warm-up sweep | `harness/warmup.cc` | edge cursor, round, drain gate, sinks, R windows | `BeginWarmup`, `ScheduleEdgeWindows`, `WaitDrain`, `FlushSender`, `StartNextEdge`, `WarmupRetryPass` | its own event chain; stops the simulator |
| Link table clean-up | `harness/warmup.cc` | the table | `ExtractLinkTable`, `MedianCorrectOutliers` | feeds the route search |
| Slice traffic and flow windows | `harness/applications.cc` | windows of counters per slice | install, open/close window, report | reads FlowMonitor after the drain |
| Run orchestration | `harness/main.cc`, `run-mode.cc` | the phase | warm-up `Run`, route search, traffic `Run` | everything |
| Graph, routing | `nsga/graph.cc`, `nsga/routing.cc`, `nsga/fitness.cc` | adjacency, weights, host routes | Dijkstra, tree decoding, paths, interference | reads the link table, writes the forwarding tables |
| NSGA-II and scalar GA | `nsga/nsga2.cc`, `nsga/seng.cc` | populations | dominance, sorting, crowding, crossover, mutation, elitism | calls fitness |
| Topology, internet stack | `harness/topology.cc`, `harness/internet.cc` | ns-3 objects | set-up | ns-3 |
| Gates, archived attempts, scripts | `gates/`, `fail/`, `results/` | - | - | not part of the program |

What is hard here, and what correct means for each part:

- **Controller and buckets.** The three shares of a node must fit the budget in
  force although budget, demand and rates all change at each tick; URLLC's
  reservation needs a ceiling and eMBB's floor has to be honoured; the second
  allocation round must not undo the first; a rate must never strand a backlog
  that a token bucket already holds; and the loop, which is started with the
  clock already at the end of the warm-up (about 190 s), must still run for the
  whole traffic phase.
- **Drain.** The end of a run is a condition, not a time. Three stops race (on
  empty, on a stall, at the cap); a stall is inferred from equal counts at two
  polls, while frames enter, leave and die between them; and the verdict decides
  whether a run may be used.
- **Warm-up sweep.** Edges are probed one at a time, because the backlog of one
  probe falsifies the next reading. The next edge waits for a condition that
  may never come true, failing edges are retried, and one safety `Stop` is armed
  before anybody knows how long that takes.
- **Queue discs.** A packet can leave a bucket in two ways, by the priority root
  or by the bucket's own timer, around the root; the radio wakes only the root.
  Both ways must respect the limit and the radio, and between them nothing may
  stay behind.
- **Link table.** A hole or an outlier becomes an edge weight of the shortest
  path search, which a negative weight never lets go of.
- **Orchestration.** Two `Run` calls share one event queue and one clock: what
  the first phase left queued runs in the second, and events of the same instant
  run in the order in which they were scheduled.
- **Flow windows.** A window counts sends and receives at different instants,
  and what FlowMonitor gave up on it ignores when it arrives after all.
- **Routing.** Host routes carry no slice: the trees of three slices share the
  nodes' tables, and a packet must still cross the links its pair was scored on.
- **Selection.** Dominance, truncation, crossover and the pick at the end: no
  generation may lose ground, and nothing may depend on the unit of an objective.

## 2. The modules

| module | models | kind |
|---|---|---|
| `Allocator` | `Allocate`, the caps of one node | operators |
| `SliceController` | `SliceController::Start` / `Tick` with every node's buckets and radio | state machine over `Allocator` |
| `SliceController_proofs` | what `Allocate` returns for all inputs, and the loop's invariants for all constants | proofs |
| `Drain` | `ScheduleDrain`, `DrainPoll`, `ReapExpired`, `PrintDrain` with the packets of the mesh | state machine |
| `Drain_proofs` | the drain's invariants and its stall rule, for all constants | proofs |
| `LinkTable` | `MedianCorrectOutliers` | operators |
| `WarmupSweep` | the whole probe/drain/retry chain, ending in the table of `LinkTable` | state machine over `LinkTable` |
| `WarmupSweep_proofs` | the sweep's invariants and its flush rule, for all constants | proofs |
| `Mesh` | `graph.cc`: graphs from grids and tables, Dijkstra with its queue, nearest member, interference | operators |
| `SliceTrees` | `fitness.cc`, `routing.cc`: max-min shares, tree decoding, pair paths, `Evaluate`, the scalar cost, host routes | operators over `Mesh` |
| `Routes` | from the measured table to the packet that follows a route | state machine over `LinkTable` and `SliceTrees` |
| `Routes_proofs` | the mesh search, the trees, the shares and the routes, for every link table, number of nodes and draw of members | proofs |
| `Selection` | `nsga2.cc`, `seng.cc`: generations of both optimisers and what they pick | state machine over `Ranking` |
| `Selection_proofs` | every property of the selection, for all populations, landscapes and draws | proofs |
| `SliceQdisc` | one radio's priority root, token buckets and timers, and the radio | state machine |
| `SliceQdisc_proofs` | the disc's invariants, for all kinds, limits, depths and radios | proofs |
| `Experiment` | what a run promises: send, then report once, and the report tells sent from lost | abstract specification |
| `Ranking` | a stable sort, as the order it puts indices in | operators |
| `RankingLemmas` | that the order lists every index once and by key; functions that are computed step by step | proofs |
| `HarnessRun` | `main.cc`, `run-mode.cc`, `applications.cc`: mode, both `Run` calls, windows, drain, report | state machine, implements `Experiment` |
| `HarnessRun_proofs` | the event queue, what a flow window counts, that the windows asked for are reported, and that a run implements `Experiment` | proofs |
| `MC*` | the small instances | model checking |

In every module an operator named `D_Variant`, next to `D`, is `D` with a
plausible mistake (a dropped guard, a missing reset, an absolute time for a
relative one). It is never used by the specification; it is there to show that
each property depends on the code being as it is.

### How state and actions correspond to the code

`Allocator` follows `Allocate` line by line: `H`, `MH`, `FloorFor` are the clamps
at its head (its `throw` for a headroom under one is `HeadroomAssumption`),
`UrllcShare`, `MmtcShare`, `EmbbShare` are `su`, `sm`, `se`, and `Redistribute`
is the second round. The code computes in doubles, the model in whole units
rounded down; no property is about the rounding.

`SliceController` keeps `m_admitBudget`, `m_lastBacklog`, `m_lastBytes` and the
rates in force, per node, and adds what the harness acts on: the packets each
bucket holds, the tokens left in the period and the radio queue. `Tick` is the
whole handler (three-state budget rule, clamp, demand as the larger of arrivals
and backlog, allocation or fixed ratios, the minimum rate, re-arming). The
configuration `m_cfg` is chosen at the start: one pass, two passes, or the
fixed-ratio comparator. `demand` is recorded so that properties can relate it to
the limits. `Arrive`, `Release`, `Transmit` and the token refill are ns-3's, as
the harness relies on them: a bucket counts a packet on arrival and keeps it if
it has room, hands it down when it has tokens and the radio takes packets (in no
assumed order: a token-delayed bucket sends past its priority root), or drops it;
tokens for a period accrue at its end.

`Drain` follows packets over a path of nodes, each a queue disc and a radio.
`DrainPoll` is the whole poll: sweep (if `g_drainReap`), count, then one of
`StopAsEmpty`, `StopAsStalled`, `KeepLooking` (which includes the stop at the
cap). `Halt` is the simulator leaving `Run`, either on the `Stop(0)` of a poll
or on the `Stop` armed in `main.cc`. `Judgement` is the decision of
`PrintDrain`. A frame that outlives its lifetime is dead and counted, but stays
in the radio until an enqueue or the drain's own sweep removes it. Two history
variables do not exist in the code: `lastLeft` (when a packet last left the
mesh) and `verdict` (the line printed).

`WarmupSweep` has a `stage` for what the chain of callbacks is waiting for and
`due` for when it fires. `WindowEnds` lays out the windows of
`ScheduleEdgeWindows`; `WaitLonger` and `DrainDone` are the two exits of
`WaitDrain`, the second with `FlushSender` and `StartNextEdge`; `Retry` and
`Conclude` are the two exits of `WarmupRetryPass`; `Finish` is `Run` returning
and the table being extracted and corrected. `Deliver` and `Lose` are the
medium. `lastSent` is a history variable.

`Mesh` keeps Dijkstra's priority queue with its stale entries, because the
question is what the queue does with the -1 of a link nobody measured: the
search is a function from turns of the loop to its state, and `SearchEnds` says
that enough turns for positive weights were enough. `SliceTrees` follows
`DecodeSlice`, `TreePath`, `MaxMin`, `Evaluate`, `SengCost` and `BuildRoutes`.
`Routes` is the order in which the harness uses them: `ReadTable` (correct, then
read back), `Score`, `Rescore` (the scalar optimiser's winner is evaluated a
second time), `Install`, and then `Send` and `Forward`, where a node with two
host routes to one destination may take either.

`Selection` keeps one population and its children. `Breed` draws all of a
generation's children at once (every parent a tournament can return, every
cut and swap of the instance), `SelectNsga` and `SelectSeng` are the rest of a
turn of the loop, `FinishNsga` and `FinishSeng` the choice of what is installed.
Scores come from a *landscape*, a function from chromosomes to what `Evaluate`
gives; one of the landscapes is `SliceTrees` on a real grid.

`SliceQdisc` has one action per call that reaches the disc: `Enqueue` (classify,
count, queue or drop, run the root), `Transmit` (the radio frees a place and, if
it had stopped the disc, wakes the root), `TimerFires` (a bucket runs by itself,
through the callback and device the install gave it), `SetSliceRatesOn`,
`Discard` (the AQM) and `Tick`. A run of a disc goes on until the radio is full
or nothing may go, so the disc is one record and a step maps records to
records: `RunRoot` takes as many turns as packets fit in the radio, since every
turn but the last one that changes anything fills a place. It checks what `SliceController` assumes of the buckets; there a bucket
sends in any order, here it does so by either of its two ways.

`HarnessRun` models ns-3's scheduler: a queue of events by time and then by age,
and a stop flag that `Run` looks at before its next event. `Start` is `main` up
to its mode; `BeginWarmup` and `SweepEnds` are the sweep reduced to the time it
takes, the ports it uses and its two Stops (the sweep itself is `WarmupSweep`);
`RouteAndSetUp` is everything `main` schedules between the two `Run` calls, in
its order; then one action per event (`SourcesSwitch`, `SettlePoll`,
`OpenFlowWindow`, `CloseFlowWindows`, `DrainPoll`, `StopFires`), `Return` and
`PrintSliceResults`, which settles FlowMonitor's accounts and counts by port. The
slices' own port ranges are taken not to meet each other. The packets are sent, delivered or destroyed by the medium
at any instant, with or without FlowMonitor being told; `Advance` is where
FlowMonitor gives up on the ones it has not seen for the loss window.
`stoppedBy` is a history variable.

## 3. The runs

All instances were chosen so that the interesting branch is taken: each
property has a mutant of a mapped definition that breaks it under the same
configuration.

| run | instance | what it shows |
|---|---|---|
| `controller` | one node, three arms, budget 8..60, packets of 20 units, two control periods and a half of traffic, three packets offered | `SlicesWithinBudget`, `UrllcUnderCeiling`, `EmbbFloorKept`, `RedistributionInert`, `TicksCoverTraffic`, `BacklogCovered`, `BucketsDrain` |
| `drain` | two packets, two hops, with and without the sweep, clock starting at 0 | `CorpsesDeadOrRecent`, `CapVerdictAtCap`, `StopsOnceEmpty`, `StallMeansNoDeparture`, `EndsJudged` |
| `sweep` | two edges, two rounds, an R window of two and of five packets | `OneProbeOnAir`, `HealthyEdgesAreMeasured`, `SweepNotCut`, `FlushSparesMoving`, `EveryEdgeProbed` |
| `routes` | two by three grid, 66 tables with holes, slow links, outliers and nodes apart, two accepted and three refused member requests, every order of every slice | `SearchesEnd`, `SearchIsShortest`, `DecodesToTrees`, `ViolationIsCurrent`, `SharesAreMaxMin`, `FollowsScoredPath` |
| `selection` | four and two members, populations of one to three, four landscapes, one generation | `FrontsAreDepths`, `ChildrenAreOrders`, `PickIgnoresT0`, `SelectionIsElitist`, `SengKeepsBest` |
| `qdisc` | one disc, radio of one packet, bands of two, four arrivals, limits 0 and 3, one retune, the dropping AQM | `ControlWaitsForRadioOnly`, `RateHonoured`, `RadioNotOverrun`, `OfferedIsOwnTraffic`, `NothingStranded` |
| `harness` | every combination of modes that differs, refused member counts and windows, a given table, two packets, two windows | `EveryWindowReported`, `RxBoundedByInFlight`, `NothingUnresolved`, `Contract` (the refinement), `TrafficReported` |
| `spare_budget` | as `controller`, one arm | violated: `CapsBindOnlyWhenSpent` |
| `cap_after_warmup` | drain with the clock starting at 2 | violated: `CapVerdictAtCap` |
| `corpse_verdict` | drain with the sweep | violated: `CorpsesAreDead` |
| `stale_stop` | two sampled edges, one round, 40 s of traffic | violated: `EndedByItsOwnStop` |
| `probe_ports` | 32 by 32 grid, 0 or 600 edges probed again | violated: `CountsOnlySlices` |

What the less obvious ones say:

- `Contract` is `Experiment!Spec` under `sent <- Sent`, `received <-` the packets
  that arrived, `outcome <-` the report's counts: whatever order the sweep, the
  windows, the settle watch, the drain and the loss window take, the report
  comes once and last, counts every packet the sources sent, and calls lost
  exactly those that did not arrive, so no packet that arrived late is among
  them. The default loss window (`1 + trafficSec + drainSec`) is what makes this
  true; one without the drain breaks it. It also needs the probes' ports to end
  below the slices'. The one port filter of `PrintSliceResults` lets a probe with
  a slice's port into the flow count and, packets and all, into what is sent and
  lost, and the model does the same (`Intruders`; a probe's flow stands for one
  packet, heard or not, and a window counts none, its base being taken after the
  sweep). On this run's 3 by 3 grid the ports stay apart; on the grid of
  `probe_ports` they do not, and there the contract does not hold. Lost equal to
  sent less received is not what the comments of that function say: see 5.
- `NothingUnresolved` is the remainder `PrintSliceResults` prints as "unresolved by
  FlowMonitor (not loss)": a window's sent less received less the whole run's
  lost. The three are read on different bases, and stay in balance because the
  accounts are settled before they are read and a window's base is taken of both
  counters at one instant.
- `RxBoundedByInFlight` is the bias of a window made precise: it may count more
  received than offered, by no more than what was in flight when it opened.
- `RateHonoured` measures each slice with a leaky meter at the highest limit it
  may be handed, and allows one MTU. It is not stated against the limit in force,
  because ns-3's bucket counts the time since it last sent at the rate it has
  *now*: a retune upwards pays out the idle time before it at the new rate.
- `FrontsAreDepths` and `SearchIsShortest` compare an algorithm with a reference
  definition: the peeling of fronts with the depth in the dominance order,
  Dijkstra that stops early with all-pairs distances.
- `PickIgnoresT0` triples URLLC's objective, which is linear in `T0`, and asks for
  the same survivors and the same knee.
- `SharesAreMaxMin` presupposes a measurement in each column, like `SearchesEnd`: a
  column without one keeps its -1 through the clean-up, and there may be a
  capacity of -1 to share. Its proof is what showed that it has to.
- `FollowsScoredPath` follows a packet through the tables all slices wrote.

Why the bounds suffice. Nodes do not influence each other's budgets (the radio
of a node is drained by the medium at any time, so a neighbour's effect is
already a choice), so one node stands for all; the proofs are for any set. Three
packets per node fill the radio past its target and leave one in a bucket, which
is what separates the cut, add and hold states of the loop. Its seed demand is
above what a node can admit, so that the first split is contended. Two packets
are what `Drain` needs for a live one to hide behind a dead one, and two hops
for one to move between a radio and a queue disc without the count changing. Two
edges are one gate and one retry of a proper subset; five packets against one
is the first ratio under the retry pass's quarter of the median. Time is in
whole seconds or polls with the inequalities of the code kept (lifetime below the
stall time, guard below the window, drain budget above the longest drain of
the instance).

A two by three grid is the smallest with two ways round, a relay and members of
three slices; the tables put a hole, an outlier or a slow link on every link in
turn, on a uniform background and on one of holes. Three parents and three
children are the first generation in which a front is truncated between an
extreme and an inner point. For the disc, a radio of one packet is stopped and
woken all the time; bands of two overflow on the third arrival; the limits hold
zero, which only the one-packet minimum keeps alive. For `HarnessRun`, two
packets are one that is late for a window and one that is in it; the windows of
1 s and 3 s are opened on the traffic's 3 s, so that the longest opens with the
sources.

Bounds by name: `RadioCap`, `BucketCap`, `MaxOffered`, `Slack` (how long the clock is
followed after `m_stop`, then it repeats its last period) in `SliceController`;
`Packets`, `Hops`, `RadioCap`, `EarlyExpiries` in `Drain`; `ProbeSize`, `Delays` in
`WarmupSweep`; `Tables`, `Requests`, `Pools` in `Routes`; `Populations`,
`Generations`, `Landscapes`, `Cuts`, `Swaps` in `Selection`; `MaxArrivals`,
`MaxRetunes` in `SliceQdisc`; `Packets`, `Tick` (the grain of sends and arrivals),
`SweepTimes`, `Retried` in `HarnessRun`. `CHECK_DEADLOCK FALSE` is said for
`Drain`, `WarmupSweep`, `Routes` and `Selection`, which really end.

Fairness. The discrete-event scheduler runs every event that is due and then
moves on, which is weak fairness on the scheduler's actions: `Tick` and `Advance`;
`DrainPoll`, `Halt`, `PrintDrain` and `Advance`; the callbacks of the sweep;
`Simulator` and `Main` as a whole in `HarnessRun`, `Tick` and `TimerFires` in
`SliceQdisc`. For `BucketsDrain` and `NothingStranded` the medium is also fair (a
frame is sent or given up at the retry limit or on its lifetime, so a radio frees
a place), and for `BucketsDrain` the root dequeues while the radio takes packets,
which `SliceQdisc` shows of it. For `EndsJudged`, `EveryEdgeProbed` and
`TrafficReported` nothing is assumed of packets: they may stay where they are
for ever.

## 4. The proofs

`SliceController_proofs` proves, for every set of nodes, policy, budget range,
seed demand and bound allowed by the named assumptions:

| theorem | property |
|---|---|
| `TypeCorrect` | `TypeOK` |
| `Isolation` | `SlicesWithinBudget` |
| `UrllcReservation` | `UrllcUnderCeiling` |
| `EmbbFloorHonoured` | `EmbbFloorKept` |
| `SecondRoundInert` | `RedistributionInert` |
| `RetunesCoverBacklog` | `BacklogCovered` |
| `LoopOutlivesWarmup` | `TicksCoverTraffic` |

The assumptions are those of `Allocator` (headroom at least one, which the code
enforces by throwing) and of `SliceController` (times and rates are numbers, the
period is positive, `Mtu` is a multiple of it so that the one-packet minimum is
exact, `BudgetMin <= BudgetMax`).

The inductive invariant `IInv` has three parts. `TypeOK` alone is not inductive,
because a measured demand is a difference of byte counters; `CountersAhead`
says the loop's reading is never ahead of them. `LimitsInForce` says that the
limits are always those computed from the budget and the demand recorded beside
them: no step changes one without the others. With it each safety property is
a statement about the arithmetic of one call of `Allocate`, and that is what the
module proves first: shares lane by lane (`FirstPassShares`), their sum
(`FirstPassWithinBudget`) and that a second round over shares within their need
returns them (`RedistributeInert`). `LoopOutlivesWarmup` uses an invariant of its
own, `Series`, which ties the number of ticks to the one that is due.

### The drain

`Drain_proofs`, for any packets, number of hops, radio size and times:

| theorem | property |
|---|---|
| `TypeCorrect` | `TypeOK` of the proof module: every variable's type |
| `StopsWithinAPoll` | `StopsOnceEmpty` |
| `CorpsesExcused` | `CorpsesDeadOrRecent` |
| `StallIsStill` | `StallMeansNoDeparture`, an action property |
| `CapVerdictOnDelay` | the cap verdict against the delay `g_drainStart` holds, at any clock |
| `CapVerdictAtZero` | `CapVerdictAtCap`, if the clock starts at zero |

The poller remembers one number and two instants. `PollerOK` says when its next
poll is due and what a stop it asked for implies; `CountOK` is the heart: while
the poller has a count, the mesh holds no more than it, and *as many* only if
nothing has left since the poller first saw it. With sources silent, packets can
only leave, so an equal count is an unchanged set. This is what makes a stall,
read off two equal counts, mean that nothing moved. `CapVerdictAtZero` needs its
hypothesis: run `cap_after_warmup` is its counterexample without it.

### The warm-up sweep

`WarmupSweep_proofs`, for any edges, rounds, window sizes and delays:

| theorem | property |
|---|---|
| `TypeCorrect` | `TypeOK` |
| `ProbesAlone` | `OneProbeOnAir` |
| `HealthyMeasured` | `HealthyEdgesAreMeasured` |
| `FlushIsLate` | `FlushSparesMoving`, an action property |
| `StopOutlastsRounds` | `SweepNotCut`, an action property, if the budget covers the longest probe |

`QuietOK` says that only the edge under the cursor has packets on air; it needs
`ProbesOK` (a pending edge has attempts left in this round, one no longer pending
has been probed) and `GateOK` (the drain gate's count bounds what the sender
holds, and an equal one means that nothing was sent since). `FlowsOK` ties what
a sink heard to what FlowMonitor has, which is what an edge is judged on.

`StopOutlastsRounds` says what the safety Stop has to cover. The longest probe is its
windows and then a drain in which each packet leaves just before the sender would
be taken for stuck, `StallSec` after the last one (`Longest`); `Suffices` is that
all edges in all rounds take no longer than the armed Stop. `OnTime` then holds:
probes begun are counted over rounds (`Begun`), every stage is over by its time
after the latest instant its probe can have begun, and the gate's clock falls behind
by one patience per packet that left. A retry round counts as a whole one, however
few edges failed. The instance of `sweep` satisfies the hypothesis; for the
defaults of the code it says that drains of up to some eleven seconds are safe, which is
not a matter of the constants alone but of how fast the radio drains.

### The run

Both `Run` calls of the harness work on one queue of events, so everything that
is proved of a run rests on what that queue holds. `RankingLemmas` and
`HarnessRun_proofs` have the lemmas: `StableOrder` lists every index once, by key and then by age
(`OrderLists`, `OrderIsOnto`, `OrderIsSorted`, from counting the indices before
each); `ScheduleAll` therefore keeps every event and sorts them
(`ScheduleAllArranges`, `ScheduleAllSorts`); what each handler may queue
(`EventsFired`) and what `main` queues at once (`TrafficLayout`).

| theorem | module | property |
|---|---|---|
| `QueueIsSorted` | `HarnessRun_proofs` | the queue holds events, earliest first |
| `WindowsBounded` | `HarnessRun_proofs` | `RxBoundedByInFlight` |
| `WindowsResolved` | `HarnessRun_proofs` | `NothingUnresolved` |
| `WindowsReported` | `HarnessRun_proofs` | `EveryWindowReported`, under `SweepInTime` |
| `CountsAreTrue` | `HarnessRun_proofs` | the invariant of the refinement, under `LossWindowSpans` |
| `KeepsContract` | `HarnessRun_proofs` | `Contract`: `HarnessRun` implements `Experiment`, under `LossWindowSpans` and `PortsApart` |

All hold for every command line whose fields are numbers (`RunsAssumption`),
finite set of packets and choice of times (`TimesAssumption`, `PacketsAssumption`).

*Windows bounded.* The property relates numbers read at two instants, so it is
not inductive. Its invariant `Bookkeeping` adds what FlowMonitor's set has to do
with where packets are (`PlacesOK`), and a balance: received plus in flight less
sent never grows, by sending, delivery, loss or giving up (`NeverGrows`), and a
window's counters equal it when it opens (`WindowBalance`). `ReportIsLast` says
that a report is only written when nothing can move any more.

*Windows resolved.* `AccountsOK` adds that no window opens with more received than
sent, which is the balance of that instant, and that after the report everything
sent was received or is lost. Loss is the whole run's, so it covers what the
window lost; what was received before the window opened is no more than what was
sent before it.

*Windows reported.* `StagesOK` says what the queue holds at each stage. A sweep
leaves nothing but its safety Stop, and that behind the close to come; when the
traffic is queued, `ClosesAt` holds: what can end the run (polls, the armed Stop,
the sweep's) comes after the close *in the queue*, also at the same instant, and
each window is open since its own length before the close or has its opening
ahead. Events that cause others only cause them after themselves, so this is
kept until the close fires and finds every window open (`TrafficClosing`): an
opening is strictly earlier than the close because a window has a length. The
hypothesis `SweepInTime` says that a sweep that is followed by traffic leaves its
safety Stop more than `1 + trafficSec` seconds and a half behind its end. Without
it the theorem is false, for the reason run `stale_stop` shows: the Stop may fall
anywhere in the traffic. A run on a given table, or without traffic, satisfies it
trivially. TLC checks `EveryWindowReported` without the hypothesis on an instance
where it holds.

*The refinement.* `KeepsContract` is the step simulation: under `CInv` every step
of `HarnessRun` is `Experiment`'s send, delivery or report, or leaves its
variables alone. The difficult step is the report: what FlowMonitor calls lost
must be exactly what did not arrive. `CountsTrue` says that until then it counts
as received what arrived and as lost only what was dropped, so `Advance` must
never give up on a packet in the air. `StopsInTime` is why: for every packet in
flight, every source running and every start still queued there is a Stop queued
less than a loss window after it, so the clock cannot reach the age at which
FlowMonitor gives up. `QuietBefore` starts the induction: nothing is sent before
the traffic or the slice test. The hypothesis `LossWindowSpans` asks for a loss
window longer than `trafficSec + drainSec`, and than the slice test's
`trafficSec + 2`. `main.cc:413-415` derives the window so that "it can never fall
behind --drainSec", and it is `DerivedWindowSpans` that it then spans both,
provided the drain is longer than a second; a window given on the command line
(`--maxPerHopDelay`) may be shorter, and then late packets are called lost. The
hypothesis `PortsApart` says that the probes of every round the sweep may take,
two ports each, end below port 10000 (`2 * edges * maxRounds <= 5000`). Then no
probe is in a slice's range (`ProbedStep`, `NobodyIntrudes`). It is a sufficient
condition and holds for a sweep of up to 833 edges in three rounds, a 20 by 20 grid;
without it the theorem is false.

### The disc

`SliceQdisc_proofs`, for any set of packet kinds and limits, any depth of a band
and any radio:

| theorem | property |
|---|---|
| `ControlHasItsWay` | `ControlWaitsForRadioOnly` |
| `BurstsAreBounded` | `RateHonoured` |
| `RadioHasRoom` | `RadioNotOverrun` |
| `DemandIsOwn` | `OfferedIsOwnTraffic` |

They assume, beside the ranges of the constants, that a slice's packets carry its
mark and nothing else carries one (`MarksAssumption`; `SliceTos` is what
`applications.cc` sets on a slice's sockets and nothing else sets), and that the
limits have a highest one, no lower than the floor (`LimitsAssumption`; a limit
is a part of a node's budget, which is bounded).

A Run is a loop, and what is proved of it is proved turn by turn (`RootServes`,
`BucketServes`) and then carried along all turns by `UpTo`, an induction over a
set of numbers (`RootRuns`, `BucketRuns`). `Ran(d, e)` is what every turn keeps:
packets only move from the bands to the radio, while there is room, and what is
sent of a slice comes off its *credit*, the tokens it would have had its rate
been the highest limit since it last sent. The inductive invariant's main part,
`WithinBurst`, says that what a slice has sent in excess and its credit are
together no more than one burst. The tokens alone would not do: a retune counts
the time since the last packet at the new rate, so the tokens of a slice that has
been waiting can grow at once. Why control waits for the radio only needs the
number of turns: each turn hands over a control packet while there is one, so
when the turns are over there is none left or the radio is full.

### The selection

`Selection_proofs`, for any members, populations, landscapes, draws, number of
generations and grain:

| theorem | property |
|---|---|
| `SearchTyped` | `TypeOK` of the proof module |
| `OrdersKept` | `ChildrenAreOrders` |
| `RanksByDepth` | `FrontsAreDepths` |
| `SelectionKeepsTop` | `SelectionIsElitist`, an action property |
| `BestKept` | `SengKeepsBest`, an action property |
| `UnitOfT0` | `PickIgnoresT0` |

They assume what `Selection` names: a slice's members are distinct numbers
(`MembersAssumption`), a first population is a sequence, not empty, of orders of
the members (`PopulationAssumption`; both optimisers index into an empty one), and
every chromosome has a score (`LandscapesAssumption`). `Drawn` keeps crossover's
and mutation's draws within an order's positions, as the distributions of the code do.

*Orders.* A child of order crossover is an order because what is copied and what is
filled in meet nowhere and leave nothing out: the rotated second parent holds every
member once, as many of them are outside the copied slice as there are places
outside it (`OpenPlaces`), and each of these places takes one (`CrossoverIsOrder`).

*Fronts.* `RanksByDepth` compares a loop with a recursive definition, by an invariant
of the loop. `Layered` says that each front is whoever has no dominator outside the
fronts before it, and never nobody. Dominance is transitive and nobody dominates
himself, so among those left somebody is free (`SomebodyIsFree`): every turn of the
peeling ranks somebody (`PeeledLayers`), and as many turns as there are individuals
rank everybody once (`OneFrontEach`). A dominator is then always in an earlier
front, and one of them in the front just before (`DominatorsBefore`).

*Truncation.* What has been taken after a number of fronts is all of them, or as many
as are wanted with every front but the last of these whole (`TakenUpTo`). Whoever
dominates a survivor is in a front before the survivor's, which was kept whole. The
least violation is in the first front (`FirstFrontIsLeast`), and so is a survivor's.

*Unit.* Two populations are `Triples` when they agree in all but URLLC's objective, which
is three times as large in one. Dominance, the order along an objective, each gap as
a part of its span (`GapKeeps`) and each distance from the ideal are then the same,
and so is everything that is sorted by them.

### The search, the trees and the routes

`Routes_proofs`, for any link table, number of nodes, draw of members and requests:

| theorem | property |
|---|---|
| `SearchesEndHolds` | `SearchesEnd` |
| `SearchIsShortestHolds` | `SearchIsShortest` |
| `DecodesToTreesHolds` | `DecodesToTrees` |
| `ViolationIsCurrentHolds` | `ViolationIsCurrent` |
| `SharesAreMaxMinHolds` | `SharesAreMaxMin` |
| `FollowsScoredPathHolds` | `FollowsScoredPath` |

They assume that the table has at most `NumEdges` rows between nodes of the mesh
(`RowsAssumption`), that each shuffle holds every node once (`NodesAssumption`), and
that `Infinite`, a number here, is above the delay of every path (`DelaysAssumption`).

*The search ends.* A turn takes the nearest entry off the queue and relaxes the links
of its node. `Reaches` says that every entry, and every node with a distance, was
reached along links; `Settles` that what was taken off is settled for good, with
everything still in the queue at least as far. With positive weights a node is
relaxed at most once, so at most one entry per link enters the queue, and the links
that nobody has relaxed yet and the entries are together fewer after every turn
(`TurnFalls`): the turns that `Turns` allows are enough (`SearchSettles`). The
weights are positive because the clean-up filled every column with a measured median
(`CorrectingFills`, `TableReads`), which is what `SearchesEnd` presupposes. A path
then ends at its source, since each step back is strictly nearer (`TrailRises`).

*The search is shortest.* The reference distances are a metric no larger than the
weights (`DistancesAreMetric`), so no label of the search falls below them
(`SearchAbove`); and no function that rises along no link by more than its weight
rises faster than they do (`PotentialsAreBelow`). The labels, cut off at the top of the
queue, are such a function (`SearchBelow`). So what stands on top, the first member
met, is at its distance and no member is nearer (`SearchFinds`), and the weights
along the path back add up to it (`PathAddsUp`).

*A slice decodes to a tree.* The decode is unfolded member by member (`DecodeIs`).
What every turn keeps is `Rooted`: each node of the tree but the root has its
parent in the tree, at a smaller rank, and the links are those the nodes hang by.
A way found by the search begins in the tree and then leaves it for good, so attaching it
keeps that (`AttachGrows`). Ranks fall on a climb: it visits nothing twice and
ends at the root (`UpIs`), which makes a tree path a path of the tree (`TreePathIs`).

*Stranded is cut off.* A member left out was missed by a search from a set that
held the root, so no path joins the two; the climb of a member inside is a path
of links of finite weight. So the violations counted are the members at infinite
distance (`StrandedAreCut`), of the winner that was scored and not of one before it.

*Shares are fair.* `Fair` holds after every pass of the division: what is left
covers, for everybody not yet met, as much as was met so far. A pass meets somebody
or nothing fits any more (`SettleIsFair`), so as many passes as slices are enough
(`PassesAre`). Then the demands met are at most the quotient and the others above
it (`SharesAre`), which is max-min with the capacity used up but for the rounding.

*Packets follow their path.* `Ancestry(t, n)` is a node with those above it, and
what lies between two nodes is where their ancestries differ. Each link of the
tree leads nearer to a destination one way round (`LinksLead`), and from everywhere
some link does (`SomewhereNearer`). The search of the route tables goes out layer
by layer, so its layers are those of nearness and each next hop is one step
nearer (`WiderLeads`, `NextHopsAre`). Members of two slices are different nodes
(`SlicesApart`), so the routes to a host are of one slice (`RoutesAre`). The
inductive invariant is `RouteInv`: the stages before, the tables installed from the
winner's trees, and the packet on its way, each link it took having brought it nearer.

### What is only model-checked

- Liveness: `BucketsDrain`, `EndsJudged`, `EveryEdgeProbed`, `TrafficReported`,
  `NothingStranded`. The prover has neither fairness rules nor ENABLED.

## 5. Where code and text disagree

- **The drain cap after a warm-up** (`cap_after_warmup`). `ScheduleDrain` stores
  the *delay* until the drain (`loss-ledger.cc:362`) and `DrainPoll` compares the
  *absolute* clock with it (`:270`). With an in-process warm-up the clock is
  ahead by its length, and the cap fires that much early. `loss-ledger.h:76-77`
  calls it a safety limit, not a drain time. With the clock at 0 (a saved link
  table) the property holds, as run `drain` shows.
- **The corpse verdict** (`corpse_verdict`). With the default sweep the frames
  held at a stall have *not* expired, since the poll has just removed the ones
  that had; the verdict still calls them corpses if any frame expired earlier in
  the run. What does hold in both arms is `CorpsesDeadOrRecent`.
- **Work conservation** (`spare_budget`). `allocator.h:20-21` says no cap can bind
  while capacity is spare; URLLC's ceiling and mMTC's bound do.
- **The second round does nothing.** Since pass 1 holds each lane to its need,
  `secondRound` never changes a limit (`RedistributionInert`, proved). The
  measured arm described at `allocator.cc:103-117` can no longer be reproduced.
- **The sweep's safety Stop outlives the sweep** (`stale_stop`). `BeginWarmup`
  arms a Stop `edges * 10 * (maxRounds + 1) + 2` seconds ahead
  (`warmup.cc:344`), `WarmupRetryPass` another when the sweep is over (`:408`), and
  nothing cancels the first. `warmup.cc:342-343` calls it "Safety bound only". With
  two sampled edges and one round it is 42 s away, and the default 40 s of traffic,
  queued when the sweep is over, does not end before: the run shows it ending the
  traffic while the sources send, before a window was closed or a drain begun. Any
  sweep, traffic and drain that outlast it together meet it, a long drain (the cap
  is 300 s by default) as well as long traffic.
- **Probe ports reach the slices'** (`probe_ports`). A probe takes a fresh port
  from 5000 on and never gives it back. On a 32 by 32 grid a round takes 3968 of
  them, so some 500 edges probed again reach 10000, where results are grouped as
  eMBB's (`main.cc:423`): its flow count, whole-run totals and loss then hold
  probes. The trace reports 168 packets sent although no source sent one.
- **Sent less received is loss** (`Contract`, `NothingUnresolved`, both of the passing
  run `harness`). `applications.cc:221-225` says that "tx-rx is not loss", with a
  measurement in which they differed, and `:251-254` prints the difference as
  "unresolved by FlowMonitor (not loss)". Since `CheckForLostPackets(0)` at `:145`
  settles the accounts before anything is read, every packet sent is received or
  lost: over the whole run lost *is* sent less received, and the line can never be
  printed. Comment and line describe the code before it settled; the comment at
  `:135-144` describes it as it is.
- **Control drops are not starvation** (`ControlWaitsForRadioOnly`, of the passing
  run `qdisc`). `traffic-control.h:163-164` reads drops in the control band as
  "the shares were set so low that ARP is starving". The shares limit the three
  slices' buckets and the control band has none: its packets go first whenever
  the radio has room, at whatever limits, so its drops only say that the radio
  was full for long enough to fill the band.
- Seen while modelling, without a run:
  - a drain that ends empty through the armed `Stop` is reported as having taken
    -1 s;
  - `MedianCorrectOutliers` fills a column from its own median, so a sweep that
    measured nothing in a column leaves its -1 in place, and a search over
    negative weights does not return: `SearchesEnd` assumes one measurement in
    each column, and so does `SharesAreMaxMin`, for a capacity of -1 has no fair
    shares;
  - `fitness.h` describes the URLLC objective by the worst member, the code takes
    the mean;
  - `nsga2.cc:153` never drops a boundary, but only while there is room for all
    of the extremes: they tie at infinity and the sort decides among them;
  - `fitness.cc:219` says that survivors are evaluated again; nothing in either
    loop does, only the scalar winner is (`Rescore`);
  - a window that opens with nothing held is printed as settled, whatever it closes
    with (`applications.cc:109`, at every close, `main.cc:705`); nothing acts on the
    line, and `WindowsSettled`, with the same test, is never called;
  - `--warmup --sliceTest` passes the mode check and runs the slice test without
    the sweep.

## 6. Not modelled

- Floating point: rates, delays, objectives and shares are whole units. No
  property is about the rounding.
- Text: output, wording, command-line parsing, the trend the settle watch prints
  (its polling is modelled), delay and throughput figures.
- Sweep: `flushSender = false`, and which edges `SampleEdgesByPosition` picks.
- Queue discs: `SetSliceLatencyTargets`, a parameter of an AQM whose drops are any
  in the model; AQMs that drop when peeked at.
- Ledger: drop counters other than lifetime expiry, which only report.
- ns-3: PHY, MAC, ARP (`PerfectArp`), addressing and port binding; modelled where
  the harness relies on it (buckets, radio, scheduler, FlowMonitor). FlowMonitor
  follows a packet from hop to hop; the model from when it was sent.
- The gates (`gates/`) are experiments with single mechanisms that the program
  does not contain, `fail/` holds designs the repository records as abandoned,
  `results/` tabulates finished runs.

## 7. Plan

Every component that carries the program's own logic is modelled, and every safety
property and action property that a passing run checks is proved. What is left is
`flushSender = false` in the sweep, under which a stuck packet stays with its
sender and probes do overlap.
