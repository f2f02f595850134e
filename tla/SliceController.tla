-------------------------- MODULE SliceController --------------------------
(***************************************************************************)
(* The per-node AIMD admission loop of harness/controller.cc, the token    *)
(* buckets it retunes (harness/traffic-control.cc) and the radio it reads. *)
(*                                                                         *)
(* Every node runs its own loop on its own radio backlog and its own       *)
(* bucket counters.  The buckets' packet movement and the radio belong to  *)
(* ns-3 and are modelled from what the harness relies on.                  *)
(*                                                                         *)
(* Units: one packet is one MTU; a rate is in 1/Mtu-ths of a packet per    *)
(* unit of time; the clock is the simulator's and is already at Base, the  *)
(* length of the warm-up, when Start is called.                            *)
(***************************************************************************)
EXTENDS Allocator

CONSTANTS
  Nodes,           \* the mesh nodes
  Base,            \* simulator time at which Start is called
  Lead,            \* traffic starts this long after Base
  TrafficSec,      \* and lasts this long
  Period,          \* the control period
  Mtu,             \* the size of a packet, in rate units times time units
  AiStep,          \* additive increase per tick
  MdPercent,       \* multiplicative decrease, in percent
  RadioTarget,     \* a radio holding more than this is behind
  BudgetMin, BudgetMax,
  Arms,            \* the values of Config that select what sets the limits
  SeedDemand,      \* the configured demand per slice
  RadioCap,        \* bound: packets a radio queue holds
  BucketCap,       \* bound: packets a bucket holds
  MaxOffered,      \* bound: packets offered to one node over the run
  Slack            \* bound: time units the clock is followed after m_stop

ASSUME TimeAssumption ==
  /\ Base \in Nat /\ Lead \in Nat /\ TrafficSec \in Nat /\ Slack \in Nat
  /\ Period \in Nat \ {0}
ASSUME RateAssumption ==
  /\ Mtu \in Nat \ {0} /\ Mtu % Period = 0
  /\ AiStep \in Nat /\ MdPercent \in 0..100 /\ RadioTarget \in Nat
  /\ BudgetMin \in Nat /\ BudgetMax \in Nat /\ BudgetMin <= BudgetMax
  /\ Arms \subseteq [fixedShare : [Slices -> Nat], secondRound : BOOLEAN]
  /\ SeedDemand \in [Slices -> Nat]
ASSUME BoundAssumption ==
  /\ RadioCap \in Nat /\ BucketCap \in Nat /\ MaxOffered \in Nat
  /\ Slack >= Period

VARIABLES
  clock,
  m_cfg,        \* fixedShare in percent, all zero = off; secondRound
  nextTick,     \* when the scheduled Tick fires; Never once it is not rearmed
  ticks,        \* how many have fired
  budget,       \* m_admitBudget
  lastBacklog,  \* m_lastBacklog
  lastBytes,    \* m_lastBytes, in packets
  demand,       \* the demand the limits in force were computed from
  limit,        \* g_lastLimitMbps, the rate of every token bucket
  offered,      \* a bucket's nTotalReceivedBytes, in packets
  held,         \* a bucket's GetNBytes, in packets
  allowance,    \* packets the bucket's tokens still let through this period
  radio         \* packets in the AC_BE queue of the node's radio

loop == <<nextTick, ticks, budget, lastBacklog, lastBytes, demand, limit>>
queues == <<offered, held, allowance, radio>>
vars == <<clock, m_cfg, loop, queues>>

Never == -1

StartDelay == Lead + Period
StopAt_Absolute == StartDelay + TrafficSec
StopAt == Base + StartDelay + TrafficSec      \* m_stop
Horizon == StopAt + Slack

(* SetMinLimitFromPeriod: one MTU per control period. *)
MinLimit == Mtu \div Period

RateOf(packets) == packets * MinLimit
PacketsPerPeriod(rate) == (rate * Period) \div Mtu

FixedShareOn == \E s \in Slices : m_cfg.fixedShare[s] > 0
FixedLimits(b) == [s \in Slices |-> Percent(b, m_cfg.fixedShare[s])]

(* SetSliceRatesOn: a TbfQueueDisc divides by its rate, so none is zero. *)
Enforced_NoMinimum(share) == share
Enforced(share) == [s \in Slices |-> Greater(share[s], MinLimit)]

LimitsFor(b, d) ==
  Enforced(IF FixedShareOn THEN FixedLimits(b) ELSE Allocate(b, d, m_cfg.secondRound))

-----------------------------------------------------------------------------
(* Start: every node at BudgetMax, limits from the configured demand. *)
Init ==
  /\ m_cfg \in Arms
  /\ clock = Base
  /\ nextTick = Base + StartDelay
  /\ ticks = 0
  /\ budget = [n \in Nodes |-> BudgetMax]
  /\ lastBacklog = [n \in Nodes |-> 0]
  /\ lastBytes = [n \in Nodes |-> [s \in Slices |-> 0]]
  /\ demand = [n \in Nodes |-> SeedDemand]
  /\ limit = [n \in Nodes |-> LimitsFor(BudgetMax, SeedDemand)]
  /\ offered = [n \in Nodes |-> [s \in Slices |-> 0]]
  /\ held = [n \in Nodes |-> [s \in Slices |-> 0]]
  /\ allowance = [n \in Nodes |-> [s \in Slices |-> 1]]
  /\ radio = [n \in Nodes |-> 0]

Over(n) == radio[n] > RadioTarget
Draining(n) == radio[n] < lastBacklog[n]

(* The three states of the loop: cut, add, hold; then the clamp. *)
NextBudget_Unclamped(n) ==
  CASE Over(n) /\ ~Draining(n) -> Percent(budget[n], MdPercent)
    [] ~Over(n)                -> budget[n] + AiStep
    [] OTHER                   -> budget[n]
NextBudget(n) ==
  LET b == CASE Over(n) /\ ~Draining(n) -> Percent(budget[n], MdPercent)
             [] ~Over(n)                -> budget[n] + AiStep
             [] OTHER                   -> budget[n]
  IN  Clamp(b, BudgetMin, BudgetMax)

(* Offered since the last tick, or what the bucket still holds if more. *)
MeasuredDemand_ArrivalsOnly(n) ==
  [s \in Slices |-> RateOf(offered[n][s] - lastBytes[n][s])]
MeasuredDemand(n) ==
  [s \in Slices |-> RateOf(Greater(offered[n][s] - lastBytes[n][s], held[n][s]))]

Tick ==
  /\ nextTick = clock
  /\ ticks' = ticks + 1
  /\ budget' = [n \in Nodes |-> NextBudget(n)]
  /\ lastBacklog' = radio
  /\ lastBytes' = offered
  /\ demand' = [n \in Nodes |-> MeasuredDemand(n)]
  /\ limit' = [n \in Nodes |-> LimitsFor(NextBudget(n), MeasuredDemand(n))]
  /\ nextTick' = IF clock + Period < StopAt THEN clock + Period ELSE Never
  /\ UNCHANGED <<clock, m_cfg, queues>>

-----------------------------------------------------------------------------
(* A source or a neighbour hands the node a packet: counted on arrival,    *)
(* kept if the bucket has room.                                            *)
Arrive(n, s) ==
  /\ clock >= Base + Lead
  /\ Total(offered[n]) < MaxOffered
  /\ offered' = [offered EXCEPT ![n][s] = @ + 1]
  /\ held' = [held EXCEPT ![n][s] = Lesser(@ + 1, BucketCap)]
  /\ UNCHANGED <<clock, m_cfg, loop, allowance, radio>>

Eligible(n, s) == held[n][s] > 0 /\ allowance[n][s] > 0

(* A bucket hands a packet down when it has tokens and the radio has room. *)
(* The root serves its bands by priority, but a token-delayed bucket runs  *)
(* on a timer of its own and sends past the root: no order is assumed.     *)
Release(n, s) ==
  /\ Eligible(n, s)
  /\ radio[n] < RadioCap
  /\ held' = [held EXCEPT ![n][s] = @ - 1]
  /\ allowance' = [allowance EXCEPT ![n][s] = @ - 1]
  /\ radio' = [radio EXCEPT ![n] = @ + 1]
  /\ UNCHANGED <<clock, m_cfg, loop, offered>>

(* The bucket's AQM drops a packet that has waited too long. *)
Discard(n, s) ==
  /\ held[n][s] > 0
  /\ held' = [held EXCEPT ![n][s] = @ - 1]
  /\ UNCHANGED <<clock, m_cfg, loop, offered, allowance, radio>>

(* The medium takes a frame, or the radio gives up on it. *)
Transmit(n) ==
  /\ radio[n] > 0
  /\ radio' = [radio EXCEPT ![n] = @ - 1]
  /\ UNCHANGED <<clock, m_cfg, loop, offered, held, allowance>>

(* Time moves only past instants whose events have run; tokens for a whole *)
(* period accrue at its end.  Beyond Horizon the clock repeats its last    *)
(* period, so that the queues can be followed for ever.                    *)
Advance ==
  /\ nextTick # clock
  /\ clock' = IF clock < Horizon THEN clock + 1 ELSE (Horizon + 1) - Period
  /\ allowance' = IF (clock + 1 - Base) % Period = 0
                    THEN [n \in Nodes |-> [s \in Slices |->
                            PacketsPerPeriod(limit[n][s])]]
                    ELSE allowance
  /\ UNCHANGED <<m_cfg, loop, offered, held, radio>>

Next ==
  \/ Tick
  \/ Advance
  \/ \E n \in Nodes : Transmit(n) \/ \E s \in Slices : Arrive(n, s) \/ Release(n, s) \/ Discard(n, s)

Fairness ==
  /\ WF_vars(Tick) /\ WF_vars(Advance)
  /\ \A n \in Nodes : /\ WF_vars(Transmit(n))
                      /\ WF_vars(\E s \in Slices : Release(n, s))

Spec == Init /\ [][Next]_vars
FairSpec == Spec /\ Fairness

-----------------------------------------------------------------------------
TypeOK ==
  /\ m_cfg \in Arms
  /\ clock \in Nat
  /\ nextTick \in Nat \cup {Never}
  /\ ticks \in Nat
  /\ budget \in [Nodes -> BudgetMin..BudgetMax]
  /\ lastBacklog \in [Nodes -> Nat]
  /\ lastBytes \in [Nodes -> [Slices -> Nat]]
  /\ demand \in [Nodes -> [Slices -> Nat]]
  /\ limit \in [Nodes -> [Slices -> Nat]]
  /\ offered \in [Nodes -> [Slices -> Nat]]
  /\ held \in [Nodes -> [Slices -> Nat]]
  /\ allowance \in [Nodes -> [Slices -> Nat]]
  /\ radio \in [Nodes -> Nat]

(* Isolation: what the buckets of a node admit together never exceeds the  *)
(* budget in force, but for buckets raised to the one-packet minimum.      *)
(* (traffic-control.h: the shares of one node must not sum past it.)  The  *)
(* fixed-ratio arm is as good as its ratios, which nothing in it checks.   *)
SlicesWithinBudget ==
  Total(m_cfg.fixedShare) <= 100 => \A n \in Nodes :
    Total([s \in Slices |-> IF limit[n][s] > MinLimit THEN limit[n][s] ELSE 0])
      <= budget[n]

(* The URLLC reservation is no blank cheque: however much URLLC asks for,  *)
(* its bucket never gets more than rho* of the budget in force.            *)
UrllcUnderCeiling ==
  ~FixedShareOn => \A n \in Nodes : limit[n][URLLC] <= Greater(MinLimit, UrllcCeiling(budget[n]))

(* F is honoured: with eMBB traffic on the node, mMTC leaves eMBB the F    *)
(* part of what URLLC left, or all that eMBB asked for.                    *)
EmbbFloorKept ==
  ~FixedShareOn => \A n \in Nodes :
    limit[n][EMBB] >=
      Lesser(demand[n][EMBB],
             Percent(budget[n] - limit[n][URLLC], FloorFor(demand[n])))

(* Once m_stop has passed the loop has covered the whole traffic phase:    *)
(* one tick per period of it, whatever time the warm-up took before.       *)
TicksCoverTraffic ==
  clock > StopAt =>
    ticks = IF TrafficSec = 0 THEN 1 ELSE (TrafficSec + Period - 1) \div Period

(* A retune never leaves a bucket a rate under which the backlog it holds  *)
(* outlasts the period, unless the slice is at the bound its budget sets:  *)
(* rho* B for URLLC, (1-F) of the rest for mMTC, the whole budget for eMBB.*)
Clears(n, s) == PacketsPerPeriod(limit'[n][s]) >= held[n][s]
BacklogCovered ==
  [][ticks' # ticks /\ ~FixedShareOn => \A n \in Nodes :
       /\ \/ Clears(n, URLLC)
          \/ limit'[n][URLLC] >= UrllcCeiling(budget'[n])
       /\ \/ Clears(n, MMTC)
          \/ limit'[n][MMTC] >= Percent(budget'[n] - limit'[n][URLLC],
                                        100 - FloorFor(demand'[n]))
       /\ Clears(n, EMBB) \/ Total(limit'[n]) >= budget'[n]]_vars

(* When the arrivals end every bucket empties, on whatever rates the last  *)
(* tick left: no bucket's rate is so low that its backlog is frozen.       *)
BucketsDrain == <>[](\A n \in Nodes, s \in Slices : held[n][s] = 0)

(* The second round never moves a share: pass 1 already holds every lane   *)
(* to its need, so there is nothing to reclaim (allocator.cc:120-131).     *)
RedistributionInert ==
  ~FixedShareOn => \A n \in Nodes : limit[n] = Enforced(FirstPass(budget[n], demand[n]))

(* "None can bind while capacity is spare" (allocator.h:20-21): a bucket   *)
(* slower than the demand it was sized from means the budget is spent.     *)
CapsBindOnlyWhenSpent ==
  ~FixedShareOn => \A n \in Nodes :
    (\E s \in Slices : limit[n][s] < demand[n][s]) => Total(limit[n]) >= budget[n]
=============================================================================
