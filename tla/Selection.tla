----------------------------- MODULE Selection -----------------------------
(***************************************************************************)
(* How the route search chooses (nsga/nsga2.cc, nsga/seng.cc): generations *)
(* of NSGA-II, which keeps the better half of parents and children by      *)
(* constrained dominance and crowding and ends on the knee of its front,   *)
(* or of the scalar baseline, which minimises one cost.                    *)
(*                                                                         *)
(* What a chromosome scores is a function chosen at the start (decoding    *)
(* and scoring are SliceTrees).  Random draws are choices.  Crowding and   *)
(* distance are in 1/Unit of an objective's range.  Equal keys keep their  *)
(* order, as the library's sort does on up to sixteen elements (it may     *)
(* order the equals of a larger population otherwise).                     *)
(* D_Variant is D with a plausible mistake.                                *)
(***************************************************************************)
EXTENDS Ranking, Sequences, FiniteSetsExt, Functions

CONSTANTS
  Members,       \* of each slice, as drawn
  Populations,   \* initial populations: sequences of chromosomes
  Generations,
  Landscapes,    \* by name, from chromosomes to what Evaluate and SengCost give
  Cuts, Swaps,   \* the places crossover and mutation may draw, <<1, 1>> for none
  Routers,       \* the optimisers looked at
  Unit

Slices == 0..2
Objectives == 1..3
Maximize == <<TRUE, FALSE, FALSE>>
Boundless == 1000000     \* the crowding of an extreme, and an infinite cost

BySlice(embb, urllc, mmtc) ==
  [s \in Slices |-> IF s = 0 THEN embb ELSE IF s = 1 THEN urllc ELSE mmtc]

(* Everybody's chromosomes: an order of each slice's members.              *)
Orders(s) ==
  {q \in [1..Len(Members[s]) -> Range(Members[s])] : Range(q) = Range(Members[s])}
Chromosomes == {BySlice(e, u, m) : e \in Orders(0), u \in Orders(1), m \in Orders(2)}
Scores == [obj : [Objectives -> Int], stranded : Nat, saturated : Nat, cost : Int]

(* No node is a member twice. *)
ASSUME MembersAssumption ==
  /\ Members \in [Slices -> Seq(Nat)]
  /\ \A s \in Slices : \A k, l \in 1..Len(Members[s]) : Members[s][k] = Members[s][l] => k = l
(* With an empty population both optimisers index into nothing. *)
ASSUME PopulationAssumption ==
  \A p \in Populations : p \in Seq(Chromosomes) /\ p # <<>>
ASSUME LandscapesAssumption ==
  \A name \in DOMAIN Landscapes : \A seg \in Chromosomes :
    seg \in DOMAIN Landscapes[name] /\ Landscapes[name][seg] \in Scores
ASSUME DrawsAssumption == Cuts \subseteq Nat \X Nat /\ Swaps \subseteq Nat \X Nat
ASSUME SearchAssumption ==
  Generations \in Nat /\ Routers \subseteq {"nsga", "seng"} /\ Unit \in Nat \ {0}

VARIABLES
  router, land,
  size,         \* params.popSize
  phase, gen,
  pop,          \* sequence of individuals
  offspring,    \* the children of this generation
  pick          \* the individual whose routes are installed

vars == <<router, land, size, phase, gen, pop, offspring, pick>>

Individual(seg, score) ==
  [seg |-> seg, obj |-> score.obj, stranded |-> score.stranded,
   saturated |-> score.saturated, cost |-> score.cost, rank |-> 0, crowd |-> 0]
Scored(seg) == Individual(seg, Landscapes[land][seg])

-----------------------------------------------------------------------------
Violation(x) == x.stranded + x.saturated

(* Bigger is better on every objective of the sense-corrected scores. *)
Sense(x, m) == IF Maximize[m] THEN x.obj[m] ELSE -x.obj[m]

(* Deb's constrained dominance. *)
Dominates(a, b) ==
  \/ Violation(a) < Violation(b)
  \/ /\ Violation(a) = 0 /\ Violation(b) = 0
     /\ \A m \in Objectives : Sense(a, m) >= Sense(b, m)
     /\ \E m \in Objectives : Sense(a, m) > Sense(b, m)

(* A sequence by increasing key of its places; a set of places in order.  *)
Sorted(q, key) == LET at == StableOrder(key) IN [k \in DOMAIN q |-> q[at[k]]]
InOrder(places) == StableOrder([k \in places |-> k])

(* Fronts are peeled off: a front is whoever has no dominator left, in the *)
(* order in which the last of its dominators was removed.                  *)
Undominated(p, left, previous) ==
  LET free == {i \in left : \A j \in left : ~Dominates(p[j], p[i])}
      freed(i) == Max({0} \cup {k \in DOMAIN previous : Dominates(p[previous[k]], p[i])})
  IN  StableOrder([i \in free |-> freed(i)])

FastNonDominatedSort_FirstTwo(p) ==
  LET first == Undominated(p, DOMAIN p, <<>>)
      left == DOMAIN p \ Range(first)
  IN  IF left = {} THEN <<first>> ELSE <<first, InOrder(left)>>
Left(p, fronts) == DOMAIN p \ UNION {Range(fronts[f]) : f \in DOMAIN fronts}
Peeled(p, fronts) ==
  LET previous == IF fronts = <<>> THEN <<>> ELSE fronts[Len(fronts)]
  IN  IF Left(p, fronts) = {} THEN fronts
      ELSE Append(fronts, Undominated(p, Left(p, fronts), previous))
FastNonDominatedSort(p) ==
  LET peel[n \in 0..Len(p)] == IF n = 0 THEN <<>> ELSE Peeled(p, peel[n - 1])
  IN  peel[Len(p)]

(* A front along one objective, lowest first. *)
Along(p, front, m) == Sorted(front, [k \in DOMAIN front |-> p[front[k]].obj[m]])

(* Extremes count as boundless; the others add the gaps around them, each  *)
(* as a part of the objective's range.                                     *)
Gap_Unscaled(gap, span) == gap
Gap(gap, span) == IF span <= 0 THEN 0 ELSE (Unit * gap) \div span
Crowding(p, front) ==
  LET idx == <<Along(p, front, 1), Along(p, front, 2), Along(p, front, 3)>>
      obj(m, k) == p[idx[m][k]].obj[m]
      of(i) ==
        LET at == [m \in Objectives |-> CHOOSE k \in DOMAIN front : idx[m][k] = i]
            gap(m) == Gap(obj(m, at[m] + 1) - obj(m, at[m] - 1), obj(m, Len(front)) - obj(m, 1))
        IN  IF Len(front) <= 2 \/ \E m \in Objectives : at[m] \in {1, Len(front)}
            THEN Boundless ELSE gap(1) + gap(2) + gap(3)
  IN  [i \in Range(front) |-> of(i)]

(* Every individual with the rank of its front and its crowding in it. *)
Ranked(p) ==
  LET fronts == FastNonDominatedSort(p)
      crowds == [f \in DOMAIN fronts |-> Crowding(p, fronts[f])]
      of(i) == CHOOSE f \in DOMAIN fronts : i \in Range(fronts[f])
  IN  [i \in DOMAIN p |-> [p[i] EXCEPT !.rank = of(i) - 1, !.crowd = crowds[of(i)][i]]]

(* Whole fronts while they fit, then the least crowded of the next one.    *)
Spread(p, front) ==
  LET crowd == Crowding(p, front) IN Sorted(front, [k \in DOMAIN front |-> -crowd[front[k]]])
Survivors_Crowded(p) ==
  LET q == Ranked(p)
      order == Sorted(InOrder(DOMAIN p), [i \in DOMAIN p |-> -q[i].crowd])
  IN  [k \in 1..size |-> q[order[k]]]
Filled(p, taken, front) ==
  LET room == size - Len(taken)
  IN  taken \o IF Len(front) <= room THEN front ELSE SubSeq(Spread(p, front), 1, room)
Survivors(p) ==
  LET fronts == FastNonDominatedSort(p)
      taken[n \in 0..Len(fronts)] == IF n = 0 THEN <<>> ELSE Filled(p, taken[n - 1], fronts[n])
      next == taken[Len(fronts)]
  IN  [k \in DOMAIN next |-> Ranked(p)[next[k]]]

(* Nearest to the ideal point, every objective scaled to its range on the  *)
(* front; the first of equally near.                                       *)
KneePoint(front) ==
  LET value(m) == {front[i].obj[m] : i \in DOMAIN front}
      off(i, m) == IF Maximize[m] THEN Max(value(m)) - front[i].obj[m]
                                  ELSE front[i].obj[m] - Min(value(m))
      norm(i, m) == Gap(off(i, m), Max(value(m)) - Min(value(m)))
      square(x) == x * x
      far(i) == square(norm(i, 1)) + square(norm(i, 2)) + square(norm(i, 3))
  IN  First([i \in DOMAIN front |-> far(i)])

(* What Run returns. *)
Pareto(p) ==
  LET first == FastNonDominatedSort(p)[1] IN [k \in DOMAIN first |-> p[first[k]]]

(* The standalone driver sorts the front and drops equal trade-offs first. *)
Distinct(front) ==
  LET before(a, b) ==
        \E m \in Objectives :
          Sense(a, m) > Sense(b, m) /\ \A n \in 1..(m - 1) : a.obj[n] = b.obj[n]
      ahead(k) == {l \in DOMAIN front : before(front[l], front[k])}
      sorted == Sorted(front, [k \in DOMAIN front |-> Cardinality(ahead(k))])
      at == InOrder({k \in DOMAIN sorted : k = 1 \/ sorted[k].obj # sorted[k - 1].obj})
  IN  [k \in DOMAIN at |-> sorted[at[k]]]

-----------------------------------------------------------------------------
(* Order crossover: places i..j from p1, the rest in the order of p2, both *)
(* starting after j and wrapping round.  The ends may be drawn either way  *)
(* round.                                                                  *)
Rotated(p, j) == [c \in 1..Len(p) |-> p[1 + ((j + c - 1) % Len(p))]]
OrderCrossover_KeepsAll(p1, p2, x, y) ==
  LET i == IF x > y THEN y ELSE x
      j == IF x > y THEN x ELSE y
      fill == Rotated(p2, j)
      at(k) == IF k > j THEN k - j ELSE k + Len(p1) - j
  IN  IF Len(p1) < 2 THEN p1
      ELSE [k \in 1..Len(p1) |-> IF k \in i..j THEN p1[k] ELSE fill[at(k)]]
OrderCrossover(p1, p2, x, y) ==
  LET i == IF x > y THEN y ELSE x
      j == IF x > y THEN x ELSE y
      kept == {p1[k] : k \in i..j}
      wrapped == Rotated(p2, j)
      fill == InOrder({c \in 1..Len(p1) : wrapped[c] \notin kept})
      at(k) == IF k > j THEN k - j ELSE k + Len(p1) - j
  IN  IF Len(p1) < 2 THEN p1
      ELSE [k \in 1..Len(p1) |-> IF k \in i..j THEN p1[k] ELSE wrapped[fill[at(k)]]]

SwapMutation(p, x, y) ==
  IF Len(p) < 2 THEN p ELSE [p EXCEPT ![x] = p[y], ![y] = p[x]]

(* What crossing and mutating two orders can give. *)
Drawn(pairs, p) == {d \in pairs : Len(p) < 2 \/ Range(d) \subseteq 1..Len(p)}
Varied(p1, p2) ==
  {SwapMutation(OrderCrossover(p1, p2, cut[1], cut[2]), swap[1], swap[2]) :
     cut \in Drawn(Cuts, p1), swap \in Drawn(Swaps, p1)}
Children(a, b) ==
  {Scored(BySlice(e, u, m)) : e \in Varied(a.seg[0], b.seg[0]),
                              u \in Varied(a.seg[1], b.seg[1]),
                              m \in Varied(a.seg[2], b.seg[2])}

(* Of two drawn at random, the lower rank wins, then the larger crowding.  *)
Tournament(a, b) ==
  IF pop[a].rank # pop[b].rank
  THEN IF pop[a].rank < pop[b].rank THEN a ELSE b
  ELSE IF pop[a].crowd > pop[b].crowd THEN a ELSE b

(* Of four, the first of least cost. *)
TournamentOfFour(picks) == picks[First([k \in 1..4 |-> pop[picks[k]].cost])]

Parents ==
  IF router = "nsga" THEN {Tournament(a, b) : a \in 1..size, b \in 1..size}
                     ELSE {TournamentOfFour(picks) : picks \in [1..4 -> 1..size]}

Best(p) == First([i \in DOMAIN p |-> p[i].cost])

-----------------------------------------------------------------------------
(* Both optimisers begin with shuffles of the members, scored; NSGA-II     *)
(* ranks them.                                                             *)
Init ==
  /\ router \in Routers
  /\ land \in DOMAIN Landscapes
  /\ \E drawn \in Populations :
       LET p == [k \in DOMAIN drawn |-> Scored(drawn[k])] IN
       /\ size = Len(drawn)
       /\ pop = IF router = "nsga" THEN Ranked(p) ELSE p
  /\ phase = "parents" /\ gen = 0
  /\ offspring = <<>>
  /\ pick = <<>>

(* NSGA-II breeds as many children as there are parents, Seng one fewer.   *)
Breed ==
  /\ phase = "parents" /\ gen < Generations
  /\ LET bred == UNION {Children(pop[a], pop[b]) : a \in Parents, b \in Parents}
         count == IF router = "nsga" THEN size ELSE size - 1
     IN  \E children \in [1..count -> bred] : offspring' = children
  /\ phase' = "bred"
  /\ UNCHANGED <<router, land, size, gen, pop, pick>>

(* The best of parents and children live on. *)
SelectNsga ==
  /\ phase = "bred" /\ router = "nsga"
  /\ pop' = Survivors(pop \o offspring)
  /\ offspring' = <<>>
  /\ phase' = "parents" /\ gen' = gen + 1
  /\ UNCHANGED <<router, land, size, pick>>

(* The cheapest parent lives on, first. *)
Elite_First(p) == <<p[1]>>
Elite(p) == <<p[Best(p)]>>
SelectSeng ==
  /\ phase = "bred" /\ router = "seng"
  /\ pop' = Elite(pop) \o offspring
  /\ offspring' = <<>>
  /\ phase' = "parents" /\ gen' = gen + 1
  /\ UNCHANGED <<router, land, size, pick>>

Finished == phase = "parents" /\ gen = Generations
FinishNsga ==
  /\ Finished /\ router = "nsga"
  /\ \E front \in {Pareto(pop), Distinct(Pareto(pop))} : pick' = front[KneePoint(front)]
  /\ phase' = "picked"
  /\ UNCHANGED <<router, land, size, gen, pop, offspring>>
FinishSeng ==
  /\ Finished /\ router = "seng"
  /\ pick' = pop[Best(pop)]
  /\ phase' = "picked"
  /\ UNCHANGED <<router, land, size, gen, pop, offspring>>

Next == Breed \/ SelectNsga \/ SelectSeng \/ FinishNsga \/ FinishSeng

Spec == Init /\ [][Next]_vars

-----------------------------------------------------------------------------
(* The rank the peeling gives is the depth in the dominance order: nought  *)
(* for whom nobody dominates, else one more than the deepest dominator, so *)
(* that everyone is ranked and nobody below one he dominates.              *)
FrontsAreDepths ==
  phase = "bred" /\ router = "nsga" =>
    LET all == pop \o offspring
        rank(i) == Ranked(all)[i].rank
        over(i) == {j \in DOMAIN all : Dominates(all[j], all[i])}
    IN  \A i \in DOMAIN all :
          rank(i) = IF over(i) = {} THEN 0 ELSE 1 + Max({rank(j) : j \in over(i)})

(* Crossover and mutation of every slice's order, wrapped round or not,    *)
(* leave an order of that slice's members: nobody twice, nobody lost.      *)
ChildrenAreOrders ==
  \A x \in Range(pop \o offspring), s \in Slices :
    /\ Len(x.seg[s]) = Len(Members[s])
    /\ Range(x.seg[s]) = Range(Members[s])

(* URLLC's objective is linear in T0, and T0 is only a unit: three times   *)
(* its value selects the same survivors and lands on the same knee.        *)
PickIgnoresT0 ==
  LET scaled(p) == [k \in DOMAIN p |-> [p[k] EXCEPT !.obj[2] = 3 * @]]
      segs(p) == [k \in DOMAIN p |-> p[k].seg]
      knee(front) == front[KneePoint(front)].seg
  IN  router = "nsga" =>
      /\ phase = "bred" =>
           LET all == pop \o offspring IN segs(Survivors(all)) = segs(Survivors(scaled(all)))
      /\ phase = "picked" =>
           /\ knee(Pareto(pop)) = knee(Pareto(scaled(pop)))
           /\ knee(Distinct(Pareto(pop))) = knee(Distinct(Pareto(scaled(pop))))

(* A generation never loses ground: as many survive as there were, none of *)
(* whom a discarded one dominates, and the least violation does not rise;  *)
(* so once something feasible was found, something feasible is picked.     *)
LeastViolation(p) == Min({Violation(p[i]) : i \in DOMAIN p})
SelectionIsElitist ==
  [][router = "nsga" =>
       /\ LeastViolation(pop') <= LeastViolation(pop)
       /\ Len(pop') = size
       /\ pop' # pop =>
            LET all == pop \o offspring
                kept(x) == \E k \in DOMAIN pop' : pop'[k].seg = x.seg
            IN  \A i \in DOMAIN all, k \in DOMAIN pop' :
                  kept(all[i]) \/ ~Dominates(all[i], pop'[k])
       /\ pick' # pick => Violation(pick') = LeastViolation(pop)]_vars

(* The scalar optimiser's cheapest solution is never lost: neither to a    *)
(* generation of dearer children nor to the pick at the end.               *)
SengKeepsBest ==
  [][router = "seng" =>
       /\ pop'[Best(pop')].cost <= pop[Best(pop)].cost
       /\ Len(pop') = size
       /\ pick' # pick => pick'.cost = pop[Best(pop)].cost]_vars
=============================================================================
