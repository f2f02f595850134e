----------------------------- MODULE SliceTrees -----------------------------
(***************************************************************************)
(* What the route search makes of one individual (nsga/fitness.cc) and of  *)
(* the one that is picked (nsga/routing.cc): an order of members becomes a *)
(* tree, the trees of the three slices share the air, each pair of members *)
(* has one path, and every member one host route per node of its tree.     *)
(*                                                                         *)
(* Utilisation is in percent and rounded down, delays are in hundredths of *)
(* T0 per percent of idle air.  D_Variant is D with a plausible mistake.   *)
(***************************************************************************)
EXTENDS Mesh, Ranking

CONSTANTS
  Demand,      \* Mb/s offered by each slice
  T0,          \* delay of an idle hop
  Obj0Alloc,   \* g_obj0Alloc: score eMBB on its allocated rate
  Obj1Max      \* g_obj1Max: score URLLC on its worst pair

EMBB == 0
URLLC == 1
MMTC == 2
Slices == {EMBB, URLLC, MMTC}

ASSUME DemandAssumption == Demand \in [Slices -> Nat] /\ T0 \in Nat
ASSUME FormAssumption == Obj0Alloc \in BOOLEAN /\ Obj1Max \in BOOLEAN

BySlice(embb, urllc, mmtc) ==
  [s \in Slices |-> IF s = EMBB THEN embb ELSE IF s = URLLC THEN urllc ELSE mmtc]

Least(a, b) == IF a <= b THEN a ELSE b

(* Consecutive members talk to each other. *)
Pairs(members) ==
  [i \in 1..(Len(members) \div 2) |-> <<members[2 * i - 1], members[2 * i]>>]

-----------------------------------------------------------------------------
(* DecodeSlice: every member in turn attaches to the nearest node of the   *)
(* tree so far, and the relays on the way join too.                        *)
Seed(g, perm) ==
  [root |-> perm[1], inSet |-> {perm[1]}, links |-> <<>>,
   parent |-> [n \in NodesOf(g) |-> None]]

Attach_MemberOnly(t, path) ==
  LET hops == {i \in DOMAIN path : i < Len(path)} IN
  [t EXCEPT
     !.links = @ \o [i \in hops |-> Key(path[i], path[i + 1])],
     !.inSet = @ \cup {path[i] : i \in hops \cap {1}},
     !.parent = [n \in DOMAIN @ |->
                   IF \E i \in hops : path[i] = n /\ n \notin t.inSet
                   THEN path[1 + CHOOSE i \in hops : path[i] = n] ELSE @[n]]]
Attach(t, path) ==
  LET hops == {i \in DOMAIN path : i < Len(path)} IN
  [t EXCEPT
     !.links = @ \o [i \in hops |-> Key(path[i], path[i + 1])],
     !.inSet = @ \cup {path[i] : i \in hops},
     !.parent = [n \in DOMAIN @ |->
                   IF \E i \in hops : path[i] = n /\ n \notin t.inSet
                   THEN path[1 + CHOOSE i \in hops : path[i] = n] ELSE @[n]]]

Grown(g, t, m) == IF m \in t.inSet THEN t ELSE Attach(t, NearestInSet(g, m, t.inSet))
NoTree(g) == [root |-> 0, inSet |-> {}, links |-> <<>>, parent |-> [n \in NodesOf(g) |-> None]]
DecodeSlice(g, perm) ==
  LET grown[k \in 0..Len(perm)] ==
        IF k = 0 THEN Seed(g, perm) ELSE Grown(g, grown[k - 1], perm[k])
  IN  IF perm = <<>> THEN NoTree(g) ELSE grown[Len(perm)]

(* Whether every search of a decode comes back; the code hangs otherwise.  *)
DecodeEnds(g, perm) ==
  \A k \in 2..Len(perm) :
    LET t == DecodeSlice(g, SubSeq(perm, 1, k - 1))
    IN  SearchEnds(g, perm[k], t.inSet)

(* A node and its ancestors. *)
Climbed(t, w) == IF t.parent[Last(w)] = None THEN w ELSE Append(w, t.parent[Last(w)])
Up(t, a) ==
  LET climb[i \in 0..Cardinality(DOMAIN t.parent)] ==
        IF i = 0 THEN <<a>> ELSE Climbed(t, climb[i - 1])
  IN  climb[Cardinality(DOMAIN t.parent)]

(* Both climbs without what they share, joined at the lowest ancestor.     *)
TreePath(t, a, b) ==
  LET ua == Up(t, a)
      ub == Up(t, b)
      below(u, v) == [i \in 1..Cardinality(ToSet(u) \ ToSet(v)) |-> Key(u[i], u[i + 1])]
  IN  IF Last(ua) # Last(ub) THEN <<>> ELSE below(ua, ub) \o below(ub, ua)

-----------------------------------------------------------------------------
(* FairShare: demands at or under the equal share are met in full, and the *)
(* rest of the capacity is shared again, until no more are met.            *)
Settle_KeepsAll(s) ==
  LET fits == {i \in DOMAIN s.demand : i \notin s.settled
                 /\ s.demand[i] * (Len(s.demand) - Cardinality(s.settled)) <= s.remaining}
  IN  [s EXCEPT !.settled = @ \cup fits]
Settle(s) ==
  LET fits == {i \in DOMAIN s.demand : i \notin s.settled
                 /\ s.demand[i] * (Len(s.demand) - Cardinality(s.settled)) <= s.remaining}
  IN  [s EXCEPT !.settled = @ \cup fits,
                !.remaining = @ - SumFunctionOnSet(s.demand, fits)]

FairShare(capacity, demand) ==
  LET pass[n \in 0..Len(demand)] ==
        IF n = 0 THEN [demand |-> demand, settled |-> {}, remaining |-> capacity]
                 ELSE Settle(pass[n - 1])
      s == pass[Len(demand)]
  IN  [i \in DOMAIN demand |->
         IF i \in s.settled THEN demand[i]
         ELSE s.remaining \div (Len(demand) - Cardinality(s.settled))]

PairPaths(trees, members) ==
  LET path(t, p) == TreePath(t, p[1], p[2])
      paths(s) == [i \in DOMAIN Pairs(members[s]) |-> path(trees[s], Pairs(members[s])[i])]
  IN  BySlice(paths(EMBB), paths(URLLC), paths(MMTC))

(* The demand of every pair laid along its path, and over all links whose  *)
(* ends hear each other.                                                   *)
SpreadAlong(g, pairPaths) ==
  LET perPair(s) == IF pairPaths[s] = <<>> THEN 0 ELSE Demand[s] \div Len(pairPaths[s])
      crossing(e, s) == {i \in DOMAIN pairPaths[s] : e \in ToSet(pairPaths[s][i])}
      used == {e \in LinksOf(g) : \E s \in Slices : crossing(e, s) # {}}
      onLink == [e \in used |-> [s \in Slices |-> perPair(s) * Cardinality(crossing(e, s))]]
      near(e) == {f \in used : \E x \in ToSet(e), y \in ToSet(f) : Hears(g, x, y)}
  IN  [used |-> used, pairPaths |-> pairPaths, onLink |-> onLink,
       nbhd |-> [e \in used |-> [s \in Slices |->
                   SumFunction([f \in near(e) |-> onLink[f][s]])]],
       nch |-> [e \in used |-> Cardinality(near(e))]]
SpreadDemand(g, trees, members) == SpreadAlong(g, PairPaths(trees, members))

-----------------------------------------------------------------------------
(* Evaluate: constraint counters and objectives of one individual.         *)
Trees(g, seg) ==
  BySlice(DecodeSlice(g, seg[EMBB]), DecodeSlice(g, seg[URLLC]), DecodeSlice(g, seg[MMTC]))

(* What the slices heard around a link ask of its capacity, in percent.    *)
Utilisation(g, air, e) ==
  (100 * SumFunction(air.nbhd[e])) \div g.link[e].capacity
Busy(g, air, e) == Least(Utilisation(g, air, e), 99)
EffDelay(g, air, e) == (100 * T0) \div (100 - Busy(g, air, e))
Spare(g, air, e) == g.link[e].capacity * (100 - Busy(g, air, e))

(* The slices with demand around a link, and what each is allocated there. *)
Asking(air, e) == StableOrder([s \in {s \in Slices : air.nbhd[e][s] > 0} |-> s])
Alloc(g, air, e) ==
  LET asking == Asking(air, e)
      share == FairShare(g.link[e].capacity, [i \in DOMAIN asking |-> air.nbhd[e][asking[i]]])
  IN  [s \in Slices |-> IF s \in ToSet(asking)
                        THEN share[CHOOSE i \in DOMAIN asking : asking[i] = s] ELSE 0]

Stranded(t, members) == {m \in ToSet(members) : m # t.root /\ t.parent[m] = None}
SumOver(f(_), path) == FoldLeft(LAMBDA acc, e : acc + f(e), 0, path)

EmbbScore(g, air) ==
  LET links == UNION {ToSet(air.pairPaths[EMBB][i]) : i \in DOMAIN air.pairPaths[EMBB]}
      worth(e) == IF Obj0Alloc THEN Alloc(g, air, e)[EMBB] ELSE Spare(g, air, e)
  IN  IF links = {} THEN 0 ELSE Min({worth(e) : e \in links})

UrllcScore(g, air) ==
  LET paths == SelectSeq(air.pairPaths[URLLC], LAMBDA p : p # <<>>)
      delay(p) == SumOver(LAMBDA e : EffDelay(g, air, e), p)
      delays == [i \in DOMAIN paths |-> delay(paths[i])]
  IN  IF paths = <<>> THEN 0
      ELSE IF Obj1Max THEN Max(ToSet(delays))
      ELSE SumFunction(delays) \div Len(paths)

Saturated(g, air) == {e \in air.used : Utilisation(g, air, e) >= 100}
CutOff(trees, members) ==
  SumFunction([s \in Slices |-> Cardinality(Stranded(trees[s], members[s]))])
Judged(ind, g, cutOff, trees, air) ==
  [seg |-> ind.seg, stranded |-> cutOff, saturated |-> Cardinality(Saturated(g, air)),
   obj |-> <<EmbbScore(g, air), UrllcScore(g, air), Len(trees[MMTC].links)>>]

Evaluate_AddsUp(ind, g, members) ==
  LET trees == Trees(g, ind.seg)
  IN  Judged(ind, g, ind.stranded + CutOff(trees, members), trees,
             SpreadDemand(g, trees, members))
Evaluate(ind, g, members) ==
  LET trees == Trees(g, ind.seg)
  IN  Judged(ind, g, CutOff(trees, members), trees, SpreadDemand(g, trees, members))

(* SengCost: every link used costs e^7x of its load x, two to the power of *)
(* ten x here; a link over its capacity, or a stranded member, any amount. *)
Overload == 1000000
CostOver(ind, g, air) ==
  LET load(e) == SumFunction(air.onLink[e]) * air.nch[e]
      over == {e \in air.used : load(e) > g.link[e].capacity}
  IN  IF over # {} \/ ind.stranded > 0 THEN Overload
      ELSE SumFunction([e \in air.used |-> 2 ^ ((10 * load(e)) \div g.link[e].capacity)])
SengCost(ind, g, members) == CostOver(ind, g, SpreadDemand(g, Trees(g, ind.seg), members))

-----------------------------------------------------------------------------
(* BuildRoutes: from each member outwards over the links of its slice, the *)
(* node a node was reached from is its next hop to that member.            *)
NextHops(links, num, dest) ==
  LET adjacent(u, v) == Key(u, v) \in links
      layer[n \in 0..num] ==
        IF n = 0 THEN [v \in {dest} |-> dest]
        ELSE LET seen == layer[n - 1]
                 found == {v \in 0..(num - 1) : v \notin DOMAIN seen
                             /\ \E u \in DOMAIN seen : adjacent(u, v)}
             IN  [v \in DOMAIN seen \cup found |->
                    IF v \in found THEN CHOOSE u \in DOMAIN seen : adjacent(u, v) ELSE seen[v]]
  IN  layer[num]

BuildRoutes_AnyLink(g, seg, members) ==
  LET links == UNION {ToSet(DecodeSlice(g, seg[s]).links) : s \in Slices}
  IN  UNION {{[node |-> v, dest |-> d, next |-> NextHops(links, g.num, d)[v], slice |-> s] :
                v \in DOMAIN NextHops(links, g.num, d) \ {d}} :
               s \in Slices, d \in UNION {ToSet(members[x]) : x \in Slices}}
BuildRoutes(g, seg, members) ==
  UNION {LET links == ToSet(DecodeSlice(g, seg[s]).links) IN
         UNION {LET next == NextHops(links, g.num, d) IN
                {[node |-> v, dest |-> d, next |-> next[v], slice |-> s] :
                   v \in DOMAIN next \ {d}} :
                d \in ToSet(members[s])} :
         s \in Slices}
=============================================================================
