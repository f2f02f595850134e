------------------------------- MODULE Routes -------------------------------
(***************************************************************************)
(* From the measured link table to the packet that follows a route: the    *)
(* members are drawn (harness/main.cc, nsga/main.cc), the table is cleaned *)
(* (LinkTable) and read back as a graph (Mesh), an individual is decoded   *)
(* and scored, its trees become host routes on the nodes (SliceTrees,      *)
(* harness/internet.cc), and a flow's packet is forwarded along them.      *)
(*                                                                         *)
(* Which individual is picked does not matter here: any order of members   *)
(* may be scored and installed.  Selection is its own module.              *)
(***************************************************************************)
EXTENDS LinkTable, SliceTrees

CONSTANTS
  NumNodes,
  Tables,      \* what a sweep of all links, or of a sample, may have measured
  Requests,    \* --Me/--Mu/--Mc, all zero to derive them from the grid
  Pools        \* shuffles of the node ids

MeshNodes == 0..(NumNodes - 1)
Rows == [a : MeshNodes, b : MeshNodes, delay : Int, capacity : Int]

ASSUME NodesAssumption ==
  /\ NumNodes \in Nat \ {0}
  /\ \A p \in Pools : p \in Seq(MeshNodes) /\ ToSet(p) = MeshNodes /\ Len(p) = NumNodes
ASSUME RowsAssumption == \A t \in Tables : t \in Seq(Rows) /\ Len(t) <= NumEdges
(* Infinite is above the delay of every path. *)
ASSUME DelaysAssumption == \A t \in Tables : \A e \in DOMAIN t : NumNodes * t[e].delay < Infinite
ASSUME RequestsAssumption == Requests \subseteq [Slices -> Nat]

VARIABLES
  phase,       \* how far the run has come
  table,       \* the link table as measured
  members,     \* of each slice, in the order they were drawn
  graph,
  ind,         \* the individual: orders, counters, objectives
  routes,      \* host routes on the nodes
  packet       \* of one flow: its ends, where it is, the links it crossed

vars == <<phase, table, members, graph, ind, routes, packet>>

-----------------------------------------------------------------------------
(* Counts not given are an even quarter of the nodes each, so that a       *)
(* quarter of pure relays is left.                                         *)
Quarter == (NumNodes \div 4) - ((NumNodes \div 4) % 2)
Counts(request) ==
  IF \A s \in Slices : request[s] = 0 THEN [s \in Slices |-> Quarter] ELSE request
Accepted(request) ==
  /\ \A s \in Slices : Counts(request)[s] % 2 = 0
  /\ SumFunction(Counts(request)) <= NumNodes
  /\ \E s \in Slices : Counts(request)[s] > 0

(* The pool is cut into consecutive parts, so no node serves two slices.   *)
DrawMembers(request, pool) ==
  [s \in Slices |->
     LET before == SumFunctionOnSet(Counts(request), {x \in Slices : x < s})
     IN  SubSeq(pool, before + 1, before + Counts(request)[s])]

NoGraph == FromLinkTable(<<>>, NumNodes)
Unscored(seg) == [seg |-> seg, stranded |-> 0, saturated |-> 0, obj |-> <<0, 0, 0>>]
NoPacket == [slice |-> EMBB, src |-> None, dst |-> None, at |-> None, crossed |-> <<>>]

Init ==
  /\ phase = "measured"
  /\ table \in Tables
  /\ \E request \in Requests, pool \in Pools :
       Accepted(request) /\ members = DrawMembers(request, pool)
  /\ graph = NoGraph
  /\ ind = Unscored(members)
  /\ routes = {}
  /\ packet = NoPacket

(* writeLinkTable corrects the table in place; FromLinkTable reads it back. *)
ReadTable ==
  /\ phase = "measured"
  /\ table' = MedianCorrectOutliers(table)
  /\ graph' = FromLinkTable(table', NumNodes)
  /\ phase' = "graph"
  /\ UNCHANGED <<members, ind, routes, packet>>

Orders ==
  {BySlice(e, u, m) :
     e \in SetToSeqs(ToSet(members[EMBB])), u \in SetToSeqs(ToSet(members[URLLC])),
     m \in SetToSeqs(ToSet(members[MMTC]))}

(* A decode whose search goes round a negative cycle does not come back.   *)
Score(seg) ==
  /\ phase = "graph"
  /\ IF \A s \in Slices : DecodeEnds(graph, seg[s])
       THEN phase' = "scored" /\ ind' = Evaluate(Unscored(seg), graph, members)
       ELSE phase' = "hung" /\ UNCHANGED ind
  /\ UNCHANGED <<table, members, graph, routes, packet>>

(* The winner of the other optimiser is scored a second time. *)
Rescore ==
  /\ phase = "scored"
  /\ ind' = Evaluate(ind, graph, members)
  /\ UNCHANGED <<phase, table, members, graph, routes, packet>>

(* BuildRoutes and InjectStaticRoutes. *)
Install ==
  /\ phase = "scored"
  /\ routes' = BuildRoutes(graph, ind.seg, members)
  /\ phase' = "routed"
  /\ UNCHANGED <<table, members, graph, ind, packet>>

RoutesAt(node, dest) == {r \in routes : r.node = node /\ r.dest = dest}

(* A pair's source, or with bidir its destination, sends. *)
Send(s) ==
  /\ phase = "routed" /\ packet = NoPacket
  /\ \E i \in DOMAIN Pairs(members[s]), back \in BOOLEAN :
       LET p == Pairs(members[s])[i]
           src == IF back THEN p[2] ELSE p[1]
           dst == IF back THEN p[1] ELSE p[2]
       IN  /\ RoutesAt(src, dst) # {}
           /\ packet' = [slice |-> s, src |-> src, dst |-> dst, at |-> src, crossed |-> <<>>]
  /\ UNCHANGED <<phase, table, members, graph, ind, routes>>

(* The node's routing looks up a host route to the destination; when there *)
(* are several of one prefix length any of them may be taken.              *)
Forward ==
  /\ packet.at # packet.dst
  /\ \E r \in RoutesAt(packet.at, packet.dst) :
       packet' = [packet EXCEPT !.at = r.next, !.crossed = Append(@, Key(r.node, r.next))]
  /\ UNCHANGED <<phase, table, members, graph, ind, routes>>

Next ==
  \/ ReadTable
  \/ \E seg \in Orders : Score(seg)
  \/ Rescore \/ Install
  \/ \E s \in Slices : Send(s)
  \/ Forward

Spec == Init /\ [][Next]_vars

-----------------------------------------------------------------------------
(* Once something was measured in both columns, no hole of the sweep       *)
(* reaches the search as a negative weight: every decode comes back, and   *)
(* every capacity a utilisation is divided by is positive.                 *)
SearchesEnd ==
  MeasuredDelay(table) # {} /\ MeasuredCapacity(table) # {} =>
    /\ phase # "hung"
    /\ \A k \in LinksOf(graph) : graph.link[k].capacity > 0

(* Reference distances: the best over paths whose inner nodes are below n. *)
Direct(g) ==
  [p \in NodesOf(g) \X NodesOf(g) |->
     IF p[1] = p[2] THEN 0
     ELSE IF Key(p[1], p[2]) \in LinksOf(g) THEN Weight(g, p[1], p[2]) ELSE Infinite]
Through(g, d, k) ==
  [p \in NodesOf(g) \X NodesOf(g) |-> Least(d[p], d[<<p[1], k>>] + d[<<k, p[2]>>])]
Distances(g) ==
  LET via[n \in 0..g.num] == IF n = 0 THEN Direct(g) ELSE Through(g, via[n - 1], n - 1)
  IN  via[g.num]
PathDelay(g, path) ==
  SumFunction([i \in 1..(Len(path) - 1) |-> Weight(g, path[i], path[i + 1])])

(* Although it stops at the first member it settles, the search returns a  *)
(* path along links, to a member at least delay, and none only if there is *)
(* none; the topology's means are over the same distances.                 *)
SearchIsShortest ==
  phase = "graph" /\ MeasuredDelay(table) # {} /\ MeasuredCapacity(table) # {} =>
    LET d == Distances(graph)
        near(a, goal) == Min({d[<<a, b>>] : b \in goal})
        reached == {p \in DOMAIN d : p[1] # p[2] /\ d[p] < Infinite}
        mean == AllPairsMean(graph)
    IN  /\ \A s \in Slices, a \in NodesOf(graph) :
             LET goal == ToSet(members[s])
                 path == NearestInSet(graph, a, goal)
             IN  goal # {} =>
                 IF near(a, goal) >= Infinite THEN path = <<>>
                 ELSE /\ path # <<>> /\ path[1] = a /\ Last(path) \in goal
                      /\ \A i \in 1..(Len(path) - 1) : Key(path[i], path[i + 1]) \in LinksOf(graph)
                      /\ PathDelay(graph, path) = near(a, goal)
        /\ mean.pairs = Cardinality(reached)
        /\ mean.delaySum = SumFunction([p \in reached |-> d[p]])

(* Whatever the order, connect-order decoding grows a tree: no link twice, *)
(* one link fewer than nodes, every node's climb ends at the root.         *)
DecodesToTrees ==
  phase = "scored" =>
    \A s \in Slices : members[s] # <<>> =>
      LET t == DecodeSlice(graph, ind.seg[s]) IN
      /\ Cardinality(ToSet(t.links)) = Len(t.links)
      /\ Len(t.links) = Cardinality(t.inSet) - 1
      /\ UNION {ToSet(k) : k \in ToSet(t.links)} \subseteq t.inSet
      /\ \A n \in t.inSet : Last(Up(t, n)) = t.root

(* The violation counted is that of the individual at hand, however often  *)
(* it was scored: the members the graph does not connect to the root.      *)
ViolationIsCurrent ==
  phase \in {"scored", "routed"} /\ MeasuredDelay(table) # {} /\ MeasuredCapacity(table) # {} =>
    LET d == Distances(graph)
        cut(s) == {m \in ToSet(members[s]) : d[<<ind.seg[s][1], m>>] >= Infinite}
    IN  ind.stranded = SumFunction([s \in Slices |-> Cardinality(cut(s))])

(* On every link's neighbourhood the shares are max-min fair: nobody gets  *)
(* more than it asks, whoever gets less shares the largest share with the  *)
(* others, and then the capacity is used up but for the rounding.  With    *)
(* nothing measured in one column there may be a capacity of -1 to share.  *)
SharesAreMaxMin ==
  phase = "scored" /\ MeasuredDelay(table) # {} /\ MeasuredCapacity(table) # {} =>
    LET air == SpreadDemand(graph, Trees(graph, ind.seg), members) IN
    \A e \in air.used :
      LET a == Alloc(graph, air, e)
          short == {s \in Slices : a[s] < air.nbhd[e][s]}
      IN  /\ \A s \in Slices : a[s] <= air.nbhd[e][s]
          /\ SumFunction(a) <= graph.link[e].capacity
          /\ \A s \in short, x \in Slices : a[x] <= a[s]
          /\ short # {} => SumFunction(a) + Cardinality(short) > graph.link[e].capacity

(* A packet of any flow, in either direction, crosses exactly the links of *)
(* the path its pair was scored on, whatever other slices installed on the *)
(* nodes it passes.                                                        *)
FollowsScoredPath ==
  packet # NoPacket =>
    LET path == TreePath(DecodeSlice(graph, ind.seg[packet.slice]), packet.src, packet.dst) IN
    /\ ToSet(packet.crossed) \subseteq ToSet(path)
    /\ Len(packet.crossed) <= Len(path)
    /\ packet.at = packet.dst <=> Len(packet.crossed) = Len(path)
    /\ packet.at # packet.dst => RoutesAt(packet.at, packet.dst) # {}
=============================================================================
