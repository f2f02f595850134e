-------------------------------- MODULE Mesh --------------------------------
(***************************************************************************)
(* The mesh as a weighted graph (nsga/graph.cc): built from a grid or from *)
(* the rows of a link table, and searched for the nearest node of a set.   *)
(* A graph is its number of nodes and a function from links (pairs with    *)
(* the smaller end first) to what was measured on them.                    *)
(*                                                                         *)
(* The search keeps its priority queue, stale entries included, because a  *)
(* link table can hold the -1 of a link nobody measured: what the queue    *)
(* then does is the question.  D_Variant is D with a plausible mistake.    *)
(***************************************************************************)
EXTENDS Integers, FiniteSets, SequencesExt

Infinite == 1000000     \* stands for the code's infinity; above every path delay
None == -1              \* no predecessor, no parent

Key(a, b) == IF a < b THEN <<a, b>> ELSE <<b, a>>
NodesOf(g) == 0..(g.num - 1)
LinksOf(g) == DOMAIN g.link
Neighbours(g, a) == {b \in NodesOf(g) : Key(a, b) \in LinksOf(g)}
Weight(g, a, b) == g.link[Key(a, b)].delay

(* A second row for a link already there is ignored. *)
AddLink(g, a, b, l) ==
  IF Key(a, b) \in LinksOf(g) THEN g
  ELSE [g EXCEPT !.link = [k \in LinksOf(g) \cup {Key(a, b)} |->
                             IF k = Key(a, b) THEN l ELSE g.link[k]]]

(* The right and the lower neighbour of every cell. *)
GridLinks(width, height) ==
  {<<r * width + c, r * width + c + 1>> : c \in 0..(width - 2), r \in 0..(height - 1)}
    \cup {<<r * width + c, (r + 1) * width + c>> : c \in 0..(width - 1), r \in 0..(height - 2)}
FromGrid(width, height, l) ==
  [num |-> width * height, link |-> [k \in GridLinks(width, height) |-> l]]

WithRow(g, row) == AddLink(g, row.a, row.b, [delay |-> row.delay, capacity |-> row.capacity])
FromLinkTable(rows, num) ==
  LET read[n \in 0..Len(rows)] ==
        IF n = 0 THEN [num |-> num, link |-> [k \in {} |-> 0]] ELSE WithRow(read[n - 1], rows[n])
  IN  read[Len(rows)]

(* One hop away, or the node itself. *)
Hears(g, a, b) ==
  a = b \/ (a \in NodesOf(g) /\ b \in NodesOf(g) /\ Key(a, b) \in LinksOf(g))

-----------------------------------------------------------------------------
(* Dijkstra with a priority queue of <<distance, node>> pairs.             *)
Begin(g, src) ==
  [dist  |-> [v \in NodesOf(g) |-> IF v = src THEN 0 ELSE Infinite],
   prev  |-> [v \in NodesOf(g) |-> None],
   hops  |-> [v \in NodesOf(g) |-> 0],
   queue |-> {<<0, src>>}]

Top(s) == CHOOSE q \in s.queue :
            \A r \in s.queue : q[1] < r[1] \/ (q[1] = r[1] /\ q[2] <= r[2])
Stale(s) == Top(s)[1] > s.dist[Top(s)[2]]

(* A shorter way to v goes through u. *)
Improves_FirstSeen(g, s, u, v) == s.dist[v] = Infinite
Improves(g, s, u, v) == s.dist[u] + Weight(g, u, v) < s.dist[v]

Relaxed(g, s) ==
  LET u == Top(s)[2]
      better == {v \in Neighbours(g, u) : Improves(g, s, u, v)}
      dist == [v \in NodesOf(g) |-> IF v \in better THEN s.dist[u] + Weight(g, u, v)
                                                     ELSE s.dist[v]]
  IN  [dist  |-> dist,
       prev  |-> [v \in NodesOf(g) |-> IF v \in better THEN u ELSE s.prev[v]],
       hops  |-> [v \in NodesOf(g) |-> IF v \in better THEN s.hops[u] + 1 ELSE s.hops[v]],
       queue |-> (s.queue \ {Top(s)}) \cup {<<dist[v], v>> : v \in better}]

(* The first node of goal settled ends the search; an empty queue does too. *)
Ended(s, goal) == s.queue = {} \/ (~Stale(s) /\ Top(s)[2] \in goal)

(* The search after n turns of its loop. *)
Turn(g, goal, s) ==
  IF Ended(s, goal) THEN s
  ELSE IF Stale(s) THEN [s EXCEPT !.queue = @ \ {Top(s)}]
  ELSE Relaxed(g, s)
After(g, src, goal, n) ==
  LET turn[i \in 0..n] == IF i = 0 THEN Begin(g, src) ELSE Turn(g, goal, turn[i - 1])
  IN  turn[n]

(* With positive weights a node is settled once and a link pushes it at    *)
(* most once, so this many turns are enough.                               *)
Turns(g) == 2 * Cardinality(LinksOf(g)) + 1

(* prev[] followed back from a node, as long as there is a predecessor and *)
(* for no more steps than there are nodes.                                 *)
Longer(s, w) == IF s.prev[Head(w)] = None THEN w ELSE <<s.prev[Head(w)]>> \o w
Trail(s, to) ==
  LET back[i \in 0..Cardinality(DOMAIN s.prev)] == IF i = 0 THEN <<to>> ELSE Longer(s, back[i - 1])
  IN  back[Cardinality(DOMAIN s.prev)]

(* A search that has not ended by then, or whose prev[] runs in a circle,  *)
(* is caught in the code's loop for good.                                  *)
SearchEnds(g, src, goal) ==
  LET s == After(g, src, goal, Turns(g))
  IN  \/ src \in goal
      \/ s.queue = {}
      \/ Ended(s, goal) /\ s.prev[Head(Trail(s, Top(s)[2]))] = None

PathFound(s) == IF s.queue = {} THEN <<>> ELSE Trail(s, Top(s)[2])

(* The path from src to the nearest node of goal, <<>> if there is none.   *)
NearestInSet(g, src, goal) ==
  IF src \in goal THEN <<src>> ELSE PathFound(After(g, src, goal, Turns(g)))

(* Delay and hops summed over the shortest paths of all ordered pairs.     *)
AllPairsMean(g) ==
  LET from == [a \in NodesOf(g) |-> After(g, a, {}, Turns(g))]
      pairs == {p \in NodesOf(g) \X NodesOf(g) :
                  p[1] # p[2] /\ from[p[1]].dist[p[2]] < Infinite}
  IN  [delaySum |-> SumFunction([p \in pairs |-> from[p[1]].dist[p[2]]]),
       hopSum |-> SumFunction([p \in pairs |-> from[p[1]].hops[p[2]]]),
       pairs |-> Cardinality(pairs),
       connected |-> pairs # {} /\ Cardinality(pairs) = g.num * (g.num - 1)]
=============================================================================
