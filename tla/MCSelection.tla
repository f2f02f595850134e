---------------------------- MODULE MCSelection ----------------------------
(***************************************************************************)
(* One slice of four members and one of two on a two by three grid;        *)
(* populations of one to three.                                            *)
(***************************************************************************)
EXTENDS Selection, SequencesExt

Draw == [s \in 0..2 |-> IF s = 0 THEN <<0, 5, 2, 3>> ELSE IF s = 1 THEN <<1, 4>> ELSE <<>>]

(* A shuffle of the two slices that have members. *)
Shuffle(e, u) == BySlice(e, u, <<>>)
X == Shuffle(<<0, 5, 2, 3>>, <<1, 4>>)
Y == Shuffle(<<2, 0, 3, 5>>, <<1, 4>>)
SomePopulations == {<<X>>, <<X, Y>>, <<Y, Y>>, <<X, Y, Y>>}

SomeCuts == {<<3, 2>>, <<2, 2>>}
SomeSwaps == {<<1, 1>>, <<1, 2>>}

(* What the grid makes of an order, with one slow link. *)
Mesh == INSTANCE SliceTrees WITH
  Demand <- [s \in 0..2 |-> IF s = 0 THEN 4 ELSE 2], T0 <- 3, Obj0Alloc <- FALSE, Obj1Max <- FALSE
Grid == Mesh!AddLink(Mesh!AddLink([num |-> 6, link |-> [k \in {} |-> 0]],
                                  0, 1, [delay |-> 5, capacity |-> 8]),
                     4, 5, [delay |-> 1, capacity |-> 90])
FullGrid == [num |-> 6,
             link |-> [k \in Mesh!GridLinks(3, 2) |->
                         IF k \in DOMAIN Grid.link THEN Grid.link[k]
                         ELSE [delay |-> 1, capacity |-> 30]]]
ScoresOf(ind) ==
  [obj |-> ind.obj, stranded |-> ind.stranded, saturated |-> ind.saturated,
   cost |-> Mesh!SengCost(ind, FullGrid, Draw)]
OnGrid(seg) == ScoresOf(Mesh!Evaluate([seg |-> seg], FullGrid, Draw))

(* Scores by where members stand: trade-offs of every shape, ties, members *)
(* stranded and links saturated for some orders.                           *)
At(seg, n) == CHOOSE k \in 1..4 : seg[0][k] = n
Score(kind, seg) ==
  LET a == At(seg, 0)
      b == At(seg, 5)
      u == seg[1][1] - 1
      k == 4 * a + b
  IN  CASE kind = "tradeoff" ->
             [obj |-> <<(40 * k) - (k * k), k * k, k>>, stranded |-> 0, saturated |-> 0, cost |-> 30 - k]
        [] kind = "uneven" ->
             [obj |-> <<a * a, (a * a * a) + u, b>>, stranded |-> 0, saturated |-> 0, cost |-> a + b]
        [] kind = "broken" ->
             [obj |-> <<b, a, u>>, stranded |-> IF a = 4 THEN 1 ELSE 0,
              saturated |-> IF b < 3 THEN b ELSE 0, cost |-> IF b < 3 \/ a = 4 THEN Boundless ELSE a]
        [] kind = "grid" -> OnGrid(seg)
Unordered == [obj |-> <<0, 0, 0>>, stranded |-> 0, saturated |-> 0, cost |-> 0]
SegOfMembers == {Shuffle(e, u) : e \in [1..4 -> ToSet(Draw[0])], u \in [1..2 -> ToSet(Draw[1])]}
SomeLandscapes ==
  [kind \in {"tradeoff", "uneven", "broken", "grid"} |->
     [seg \in SegOfMembers |-> IF seg \in Chromosomes THEN Score(kind, seg) ELSE Unordered]]
=============================================================================
