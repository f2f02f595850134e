------------------------------ MODULE MCRoutes ------------------------------
(***************************************************************************)
(* A two by three grid of six nodes, with every link swept or a sample     *)
(* that leaves a node, or two, apart.                                      *)
(***************************************************************************)
EXTENDS Routes

AllLinks == <<<<0, 1>>, <<0, 3>>, <<1, 2>>, <<1, 4>>, <<2, 5>>, <<3, 4>>, <<4, 5>>>>
Samples == {AllLinks, <<<<0, 3>>, <<2, 5>>, <<3, 4>>, <<4, 5>>>>,
            <<<<0, 3>>, <<1, 2>>, <<1, 4>>, <<2, 5>>, <<4, 5>>>>}

(* A uniform table, or one of holes only, in which one row reads something *)
(* else (a hole, a slow link, an outlier, half a measurement) or two do.   *)
Hole == <<Unset, Unset>>
Uniform == {<<1, 20>>, Hole}
Odd == {Hole, <<3, 8>>, <<9, 2>>, <<2, Unset>>}
Row(link, read) == [a |-> link[1], b |-> link[2], delay |-> read[1], capacity |-> read[2]]
TableOf(links, m, x, o, y, p) ==
  [e \in DOMAIN links |-> Row(links[e], IF e = x THEN o ELSE IF e = y THEN p ELSE m)]
SomeTables ==
  {TableOf(AllLinks, m, x, o, x, o) : m \in Uniform, x \in 1..7, o \in Odd}
    \cup {TableOf(AllLinks, Hole, x, <<1, 20>>, y, <<3, 8>>) : x \in 1..4, y \in 5..7}
    \cup {TableOf(links, <<1, 20>>, x, <<3, 8>>, x, <<3, 8>>) : links \in Samples, x \in 1..2}

SomeRequests ==
  {[s \in Slices |-> n[s + 1]] :
     n \in {<<0, 0, 0>>, <<4, 2, 0>>, <<2, 2, 2>>, <<3, 1, 2>>, <<4, 2, 2>>}}
SomePools == {<<0, 5, 2, 3, 1, 4>>}
Demands == [s \in Slices |-> IF s = EMBB THEN 12 ELSE IF s = URLLC THEN 4 ELSE 6]
=============================================================================
