---------------------------- MODULE Routes_proofs ----------------------------
(***************************************************************************)
(* Proofs about the mesh search, the decoding and the routes, for every    *)
(* link table, number of nodes and draw of members.                        *)
(*                                                                         *)
(* A search is followed turn by turn.  Whatever the weights, prev[] leads  *)
(* along links to nodes that were reached; with positive weights a node is *)
(* settled once, at most one entry per link enters the queue, and so the   *)
(* search ends.  The clean-up of the table is what makes them positive.    *)
(* A decode attaches way after way to a tree; the share of a link is met   *)
(* pass by pass; and every route of a slice leads one link nearer to its   *)
(* destination, so a packet stays between its ends.                        *)
(***************************************************************************)
EXTENDS Routes, RankingLemmas, SequenceTheorems

(* The image of a finite set, and how small it is. *)
LEMMA Images ==
  ASSUME NEW S, IsFiniteSet(S), NEW f, DOMAIN f = S
  PROVE  /\ IsFiniteSet({f[x] : x \in S})
         /\ Cardinality({f[x] : x \in S}) <= Cardinality(S)
         /\ (\A x, y \in S : f[x] = f[y] => x = y) => Cardinality({f[x] : x \in S}) = Cardinality(S)
<1> DEFINE T == {f[x] : x \in S}
<1>0. f = [x \in S |-> f[x]] \/ TRUE
  OBVIOUS
<1> DEFINE h == [x \in S |-> f[x]]
<1>1. h \in [S -> T] /\ \A t \in T : \E x \in S : h[x] = t
  OBVIOUS
<1>2. h \in Surjection(S, T)
  BY <1>1, Fun_IsSurj
<1>3. IsFiniteSet(T) /\ Cardinality(T) <= Cardinality(S)
  BY <1>2, FS_Surjection
<1>4. ASSUME \A x, y \in S : f[x] = f[y] => x = y PROVE Cardinality(T) = Cardinality(S)
  <2>1. \A x, y \in S : h[x] = h[y] => x = y
    BY <1>4
  <2> HIDE DEF h, T
  <2> QED
    BY <1>1, <2>1, SameSize
<1> QED
  BY <1>3, <1>4

LEMMA LeastOfFinite ==
  ASSUME NEW S \in SUBSET Int, IsFiniteSet(S), S # {}
  PROVE  \E m \in S : \A n \in S : m <= n
<1> DEFINE key == [i \in S |-> i]
<1>1. key \in [S -> Int] /\ \A i \in S : key[i] = i
  OBVIOUS
<1> HIDE DEF key
<1> DEFINE m == First(key)
<1>2. m \in S /\ \A i \in S : key[m] < key[i] \/ (key[m] = key[i] /\ m <= i)
  BY <1>1, FirstIsLeast
<1> HIDE DEF m
<1>3. \A i \in S : m <= i
  BY <1>1, <1>2
<1> QED
  BY <1>2, <1>3

(* A finite set is built one element at a time. *)
LEMMA SetsGrow ==
  ASSUME NEW S, IsFiniteSet(S), NEW G, {} \in G,
         \A s \in SUBSET S : \A x \in S : s \in G /\ x \notin s => s \cup {x} \in G
  PROVE  S \in G
<1> DEFINE H == {m \in Nat : \A s \in SUBSET S : Cardinality(s) = m => s \in G}
<1>1. Cardinality(S) \in Nat
  BY FS_CardinalityType
<1>2. 0 \in H
  <2>1. ASSUME NEW s \in SUBSET S, Cardinality(s) = 0 PROVE s \in G
    <3>1. s = {}
      BY <2>1, FS_Subset, FS_EmptySet
    <3> QED
      BY <3>1
  <2> QED
    BY <2>1
<1>3. ASSUME NEW n \in 0..Cardinality(S), n # Cardinality(S), n \in H PROVE n + 1 \in H
  <2>1. ASSUME NEW s \in SUBSET S, Cardinality(s) = n + 1 PROVE s \in G
    <3>1. IsFiniteSet(s) /\ s # {}
      BY <2>1, FS_Subset, FS_EmptySet
    <3>2. PICK x \in s : TRUE
      BY <3>1
    <3>3. IsFiniteSet(s \ {x}) /\ Cardinality(s \ {x}) = n
      <4>1. Cardinality(s \ {x}) = Cardinality(s) - 1 /\ IsFiniteSet(s \ {x})
        BY <3>1, FS_RemoveElement
      <4> QED
        BY <2>1, <4>1
    <3>4. s \ {x} \in G
      BY <1>3, <3>3
    <3>5. (s \ {x}) \cup {x} = s
      OBVIOUS
    <3> QED
      BY <3>4, <3>5
  <2> QED
    BY <2>1
<1> HIDE DEF H
<1>4. 0..Cardinality(S) \subseteq H
  BY <1>1, <1>2, <1>3, UpTo
<1>5. Cardinality(S) \in H
  BY <1>1, <1>4
<1> QED
  BY <1>5 DEF H

-----------------------------------------------------------------------------
(* Sums.                                                                   *)

LEMMA SumUnfolds ==
  ASSUME NEW f, NEW S
  PROVE  SumFunctionOnSet(f, S) =
           LET iter[s \in SUBSET S] ==
                 IF s = {} THEN 0
                 ELSE LET x == CHOOSE x \in s : TRUE IN f[x] + iter[s \ {x}]
           IN  iter[S]
BY DEF SumFunctionOnSet, FoldFunctionOnSet, MapThenFoldSet

(* A function that adds up f over the subsets of S.                        *)
AddsUp(f, S, sum) ==
  /\ sum \in [SUBSET S -> Int] /\ sum[{}] = 0
  /\ \A s \in SUBSET S : \A x \in S : x \notin s => sum[s \cup {x}] = sum[s] + f[x]

LEMMA SomethingAddsUp ==
  ASSUME NEW S, IsFiniteSet(S), NEW f, \A x \in S : f[x] \in Int
  PROVE  \E sum : AddsUp(f, S, sum)
<1> DEFINE n == Cardinality(S)
<1>1. n \in Nat
  BY FS_CardinalityType
<1>2. PICK e : e \in Bijection(1..n, S)
  BY FS_CardinalityType DEF ExistsBijection
<1> HIDE DEF n
<1>3. /\ e \in [1..n -> S] /\ \A k, l \in 1..n : e[k] = e[l] => k = l
      /\ \A x \in S : \E k \in 1..n : e[k] = x
  <2>1. \A k, l \in 1..n : e[k] = e[l] => k = l
    BY <1>2, Fun_BijectionProperties
  <2>2. \A x \in S : \E k \in 1..n : e[k] = x
    BY <1>2 DEF Bijection, Surjection
  <2> QED
    BY <1>2, <2>1, <2>2, Fun_BijectionProperties
<1> DEFINE T == [SUBSET S -> Int]
           zero == [s \in SUBSET S |-> 0]
           more(k, t) == [s \in SUBSET S |-> t[s] + (IF e[k] \in s THEN f[e[k]] ELSE 0)]
           F == [k \in 1..n |-> [t \in T |-> more(k, t)]]
<1>4. zero \in T
  OBVIOUS
<1>5. F \in [1..n -> [T -> T]]
  <2>1. ASSUME NEW k \in 1..n, NEW t \in T PROVE more(k, t) \in T
    <3>1. f[e[k]] \in Int
      BY <1>3
    <3> QED
      BY <3>1
  <2> HIDE DEF T, more
  <2> QED
    BY <2>1
<1>6. \A k \in 1..n, t \in T : F[k][t] = more(k, t)
  OBVIOUS
<1> HIDE DEF T, F, zero, more
<1>7. PICK g : Iteration(T, zero, n, F, g)
  BY <1>1, <1>4, <1>5, Iterates
<1>8. /\ g \in [0..n -> T] /\ g[0] = zero
      /\ \A k \in 0..n : k # n => g[k + 1] = more(k + 1, g[k])
  <2>1. /\ g \in [0..n -> T] /\ \A k \in 0..n : g[k] = IF k = 0 THEN zero ELSE F[k][g[k - 1]]
    BY <1>7 DEF Iteration
  <2>2. g[0] = zero
    BY <1>1, <2>1
  <2>3. ASSUME NEW k \in 0..n, k # n PROVE g[k + 1] = more(k + 1, g[k])
    <3>1. k + 1 \in 1..n /\ k + 1 \in 0..n /\ k + 1 # 0 /\ k + 1 - 1 = k
      BY <1>1, <2>3
    <3>2. g[k + 1] = F[k + 1][g[k]]
      BY <2>1, <3>1
    <3> QED
      BY <1>6, <2>1, <3>1, <3>2
  <2> QED
    BY <2>1, <2>2, <2>3
<1> DEFINE part(k) == {e[l] : l \in 1..k}
           G == {k \in 0..n : /\ g[k][{}] = 0
                              /\ \A s \in SUBSET S : \A x \in S : x \notin s =>
                                   g[k][s \cup {x}] = g[k][s] + (IF x \in part(k) THEN f[x] ELSE 0)}
<1>9. 0 \in G
  <2>1. 0 \in 0..n /\ part(0) = {}
    BY <1>1
  <2>2. \A s \in SUBSET S : g[0][s] = 0
    BY <1>8 DEF zero
  <2> QED
    BY <2>1, <2>2
<1>10. ASSUME NEW k \in 0..n, k # n, k \in G PROVE k + 1 \in G
  <2>1. k + 1 \in 1..n /\ k + 1 \in 0..n
    BY <1>1, <1>10
  <2>2. e[k + 1] \in S /\ f[e[k + 1]] \in Int
    BY <1>3, <2>1
  <2>3. g[k] \in T /\ \A s \in SUBSET S : g[k][s] \in Int
    BY <1>8 DEF T
  <2>4. \A s \in SUBSET S :
          g[k + 1][s] = g[k][s] + (IF e[k + 1] \in s THEN f[e[k + 1]] ELSE 0)
    BY <1>8, <1>10 DEF more
  <2>5. part(k + 1) = part(k) \cup {e[k + 1]} /\ e[k + 1] \notin part(k)
    <3>1. 1..(k + 1) = (1..k) \cup {k + 1} /\ \A l \in 1..k : l # k + 1 /\ l \in 1..n
      BY <1>1, <2>1
    <3>2. e[k + 1] \notin part(k)
      BY <1>3, <2>1, <3>1
    <3> QED
      BY <3>1, <3>2
  <2>6. g[k + 1][{}] = 0
    BY <1>10, <2>2, <2>3, <2>4
  <2>7. ASSUME NEW s \in SUBSET S, NEW x \in S, x \notin s
        PROVE  g[k + 1][s \cup {x}] = g[k + 1][s] + (IF x \in part(k + 1) THEN f[x] ELSE 0)
    <3> DEFINE y == e[k + 1]
    <3>1. /\ g[k + 1][s \cup {x}] = g[k][s \cup {x}] + (IF y \in s \cup {x} THEN f[y] ELSE 0)
          /\ g[k + 1][s] = g[k][s] + (IF y \in s THEN f[y] ELSE 0)
          /\ g[k][s \cup {x}] = g[k][s] + (IF x \in part(k) THEN f[x] ELSE 0)
      BY <1>10, <2>4, <2>7
    <3>2. g[k][s] \in Int /\ f[x] \in Int /\ f[y] \in Int
      BY <2>2, <2>3
    <3>3. x \in part(k + 1) <=> x \in part(k) \/ x = y
      BY <2>5
    <3>4. x = y => x \notin part(k)
      BY <2>5
    <3> HIDE DEF y, part
    <3>5. CASE x = y
      <4>1. g[k + 1][s \cup {x}] = g[k][s] + f[x] /\ g[k + 1][s] = g[k][s]
        BY <2>7, <3>1, <3>2, <3>4, <3>5
      <4> QED
        BY <3>3, <3>5, <4>1
    <3>6. CASE x # y
      <4>1. y \in s \cup {x} <=> y \in s
        BY <3>6
      <4> QED
        BY <3>1, <3>2, <3>3, <3>6, <4>1
    <3> QED
      BY <3>5, <3>6
  <2> QED
    BY <2>1, <2>6, <2>7
<1> HIDE DEF G
<1>11. n \in G
  BY <1>1, <1>9, <1>10, UpTo
<1>12. part(n) = S
  BY <1>3
<1>13. AddsUp(f, S, g[n])
  <2>1. g[n] \in [SUBSET S -> Int]
    <3>1. n \in 0..n
      BY <1>1
    <3>2. g[n] \in T
      BY <1>8, <3>1
    <3> QED
      BY <3>2 DEF T
  <2>2. /\ g[n][{}] = 0
        /\ \A s \in SUBSET S : \A x \in S : x \notin s =>
             g[n][s \cup {x}] = g[n][s] + (IF x \in part(n) THEN f[x] ELSE 0)
    BY <1>11 DEF G
  <2> HIDE DEF part
  <2> QED
    BY <1>12, <2>1, <2>2 DEF AddsUp
<1> QED
  BY <1>13

(* What adds up is what the sum is. *)
LEMMA SumIs ==
  ASSUME NEW S, IsFiniteSet(S), NEW f, \A x \in S : f[x] \in Int, NEW sum, AddsUp(f, S, sum)
  PROVE  SumFunctionOnSet(f, S) = sum[S]
<1> DEFINE any(s) == CHOOSE x \in s : TRUE
           Reads(iter) == iter = [s \in SUBSET S |-> IF s = {} THEN 0
                                                     ELSE f[any(s)] + iter[s \ {any(s)}]]
           iter == CHOOSE iter : Reads(iter)
<1>1. SumFunctionOnSet(f, S) = iter[S]
  BY SumUnfolds
<1>2. sum \in [SUBSET S -> Int] /\ sum[{}] = 0
  BY DEF AddsUp
<1>3. ASSUME NEW s \in SUBSET S, s # {}
      PROVE  any(s) \in s /\ sum[s] = f[any(s)] + sum[s \ {any(s)}]
  <2>1. any(s) \in s
    BY <1>3
  <2> HIDE DEF any
  <2> DEFINE r == s \ {any(s)}
  <2>2. r \in SUBSET S /\ any(s) \notin r /\ r \cup {any(s)} = s /\ any(s) \in S
    BY <2>1
  <2>3. sum[r \cup {any(s)}] = sum[r] + f[any(s)]
    BY <2>2 DEF AddsUp
  <2>4. sum[r] \in Int /\ f[any(s)] \in Int
    BY <1>2, <2>2
  <2>5. sum[s] = f[any(s)] + sum[r]
    <3>1. PICK x : x = any(s)
      OBVIOUS
    <3>2. r \cup {x} = s /\ sum[r \cup {x}] = sum[r] + f[x] /\ sum[r] \in Int /\ f[x] \in Int
      BY <2>2, <2>3, <2>4, <3>1
    <3> HIDE DEF r
    <3>4. sum[s] = sum[r] + f[x]
      BY <3>2, Zenon
    <3>3. sum[s] = f[x] + sum[r]
      BY <3>2, <3>4
    <3> QED
      BY <3>1, <3>3
  <2> QED
    BY <2>1, <2>5
<1>4. Reads(sum)
  <2>1. \A s \in SUBSET S : sum[s] = IF s = {} THEN 0 ELSE f[any(s)] + sum[s \ {any(s)}]
    BY <1>2, <1>3
  <2> HIDE DEF any
  <2> QED
    BY <1>2, <2>1
<1>5. Reads(iter)
  BY <1>4
<1>6. \A s \in SUBSET S : iter[s] = IF s = {} THEN 0 ELSE f[any(s)] + iter[s \ {any(s)}]
  <2> HIDE DEF any, iter
  <2> QED
    BY <1>5
<1> HIDE DEF iter, Reads
<1> DEFINE H == {m \in Nat : \A s \in SUBSET S : Cardinality(s) = m => iter[s] = sum[s]}
<1>7. Cardinality(S) \in Nat
  BY FS_CardinalityType
<1>8. 0 \in H
  <2>1. ASSUME NEW s \in SUBSET S, Cardinality(s) = 0 PROVE iter[s] = sum[s]
    <3>1. s = {}
      BY <2>1, FS_Subset, FS_EmptySet
    <3> QED
      BY <1>2, <1>6, <3>1
  <2> QED
    BY <2>1
<1>9. ASSUME NEW n \in 0..Cardinality(S), n # Cardinality(S), n \in H PROVE n + 1 \in H
  <2>1. ASSUME NEW s \in SUBSET S, Cardinality(s) = n + 1 PROVE iter[s] = sum[s]
    <3>1. IsFiniteSet(s) /\ s # {}
      BY <2>1, FS_Subset, FS_EmptySet
    <3>2. any(s) \in s /\ sum[s] = f[any(s)] + sum[s \ {any(s)}]
      BY <1>3, <3>1
    <3> HIDE DEF any
    <3>3. Cardinality(s \ {any(s)}) = Cardinality(s) - 1
      BY <3>1, <3>2, FS_RemoveElement
    <3>4. Cardinality(s \ {any(s)}) = n
      BY <2>1, <3>3
    <3>5. iter[s \ {any(s)}] = sum[s \ {any(s)}]
      BY <1>9, <3>4
    <3> QED
      BY <1>6, <3>1, <3>2, <3>5
  <2> QED
    BY <2>1
<1> HIDE DEF H
<1>10. Cardinality(S) \in H
  BY <1>7, <1>8, <1>9, UpTo
<1> QED
  BY <1>1, <1>10 DEF H

LEMMA SumAdds ==
  ASSUME NEW S, IsFiniteSet(S), NEW f, \A x \in S : f[x] \in Int
  PROVE  /\ SumFunctionOnSet(f, S) \in Int
         /\ SumFunctionOnSet(f, {}) = 0
         /\ \A s \in SUBSET S : \A x \in S : x \notin s =>
              SumFunctionOnSet(f, s \cup {x}) = SumFunctionOnSet(f, s) + f[x]
<1>1. PICK sum : AddsUp(f, S, sum)
  BY SomethingAddsUp
<1>2. ASSUME NEW s \in SUBSET S PROVE SumFunctionOnSet(f, s) = sum[s]
  <2> DEFINE part == [t \in SUBSET s |-> sum[t]]
  <2>1. IsFiniteSet(s) /\ \A x \in s : f[x] \in Int
    BY FS_Subset
  <2>2. AddsUp(f, s, part)
    <3>1. part \in [SUBSET s -> Int] /\ part[{}] = 0
      BY <1>1 DEF AddsUp
    <3>2. ASSUME NEW t \in SUBSET s, NEW x \in s, x \notin t PROVE part[t \cup {x}] = part[t] + f[x]
      <4>1. t \cup {x} \in SUBSET s /\ t \in SUBSET S /\ x \in S
        OBVIOUS
      <4> QED
        BY <1>1, <3>2, <4>1 DEF AddsUp
    <3> HIDE DEF part
    <3> QED
      BY <3>1, <3>2 DEF AddsUp
  <2>3. SumFunctionOnSet(f, s) = part[s]
    <3> HIDE DEF part
    <3> QED
      BY <2>1, <2>2, SumIs
  <2> QED
    BY <2>3
<1>3. S \in SUBSET S /\ {} \in SUBSET S /\ \A s \in SUBSET S, x \in S : s \cup {x} \in SUBSET S
  OBVIOUS
<1> QED
  BY <1>1, <1>2, <1>3 DEF AddsUp

-----------------------------------------------------------------------------
(* Graphs.                                                                 *)

GraphOK(g) ==
  /\ g.num \in Nat \ {0}
  /\ IsFiniteSet(LinksOf(g)) /\ LinksOf(g) \subseteq NodesOf(g) \X NodesOf(g)
  /\ \A k \in LinksOf(g) : g.link[k].delay \in Int /\ g.link[k].capacity \in Int
Positive(g) == \A k \in LinksOf(g) : g.link[k].delay > 0

LEMMA NodesAre ==
  ASSUME NEW g, GraphOK(g)
  PROVE  /\ NodesOf(g) = 0..(g.num - 1) /\ NodesOf(g) \in SUBSET Int /\ None \notin NodesOf(g)
         /\ IsFiniteSet(NodesOf(g)) /\ Cardinality(NodesOf(g)) = g.num
         /\ \A v \in NodesOf(g) : Neighbours(g, v) \in SUBSET NodesOf(g)
<1>1. g.num \in Nat /\ g.num - 1 \in Int /\ 0 \in Int /\ g.num # 0
  BY DEF GraphOK
<1>2. IsFiniteSet(0..(g.num - 1)) /\ Cardinality(0..(g.num - 1)) = IF 0 > g.num - 1 THEN 0 ELSE g.num - 1 - 0 + 1
  BY <1>1, FS_Interval
<1>3. Cardinality(0..(g.num - 1)) = g.num
  BY <1>1, <1>2
<1> QED
  BY <1>1, <1>2, <1>3 DEF NodesOf, None, Neighbours

LEMMA WeightIs ==
  ASSUME NEW g, GraphOK(g), NEW u \in NodesOf(g), NEW v \in Neighbours(g, u)
  PROVE  /\ Weight(g, u, v) \in Int /\ Key(u, v) \in LinksOf(g) /\ v \in NodesOf(g)
         /\ u \in Neighbours(g, v) /\ Weight(g, v, u) = Weight(g, u, v) /\ Key(u, v) = Key(v, u)
         /\ Positive(g) => Weight(g, u, v) > 0
<1>1. u \in Int /\ v \in Int /\ v \in NodesOf(g)
  BY DEF Neighbours, NodesOf
<1>2. Key(u, v) = Key(v, u)
  BY <1>1 DEF Key
<1>3. Key(u, v) \in LinksOf(g)
  BY DEF Neighbours
<1> QED
  BY <1>1, <1>2, <1>3 DEF Weight, Neighbours, GraphOK, Positive

-----------------------------------------------------------------------------
(* The search.                                                             *)

Searches(g) ==
  [dist : [NodesOf(g) -> Int], prev : [NodesOf(g) -> NodesOf(g) \cup {None}],
   hops : [NodesOf(g) -> Int],
   queue : {q \in SUBSET (Int \X NodesOf(g)) : IsFiniteSet(q)}]

LEMMA TopIsLeast ==
  ASSUME NEW g, GraphOK(g), NEW s \in Searches(g), s.queue # {}
  PROVE  /\ Top(s) \in s.queue /\ Top(s) = <<Top(s)[1], Top(s)[2]>>
         /\ Top(s)[1] \in Int /\ Top(s)[2] \in NodesOf(g)
         /\ \A r \in s.queue : Top(s)[1] <= r[1]
<1> DEFINE V == NodesOf(g)
           Q == s.queue
           keys == {r[1] : r \in Q}
<1>1. Q \in SUBSET (Int \X V) /\ IsFiniteSet(Q) /\ Q # {}
  BY DEF Searches
<1>2. V \in SUBSET Int
  BY NodesAre
<1> HIDE DEF V, Q
<1>3. IsFiniteSet(keys)
  <2> DEFINE f == [r \in Q |-> r[1]]
  <2>1. DOMAIN f = Q /\ keys = {f[r] : r \in Q}
    OBVIOUS
  <2> HIDE DEF f, keys
  <2> QED
    BY <1>1, <2>1, Images
<1>4. keys \in SUBSET Int /\ keys # {}
  BY <1>1
<1>5. PICK d \in keys : \A e \in keys : d <= e
  <2> HIDE DEF keys
  <2> QED
    BY <1>3, <1>4, LeastOfFinite
<1> DEFINE nodes == {v \in V : <<d, v>> \in Q}
<1>6. nodes \in SUBSET Int /\ IsFiniteSet(nodes) /\ nodes # {}
  <2>1. nodes # {}
    <3>1. PICK r \in Q : r[1] = d
      BY <1>5
    <3>2. r = <<d, r[2]>> /\ r[2] \in V
      BY <1>1, <3>1
    <3> QED
      BY <3>2
  <2>2. IsFiniteSet(nodes)
    <3>1. IsFiniteSet(V)
      BY NodesAre DEF V
    <3> QED
      BY <3>1, FS_Subset
  <2> QED
    BY <1>2, <2>1, <2>2
<1>7. PICK v \in nodes : \A w \in nodes : v <= w
  <2> HIDE DEF nodes
  <2> QED
    BY <1>6, LeastOfFinite
<1>8. \E q \in Q : \A r \in Q : q[1] < r[1] \/ (q[1] = r[1] /\ q[2] <= r[2])
  <2>1. <<d, v>> \in Q /\ d \in Int
    BY <1>4, <1>5, <1>7
  <2>2. ASSUME NEW r \in Q PROVE d < r[1] \/ (d = r[1] /\ v <= r[2])
    <3>1. r = <<r[1], r[2]>> /\ r[1] \in Int /\ r[2] \in V /\ d <= r[1]
      BY <1>1, <1>5
    <3>2. d = r[1] => v <= r[2]
      BY <1>7, <3>1
    <3> QED
      BY <2>1, <3>1, <3>2
  <2> QED
    BY <2>1, <2>2
<1>9. Top(s) \in Q /\ \A r \in Q : Top(s)[1] < r[1] \/ (Top(s)[1] = r[1] /\ Top(s)[2] <= r[2])
  BY <1>8 DEF Top, Q
<1>10. \A r \in Q : r = <<r[1], r[2]>> /\ r[1] \in Int /\ r[2] \in V
  BY <1>1
<1>11. \A r \in Q : Top(s)[1] <= r[1]
  BY <1>9, <1>10
<1> QED
  BY <1>9, <1>10, <1>11 DEF Q, V

(* What a turn that does not end the search does, part by part. *)
LEMMA TurnDoes ==
  ASSUME NEW g, GraphOK(g), NEW goal, NEW s \in Searches(g)
  PROVE  /\ Turn(g, goal, s) \in Searches(g)
         /\ Ended(s, goal) => Turn(g, goal, s) = s
         /\ ~Ended(s, goal) /\ Stale(s) =>
              /\ Turn(g, goal, s).dist = s.dist /\ Turn(g, goal, s).prev = s.prev
              /\ Turn(g, goal, s).queue = s.queue \ {Top(s)}
         /\ ~Ended(s, goal) /\ ~Stale(s) => Turn(g, goal, s) = Relaxed(g, s)
<1> DEFINE V == NodesOf(g)
<1>1. CASE Ended(s, goal)
  BY <1>1 DEF Turn
<1>2. CASE ~Ended(s, goal) /\ Stale(s)
  <2> DEFINE t == [s EXCEPT !.queue = @ \ {Top(s)}]
  <2>1. Turn(g, goal, s) = t
    BY <1>2 DEF Turn
  <2>2. s.queue \ {Top(s)} \in {q \in SUBSET (Int \X V) : IsFiniteSet(q)}
    BY FS_Subset DEF Searches
  <2>3. t \in Searches(g) /\ t.dist = s.dist /\ t.prev = s.prev /\ t.queue = s.queue \ {Top(s)}
    BY <2>2 DEF Searches
  <2> HIDE DEF t
  <2> QED
    BY <1>2, <2>1, <2>3
<1>3. CASE ~Ended(s, goal) /\ ~Stale(s)
  <2>1. Turn(g, goal, s) = Relaxed(g, s)
    BY <1>3 DEF Turn
  <2> DEFINE u == Top(s)[2]
             better == {v \in Neighbours(g, u) : Improves(g, s, u, v)}
             dist == [v \in V |-> IF v \in better THEN s.dist[u] + Weight(g, u, v) ELSE s.dist[v]]
             prev == [v \in V |-> IF v \in better THEN u ELSE s.prev[v]]
             hops == [v \in V |-> IF v \in better THEN s.hops[u] + 1 ELSE s.hops[v]]
             queue == (s.queue \ {Top(s)}) \cup {<<dist[v], v>> : v \in better}
  <2>2. s.queue # {}
    BY <1>3 DEF Ended
  <2>3. u \in V
    BY <2>2, TopIsLeast
  <2>4. Relaxed(g, s) = [dist |-> dist, prev |-> prev, hops |-> hops, queue |-> queue]
    BY DEF Relaxed
  <2>5. /\ s.dist \in [V -> Int] /\ s.prev \in [V -> V \cup {None}] /\ s.hops \in [V -> Int]
        /\ s.queue \in SUBSET (Int \X V) /\ IsFiniteSet(s.queue)
    BY DEF Searches
  <2>6. better \in SUBSET V /\ \A v \in better : Weight(g, u, v) \in Int
    BY <2>3, NodesAre, WeightIs
  <2> HIDE DEF u, better, V
  <2>7. dist \in [V -> Int] /\ prev \in [V -> V \cup {None}] /\ hops \in [V -> Int]
    BY <2>3, <2>5, <2>6
  <2> HIDE DEF dist, prev, hops
  <2>8. queue \in SUBSET (Int \X V) /\ IsFiniteSet(queue)
    <3> DEFINE f == [v \in better |-> <<dist[v], v>>]
    <3>1. IsFiniteSet(better)
      <4>1. IsFiniteSet(V)
        BY NodesAre DEF V
      <4> QED
        BY <2>6, <4>1, FS_Subset
    <3>2. DOMAIN f = better /\ {<<dist[v], v>> : v \in better} = {f[v] : v \in better}
      OBVIOUS
    <3>3. IsFiniteSet({<<dist[v], v>> : v \in better})
      <4> HIDE DEF f
      <4> QED
        BY <3>1, <3>2, Images
    <3>4. IsFiniteSet(s.queue \ {Top(s)})
      BY <2>5, FS_Subset
    <3>5. IsFiniteSet(queue)
      BY <3>3, <3>4, FS_Union
    <3> QED
      BY <2>5, <2>6, <2>7, <3>5
  <2> HIDE DEF queue
  <2>9. Relaxed(g, s) \in Searches(g)
    BY <2>4, <2>7, <2>8 DEF Searches, V
  <2> QED
    BY <1>3, <2>1, <2>9
<1> QED
  BY <1>1, <1>2, <1>3

LEMMA BeginTyped ==
  ASSUME NEW g, GraphOK(g), NEW src \in NodesOf(g)
  PROVE  Begin(g, src) \in Searches(g)
<1>1. {<<0, src>>} \in SUBSET (Int \X NodesOf(g)) /\ IsFiniteSet({<<0, src>>})
  <2>1. IsFiniteSet({<<0, src>>})
    BY FS_Singleton
  <2>2. <<0, src>> \in Int \X NodesOf(g)
    OBVIOUS
  <2> QED
    BY <2>1, <2>2
<1>2. Infinite \in Int
  BY DEF Infinite
<1> QED
  BY <1>1, <1>2 DEF Begin, Searches

(* The states a search goes through. *)
Goes(g, goal, src, n, turn) ==
  /\ turn \in [0..n -> Searches(g)]
  /\ turn[0] = Begin(g, src) /\ turn[n] = After(g, src, goal, n)
  /\ \A i \in 0..n : i # n => turn[i + 1] = Turn(g, goal, turn[i])

LEMMA Searching ==
  ASSUME NEW g, GraphOK(g), NEW goal, NEW src \in NodesOf(g), NEW n \in Nat
  PROVE  \E turn : Goes(g, goal, src, n, turn)
<1> DEFINE S == Searches(g)
           F == [i \in 1..n |-> [s \in S |-> Turn(g, goal, s)]]
           b == Begin(g, src)
           Is(turn) == turn = [i \in 0..n |-> IF i = 0 THEN b ELSE Turn(g, goal, turn[i - 1])]
           turn == CHOOSE turn : Is(turn)
<1>1. After(g, src, goal, n) = turn[n]
  BY DEF After
<1>2. F \in [1..n -> [S -> S]] /\ \A i \in 1..n, s \in S : F[i][s] = Turn(g, goal, s)
  <2>1. \A s \in S : Turn(g, goal, s) \in S
    BY TurnDoes
  <2> HIDE DEF S
  <2> QED
    BY <2>1
<1>3. b \in S
  BY BeginTyped
<1> HIDE DEF S, F, b
<1>4. PICK h : Iteration(S, b, n, F, h)
  BY <1>2, <1>3, Iterates
<1>5. h \in [0..n -> S] /\ \A i \in 0..n : h[i] = IF i = 0 THEN b ELSE F[i][h[i - 1]]
  BY <1>4 DEF Iteration
<1>6. \A i \in 0..n : h[i] = IF i = 0 THEN b ELSE Turn(g, goal, h[i - 1])
  <2>1. ASSUME NEW i \in 0..n, i # 0 PROVE F[i][h[i - 1]] = Turn(g, goal, h[i - 1])
    <3>1. i \in 1..n /\ i - 1 \in 0..n
      BY <2>1
    <3> QED
      BY <1>2, <1>5, <3>1
  <2> QED
    BY <1>5, <2>1
<1>7. Is(h)
  BY <1>5, <1>6
<1>8. Is(turn)
  BY <1>7
<1>9. /\ DOMAIN turn = 0..n /\ \A i \in 0..n : turn[i] = IF i = 0 THEN b ELSE Turn(g, goal, turn[i - 1])
  <2> HIDE DEF turn
  <2> QED
    BY <1>8
<1> HIDE DEF turn, Is
<1> DEFINE G == {i \in 0..n : turn[i] = h[i]}
<1>10. 0 \in G
  BY <1>5, <1>9
<1>11. ASSUME NEW i \in 0..n, i # n, i \in G PROVE i + 1 \in G
  <2>1. i + 1 \in 0..n /\ i + 1 # 0 /\ i + 1 - 1 = i
    BY <1>11
  <2> QED
    BY <1>6, <1>9, <1>11, <2>1
<1>12. 0..n \subseteq G
  <2> HIDE DEF G
  <2> QED
    BY <1>10, <1>11, UpTo
<1>13. \A i \in 0..n : turn[i] = h[i]
  BY <1>12
<1>14. \A i \in 0..n : i # n => h[i + 1] = Turn(g, goal, h[i])
  <2>1. ASSUME NEW i \in 0..n, i # n PROVE h[i + 1] = Turn(g, goal, h[i])
    <3>1. i + 1 \in 0..n /\ i + 1 # 0 /\ i + 1 - 1 = i
      BY <2>1
    <3> QED
      BY <1>6, <3>1
  <2> QED
    BY <2>1
<1>15. h[0] = b /\ h[n] = turn[n]
  BY <1>5, <1>13
<1> QED
  BY <1>1, <1>5, <1>14, <1>15 DEF S, b, Goes

(* What holds at the start and is kept by every turn holds in the end.     *)
LEMMA SearchKeeps ==
  ASSUME NEW g, GraphOK(g), NEW goal, NEW src \in NodesOf(g), NEW n \in Nat, NEW G,
         Begin(g, src) \in G,
         \A s \in Searches(g) : s \in G => Turn(g, goal, s) \in G
  PROVE  After(g, src, goal, n) \in Searches(g) /\ After(g, src, goal, n) \in G
<1>0. PICK turn : Goes(g, goal, src, n, turn)
  BY Searching
<1>1. /\ turn \in [0..n -> Searches(g)]
      /\ turn[0] = Begin(g, src) /\ turn[n] = After(g, src, goal, n)
      /\ \A i \in 0..n : i # n => turn[i + 1] = Turn(g, goal, turn[i])
  BY <1>0 DEF Goes
<1> DEFINE H == {i \in 0..n : turn[i] \in G}
<1>2. 0 \in H
  BY <1>1
<1>3. ASSUME NEW i \in 0..n, i # n, i \in H PROVE i + 1 \in H
  <2>1. turn[i] \in Searches(g) /\ turn[i + 1] = Turn(g, goal, turn[i]) /\ i + 1 \in 0..n
    BY <1>1, <1>3
  <2> QED
    BY <1>3, <2>1
<1>4. 0..n \subseteq H
  <2> HIDE DEF H
  <2> QED
    BY <1>2, <1>3, UpTo
<1>5. n \in 0..n
  OBVIOUS
<1> QED
  BY <1>1, <1>4, <1>5

-----------------------------------------------------------------------------
(* What a search leaves behind, whatever the weights: prev[] follows links *)
(* from nodes that were reached and are not in the goal.                   *)
Reaches(g, goal, src, s) ==
  /\ s.dist[src] < Infinite
  /\ \A v \in NodesOf(g) :
       /\ s.prev[v] = None /\ v # src => s.dist[v] = Infinite
       /\ s.prev[v] # None => /\ v \in Neighbours(g, s.prev[v]) /\ s.prev[v] \notin goal
                              /\ s.dist[s.prev[v]] < Infinite /\ s.dist[v] < Infinite
  /\ \A q \in s.queue : s.dist[q[2]] < Infinite

LEMMA BeginReaches ==
  ASSUME NEW g, GraphOK(g), NEW goal, NEW src \in NodesOf(g)
  PROVE  Reaches(g, goal, src, Begin(g, src))
BY DEF Reaches, Begin, Infinite

LEMMA TurnReaches ==
  ASSUME NEW g, GraphOK(g), NEW goal, NEW src \in NodesOf(g), NEW s \in Searches(g),
         Reaches(g, goal, src, s)
  PROVE  Reaches(g, goal, src, Turn(g, goal, s))
<1> DEFINE V == NodesOf(g)
<1>1. CASE Ended(s, goal)
  BY <1>1, TurnDoes
<1>2. CASE ~Ended(s, goal) /\ Stale(s)
  BY <1>2, TurnDoes DEF Reaches
<1>3. CASE ~Ended(s, goal) /\ ~Stale(s)
  <2> DEFINE u == Top(s)[2]
             better == {v \in Neighbours(g, u) : Improves(g, s, u, v)}
             t == Relaxed(g, s)
  <2>1. t = Turn(g, goal, s) /\ s.queue # {} /\ u \notin goal
    BY <1>3, TurnDoes DEF Ended
  <2>2. u \in V /\ Top(s) \in s.queue
    BY <2>1, TopIsLeast
  <2>3. s.dist[u] < Infinite
    BY <2>2 DEF Reaches
  <2>4. better \in SUBSET V /\ better \subseteq Neighbours(g, u) /\ V \in SUBSET Int /\ None \notin V
    BY <2>2, NodesAre
  <2>5. \A v \in better : /\ Weight(g, u, v) \in Int
                          /\ s.dist[u] + Weight(g, u, v) < s.dist[v]
    BY <2>2, WeightIs DEF Improves
  <2>6. /\ s.dist \in [V -> Int] /\ s.prev \in [V -> V \cup {None}] /\ s.queue \in SUBSET (Int \X V)
    BY DEF Searches
  <2>7. /\ t.dist = [v \in V |-> IF v \in better THEN s.dist[u] + Weight(g, u, v) ELSE s.dist[v]]
        /\ t.prev = [v \in V |-> IF v \in better THEN u ELSE s.prev[v]]
        /\ t.queue = (s.queue \ {Top(s)}) \cup {<<t.dist[v], v>> : v \in better}
    BY DEF Relaxed
  <2> HIDE DEF u, better, t, V
  <2>8. \A v \in V : s.dist[v] <= Infinite
    <3>1. \A v \in V : s.dist[v] < Infinite \/ s.dist[v] = Infinite
      BY DEF Reaches, V
    <3> QED
      BY <2>6, <3>1 DEF Infinite
  <2>9. \A v \in V : t.dist[v] <= s.dist[v] /\ t.dist[v] \in Int
    BY <2>2, <2>5, <2>6, <2>7
  <2>10. \A v \in V : s.dist[v] < Infinite => t.dist[v] < Infinite
    BY <2>6, <2>9 DEF Infinite
  <2>11. \A v \in better : t.dist[v] < Infinite
    <3>1. ASSUME NEW v \in better PROVE t.dist[v] < Infinite
      <4>1. t.dist[v] = s.dist[u] + Weight(g, u, v) /\ v \in V
        BY <2>4, <2>7
      <4>2. s.dist[u] \in Int /\ s.dist[v] \in Int /\ Weight(g, u, v) \in Int
        BY <2>2, <2>5, <2>6, <4>1
      <4> QED
        BY <2>5, <2>8, <4>1, <4>2 DEF Infinite
    <3> QED
      BY <3>1
  <2>12. t.dist[src] < Infinite
    BY <2>10 DEF Reaches, V
  <2>13. ASSUME NEW v \in V, t.prev[v] = None, v # src PROVE t.dist[v] = Infinite
    <3>1. v \notin better
      BY <2>2, <2>4, <2>7, <2>13
    <3>2. s.prev[v] = None /\ t.dist[v] = s.dist[v]
      BY <2>7, <2>13, <3>1
    <3> QED
      BY <2>13, <3>2 DEF Reaches, V
  <2>14. ASSUME NEW v \in V, t.prev[v] # None
         PROVE  /\ v \in Neighbours(g, t.prev[v]) /\ t.prev[v] \notin goal
                /\ t.dist[t.prev[v]] < Infinite /\ t.dist[v] < Infinite
    <3>1. CASE v \in better
      <4>1. t.prev[v] = u
        BY <2>7, <3>1
      <4> QED
        BY <2>1, <2>2, <2>3, <2>4, <2>10, <2>11, <3>1, <4>1
    <3>2. CASE v \notin better
      <4>1. t.prev[v] = s.prev[v] /\ s.prev[v] \in V
        BY <2>6, <2>7, <2>14, <3>2
      <4>2. /\ v \in Neighbours(g, s.prev[v]) /\ s.prev[v] \notin goal
            /\ s.dist[s.prev[v]] < Infinite /\ s.dist[v] < Infinite
        BY <2>14, <4>1 DEF Reaches, V
      <4> QED
        BY <2>10, <4>1, <4>2
    <3> QED
      BY <3>1, <3>2
  <2>15. ASSUME NEW q \in t.queue PROVE t.dist[q[2]] < Infinite
    <3>1. CASE q \in s.queue
      <4>1. q[2] \in V /\ s.dist[q[2]] < Infinite
        BY <2>6, <3>1 DEF Reaches
      <4> QED
        BY <2>10, <4>1
    <3>2. CASE \E v \in better : q = <<t.dist[v], v>>
      BY <2>11, <3>2
    <3> QED
      BY <2>7, <3>1, <3>2
  <2>16. Reaches(g, goal, src, t)
    BY <2>12, <2>13, <2>14, <2>15 DEF Reaches, V
  <2> QED
    BY <2>1, <2>16
<1> QED
  BY <1>1, <1>2, <1>3

LEMMA SearchReaches ==
  ASSUME NEW g, GraphOK(g), NEW goal, NEW src \in NodesOf(g), NEW n \in Nat
  PROVE  After(g, src, goal, n) \in Searches(g) /\ Reaches(g, goal, src, After(g, src, goal, n))
<1> DEFINE G == {s \in Searches(g) : Reaches(g, goal, src, s)}
<1>1. Begin(g, src) \in G
  BY BeginTyped, BeginReaches
<1>2. \A s \in Searches(g) : s \in G => Turn(g, goal, s) \in G
  BY TurnReaches, TurnDoes
<1>3. After(g, src, goal, n) \in G
  <2> HIDE DEF G
  <2> QED
    BY <1>1, <1>2, SearchKeeps
<1> QED
  BY <1>3

-----------------------------------------------------------------------------
(* With positive weights a node is settled once: when it was taken from    *)
(* the queue with the distance it has.                                     *)
Settled(s) == {v \in DOMAIN s.dist : s.dist[v] < Infinite /\ <<s.dist[v], v>> \notin s.queue}

Settles(g, goal, src, s) ==
  /\ s.dist[src] = 0 /\ s.prev[src] = None
  /\ \A v \in NodesOf(g) : 0 <= s.dist[v] /\ s.dist[v] <= Infinite
  /\ \A q \in s.queue : /\ s.dist[q[2]] <= q[1]
                        /\ \A u \in Settled(s) : s.dist[u] <= q[1]
  /\ \A u \in Settled(s) :
       u \notin goal /\ \A v \in Neighbours(g, u) : s.dist[v] <= s.dist[u] + Weight(g, u, v)
  /\ \A v \in NodesOf(g) :
       s.prev[v] # None =>
         s.prev[v] \in Settled(s) /\ s.dist[v] = s.dist[s.prev[v]] + Weight(g, s.prev[v], v)

LEMMA BeginSettles ==
  ASSUME NEW g, GraphOK(g), NEW goal, NEW src \in NodesOf(g)
  PROVE  Settles(g, goal, src, Begin(g, src)) /\ Settled(Begin(g, src)) = {}
<1> DEFINE s == Begin(g, src)
<1>1. /\ s.dist = [v \in NodesOf(g) |-> IF v = src THEN 0 ELSE Infinite]
      /\ s.prev = [v \in NodesOf(g) |-> None] /\ s.queue = {<<0, src>>}
  BY DEF Begin
<1> HIDE DEF s
<1>2. Settled(s) = {}
  <2>1. DOMAIN s.dist = NodesOf(g)
    BY <1>1
  <2>2. ASSUME NEW v \in NodesOf(g), s.dist[v] < Infinite PROVE <<s.dist[v], v>> \in s.queue
    <3>1. v = src
      BY <1>1, <2>2 DEF Infinite
    <3> QED
      BY <1>1, <3>1
  <2> QED
    BY <2>1, <2>2 DEF Settled
<1> QED
  BY <1>1, <1>2 DEF Settles, Infinite, s

(* Taking u off the queue with its distance and relaxing its links, from *)
(* search state s to t.                                                    *)
Relaxation(g, goal, src, s, u, better, t) ==
  /\ u \in NodesOf(g) \ goal /\ Top(s) = <<s.dist[u], u>> /\ Top(s) \in s.queue
  /\ u \notin Settled(s) /\ s.dist[u] < Infinite
  /\ better \in SUBSET Neighbours(g, u) /\ better \in SUBSET (NodesOf(g) \ Settled(s))
  /\ u \notin better /\ src \notin better
  /\ \A v \in NodesOf(g) \ better : t.dist[v] = s.dist[v] /\ t.prev[v] = s.prev[v]
  /\ \A v \in better : /\ t.dist[v] = s.dist[u] + Weight(g, u, v) /\ t.prev[v] = u
                       /\ t.dist[v] < s.dist[v] /\ s.dist[u] < t.dist[v]
  /\ t.queue = (s.queue \ {Top(s)}) \cup {<<t.dist[v], v>> : v \in better}
  /\ Settled(t) = Settled(s) \cup {u}

(* One turn: nobody's distance grows, a stale entry is dropped, and a      *)
(* node that is taken from the queue with its distance is settled.         *)
LEMMA Relaxing ==
  ASSUME NEW g, GraphOK(g), Positive(g), NEW goal, NEW src \in NodesOf(g), NEW s \in Searches(g),
         Settles(g, goal, src, s), Reaches(g, goal, src, s), ~Ended(s, goal), ~Stale(s),
         NEW u, u = Top(s)[2], NEW better, better = {v \in Neighbours(g, u) : Improves(g, s, u, v)},
         NEW t, t = Turn(g, goal, s)
  PROVE  Relaxation(g, goal, src, s, u, better, t)
<1> DEFINE V == NodesOf(g)
<1>1. t = Relaxed(g, s) /\ s.queue # {} /\ u \notin goal /\ t \in Searches(g)
  BY TurnDoes DEF Ended
<1>2. u \in V /\ Top(s) \in s.queue /\ Top(s) = <<Top(s)[1], u>> /\ Top(s)[1] \in Int
      /\ \A r \in s.queue : Top(s)[1] <= r[1]
  BY <1>1, TopIsLeast
<1>3. /\ s.dist \in [V -> Int] /\ s.prev \in [V -> V \cup {None}] /\ s.queue \in SUBSET (Int \X V)
      /\ t.dist \in [V -> Int]
  BY <1>1 DEF Searches
<1>4. Top(s) = <<s.dist[u], u>>
  <2>1. s.dist[u] <= Top(s)[1]
    BY <1>2 DEF Settles
  <2>2. ~(Top(s)[1] > s.dist[u])
    BY DEF Stale
  <2>3. s.dist[u] \in Int
    BY <1>2, <1>3
  <2>4. Top(s)[1] = s.dist[u]
    BY <1>2, <2>1, <2>2, <2>3
  <2> QED
    BY <1>2, <2>4
<1>5. u \notin Settled(s)
  BY <1>2, <1>4 DEF Settled
<1>6. /\ better \in SUBSET Neighbours(g, u) /\ better \in SUBSET V /\ V \in SUBSET Int /\ None \notin V
  BY <1>2, NodesAre
<1>7. \A v \in Neighbours(g, u) : /\ Weight(g, u, v) \in Int /\ Weight(g, u, v) > 0
                                  /\ v \in better <=> s.dist[u] + Weight(g, u, v) < s.dist[v]
  BY <1>2, WeightIs DEF Improves
<1>8. /\ t.dist = [v \in V |-> IF v \in better THEN s.dist[u] + Weight(g, u, v) ELSE s.dist[v]]
      /\ t.prev = [v \in V |-> IF v \in better THEN u ELSE s.prev[v]]
      /\ t.queue = (s.queue \ {Top(s)}) \cup {<<t.dist[v], v>> : v \in better}
  BY <1>1 DEF Relaxed
<1>0. \A v \in V : s.dist[v] \in Int /\ t.dist[v] \in Int /\ 0 <= s.dist[v] /\ s.dist[v] <= Infinite
  BY <1>3 DEF Settles
<1> HIDE DEF V
<1>9. \A v \in better : /\ t.dist[v] = s.dist[u] + Weight(g, u, v) /\ t.prev[v] = u
                        /\ t.dist[v] < s.dist[v] /\ s.dist[u] < t.dist[v]
  <2>1. ASSUME NEW v \in better
        PROVE  /\ t.dist[v] = s.dist[u] + Weight(g, u, v) /\ t.prev[v] = u
               /\ t.dist[v] < s.dist[v] /\ s.dist[u] < t.dist[v]
    <3>1. v \in V /\ t.dist[v] = s.dist[u] + Weight(g, u, v) /\ t.prev[v] = u
      BY <1>6, <1>8
    <3>2. Weight(g, u, v) \in Int /\ Weight(g, u, v) > 0 /\ s.dist[u] + Weight(g, u, v) < s.dist[v]
      BY <1>6, <1>7
    <3>3. s.dist[u] \in Int
      BY <1>0, <1>2
    <3> QED
      BY <3>1, <3>2, <3>3
  <2> QED
    BY <2>1
<1>10. \A v \in V \ better : t.dist[v] = s.dist[v] /\ t.prev[v] = s.prev[v]
  BY <1>8
<1>11. Settled(s) \in SUBSET V /\ \A v \in Settled(s) : s.dist[v] <= s.dist[u]
  <2>1. \A v \in Settled(s) : s.dist[v] <= Top(s)[1]
    BY <1>2 DEF Settles
  <2> QED
    BY <1>3, <1>4, <2>1 DEF Settled
<1>12. \A v \in better : v \notin Settled(s) /\ v # u /\ v # src
  <2>1. ASSUME NEW v \in better PROVE v \notin Settled(s) /\ v # u /\ v # src
    <3>1. s.dist[u] < s.dist[v] /\ s.dist[u] \in Int /\ s.dist[v] \in Int /\ 0 <= s.dist[u]
      BY <1>0, <1>2, <1>6, <1>9
    <3>2. s.dist[src] = 0
      BY DEF Settles
    <3>3. v # u
      BY <3>1
    <3>4. v \notin Settled(s)
      BY <1>11, <3>1
    <3> QED
      BY <3>1, <3>2, <3>3, <3>4
  <2> QED
    BY <2>1
<1>13. s.dist[u] < Infinite
  BY <1>2 DEF Reaches
<1>14. DOMAIN s.dist = V /\ DOMAIN t.dist = V
  BY <1>3
<1>15. \A v \in better : t.dist[v] < Infinite /\ <<t.dist[v], v>> \in t.queue
  <2>1. ASSUME NEW v \in better PROVE t.dist[v] < Infinite
    <3>1. v \in V
      BY <1>6
    <3>2. t.dist[v] < s.dist[v] /\ t.dist[v] \in Int /\ s.dist[v] \in Int /\ s.dist[v] <= Infinite
      BY <1>0, <1>9, <3>1
    <3> QED
      BY <3>2 DEF Infinite
  <2> QED
    BY <1>8, <2>1
<1>16. ASSUME NEW v \in V, v \notin better, v # u
       PROVE  <<t.dist[v], v>> \in t.queue <=> <<s.dist[v], v>> \in s.queue
  <2>1. PICK q : q = <<s.dist[v], v>>
    OBVIOUS
  <2>2. t.dist[v] = s.dist[v]
    BY <1>10, <1>16
  <2>3. q # Top(s) /\ q \notin {<<t.dist[w], w>> : w \in better}
    BY <1>4, <1>16, <2>1
  <2>4. q \in t.queue <=> q \in s.queue
    BY <1>8, <2>3
  <2> QED
    BY <2>1, <2>2, <2>4
<1>17. <<t.dist[u], u>> \notin t.queue /\ t.dist[u] = s.dist[u]
  BY <1>2, <1>4, <1>8, <1>10, <1>12
<1>18. \A v \in V : v \in Settled(t) <=> v \in Settled(s) \/ v = u
  <2>1. ASSUME NEW v \in V PROVE v \in Settled(t) <=> v \in Settled(s) \/ v = u
    <3>1. CASE v = u
      BY <1>2, <1>13, <1>14, <1>17, <3>1 DEF Settled
    <3>2. CASE v \in better
      BY <1>12, <1>14, <1>15, <3>2 DEF Settled
    <3>3. CASE v # u /\ v \notin better
      BY <1>10, <1>14, <1>16, <3>3 DEF Settled
    <3> QED
      BY <3>1, <3>2, <3>3
  <2> QED
    BY <2>1
<1>19. Settled(t) = Settled(s) \cup {u}
  <2>1. Settled(t) \in SUBSET V /\ Settled(s) \in SUBSET V
    BY <1>14 DEF Settled
  <2> QED
    BY <1>2, <1>18, <2>1
<1>20. better \in SUBSET (V \ Settled(s)) /\ u \notin better /\ src \notin better
  BY <1>6, <1>12
<1> QED
  BY <1>1, <1>2, <1>4, <1>5, <1>6, <1>8, <1>9, <1>10, <1>13, <1>19, <1>20 DEF V, Relaxation

LEMMA TurnSettles ==
  ASSUME NEW g, GraphOK(g), Positive(g), NEW goal, NEW src \in NodesOf(g), NEW s \in Searches(g),
         Settles(g, goal, src, s), Reaches(g, goal, src, s)
  PROVE  Settles(g, goal, src, Turn(g, goal, s))
<1> DEFINE V == NodesOf(g)
           t == Turn(g, goal, s)
<1>1. CASE Ended(s, goal)
  BY <1>1, TurnDoes
<1>2. CASE ~Ended(s, goal) /\ Stale(s)
  <2>1. s.queue # {}
    BY <1>2 DEF Ended
  <2>2. t.dist = s.dist /\ t.prev = s.prev /\ t.queue = s.queue \ {Top(s)}
    BY <1>2, TurnDoes
  <2>3. Top(s)[1] > s.dist[Top(s)[2]] /\ Top(s)[1] \in Int /\ Top(s)[2] \in V
    BY <1>2, <2>1, TopIsLeast DEF Stale
  <2>4. \A v \in V : s.dist[v] \in Int /\ <<s.dist[v], v>> # Top(s)
    <3>1. \A v \in V : s.dist[v] \in Int
      BY DEF Searches
    <3>2. ASSUME NEW v \in V, <<s.dist[v], v>> = Top(s) PROVE FALSE
      BY <2>3, <3>1, <3>2
    <3> QED
      BY <3>1, <3>2
  <2>5. Settled(t) = Settled(s)
    <3>1. DOMAIN s.dist = V
      BY DEF Searches
    <3> QED
      BY <2>2, <2>4, <3>1 DEF Settled
  <2> HIDE DEF t
  <2>6. Settles(g, goal, src, t)
    BY <2>2, <2>5 DEF Settles
  <2> QED
    BY <2>6 DEF t
<1>3. CASE ~Ended(s, goal) /\ ~Stale(s)
  <2> DEFINE u == Top(s)[2]
             better == {v \in Neighbours(g, u) : Improves(g, s, u, v)}
  <2>1. /\ u \in V \ goal /\ Top(s) = <<s.dist[u], u>> /\ Top(s) \in s.queue
        /\ u \notin Settled(s) /\ s.dist[u] < Infinite
        /\ better \in SUBSET Neighbours(g, u) /\ better \in SUBSET (V \ Settled(s))
        /\ u \notin better /\ src \notin better
        /\ \A v \in V \ better : t.dist[v] = s.dist[v] /\ t.prev[v] = s.prev[v]
        /\ \A v \in better : /\ t.dist[v] = s.dist[u] + Weight(g, u, v) /\ t.prev[v] = u
                             /\ t.dist[v] < s.dist[v] /\ s.dist[u] < t.dist[v]
        /\ t.queue = (s.queue \ {Top(s)}) \cup {<<t.dist[v], v>> : v \in better}
        /\ Settled(t) = Settled(s) \cup {u}
    <3>1. t = Turn(g, goal, s) /\ u = Top(s)[2] /\ better = {v \in Neighbours(g, u) : Improves(g, s, u, v)}
      OBVIOUS
    <3> HIDE DEF t, u, better
    <3>2. Relaxation(g, goal, src, s, u, better, t)
      BY <1>3, <3>1, Relaxing
    <3> QED
      BY <3>2 DEF V, Relaxation
  <2>2. \A v \in Neighbours(g, u) : /\ v \in V /\ Weight(g, u, v) \in Int /\ Weight(g, u, v) > 0
                                    /\ v \in better <=> s.dist[u] + Weight(g, u, v) < s.dist[v]
    BY <2>1, WeightIs DEF Improves
  <2>3. t \in Searches(g)
    BY TurnDoes
  <2>4. s.dist \in [V -> Int] /\ t.dist \in [V -> Int] /\ s.queue \in SUBSET (Int \X V)
        /\ s.prev \in [V -> V \cup {None}] /\ V \in SUBSET Int /\ None \notin V
    BY <2>3, NodesAre DEF Searches
  <2>5. \A r \in s.queue : s.dist[u] <= r[1]
    <3>1. \A r \in s.queue : Top(s)[1] <= r[1]
      BY <2>1, TopIsLeast
    <3> QED
      BY <2>1, <3>1
  <2> HIDE DEF t, u, better, V
  <2>6. \A w \in Settled(s) : w \in V /\ s.dist[w] <= s.dist[u] /\ t.dist[w] = s.dist[w]
    <3>1. \A w \in Settled(s) : w \in V
      BY <2>4 DEF Settled
    <3>2. \A w \in Settled(s) : s.dist[w] <= Top(s)[1]
      BY <2>1 DEF Settles
    <3> QED
      BY <2>1, <3>1, <3>2
  <2>7. ASSUME NEW v \in V PROVE 0 <= t.dist[v] /\ t.dist[v] <= s.dist[v] /\ s.dist[v] <= Infinite
    <3>1. 0 <= s.dist[v] /\ s.dist[v] <= Infinite /\ 0 <= s.dist[u]
      BY <2>1, <2>7 DEF Settles, V
    <3> QED
      BY <2>1, <2>4, <3>1
  <2>8. ASSUME NEW q \in t.queue
        PROVE  /\ t.dist[q[2]] <= q[1]
               /\ \A w \in Settled(t) : t.dist[w] <= q[1]
    <3>0. t.dist[u] = s.dist[u] /\ s.dist[u] \in Int
      BY <2>1, <2>4
    <3>1. CASE q \in s.queue
      <4>1. q[2] \in V /\ q[1] \in Int /\ s.dist[q[2]] \in Int /\ t.dist[q[2]] \in Int
        BY <2>4, <3>1
      <4>2. s.dist[q[2]] <= q[1]
        BY <3>1 DEF Settles
      <4>3. t.dist[q[2]] <= s.dist[q[2]]
        BY <2>7, <4>1
      <4>4. s.dist[u] <= q[1] /\ \A w \in Settled(s) : s.dist[w] <= q[1]
        BY <2>5, <3>1 DEF Settles
      <4>5. \A w \in Settled(t) : t.dist[w] <= q[1]
        BY <2>1, <2>6, <3>0, <4>4
      <4> QED
        BY <4>1, <4>2, <4>3, <4>5
    <3>2. ASSUME NEW v \in better, q = <<t.dist[v], v>>
          PROVE  t.dist[q[2]] <= q[1] /\ \A w \in Settled(t) : t.dist[w] <= q[1]
      <4>1. v \in V /\ t.dist[v] \in Int /\ s.dist[u] < t.dist[v]
        BY <2>1, <2>4
      <4>2. t.dist[v] <= t.dist[v]
        BY <4>1
      <4>3. ASSUME NEW w \in Settled(t) PROVE t.dist[w] <= t.dist[v]
        <5>1. CASE w = u
          BY <3>0, <4>1, <5>1
        <5>2. CASE w \in Settled(s)
          <6>1. t.dist[w] <= s.dist[u] /\ t.dist[w] \in Int
            BY <2>4, <2>6, <5>2
          <6> QED
            BY <3>0, <4>1, <6>1
        <5> QED
          BY <2>1, <5>1, <5>2
      <4> QED
        BY <3>2, <4>2, <4>3
    <3> QED
      BY <2>1, <3>1, <3>2
  <2>9. ASSUME NEW w \in Settled(t)
        PROVE  w \notin goal /\ \A v \in Neighbours(g, w) : t.dist[v] <= t.dist[w] + Weight(g, w, v)
    <3>1. CASE w = u
      <4>1. t.dist[u] = s.dist[u] /\ s.dist[u] \in Int /\ u \notin goal
        BY <2>1, <2>4
      <4>2. ASSUME NEW v \in Neighbours(g, u) PROVE t.dist[v] <= t.dist[u] + Weight(g, u, v)
        <5>1. v \in V /\ s.dist[v] \in Int /\ t.dist[v] \in Int /\ Weight(g, u, v) \in Int
          BY <2>2, <2>4
        <5>2. CASE v \in better
          BY <2>1, <4>1, <5>1, <5>2
        <5>3. CASE v \notin better
          BY <2>1, <2>2, <4>1, <5>1, <5>3
        <5> QED
          BY <5>2, <5>3
      <4> QED
        BY <3>1, <4>1, <4>2
    <3>2. CASE w \in Settled(s)
      <4>1. w \notin goal /\ \A v \in Neighbours(g, w) : s.dist[v] <= s.dist[w] + Weight(g, w, v)
        BY <3>2 DEF Settles
      <4>2. w \in V /\ t.dist[w] = s.dist[w] /\ s.dist[w] \in Int
        BY <2>4, <2>6, <3>2
      <4>3. ASSUME NEW v \in Neighbours(g, w) PROVE t.dist[v] <= t.dist[w] + Weight(g, w, v)
        <5>1. v \in V /\ Weight(g, w, v) \in Int
          BY <4>2, WeightIs DEF V
        <5>2. t.dist[v] <= s.dist[v] /\ t.dist[v] \in Int /\ s.dist[v] \in Int
          BY <2>4, <2>7, <5>1
        <5>3. s.dist[v] <= s.dist[w] + Weight(g, w, v)
          BY <4>1
        <5> QED
          BY <4>2, <5>1, <5>2, <5>3
      <4> QED
        BY <4>1, <4>3
    <3> QED
      BY <2>1, <3>1, <3>2
  <2>10. ASSUME NEW v \in V, t.prev[v] # None
         PROVE  t.prev[v] \in Settled(t) /\ t.dist[v] = t.dist[t.prev[v]] + Weight(g, t.prev[v], v)
    <3>1. CASE v \in better
      BY <2>1, <3>1
    <3>2. CASE v \notin better
      <4>1. t.prev[v] = s.prev[v] /\ t.dist[v] = s.dist[v]
        BY <2>1, <3>2
      <4>2. s.prev[v] \in Settled(s) /\ s.dist[v] = s.dist[s.prev[v]] + Weight(g, s.prev[v], v)
        BY <2>10, <4>1 DEF Settles, V
      <4> QED
        BY <2>1, <2>6, <4>1, <4>2
    <3> QED
      BY <3>1, <3>2
  <2>11. t.dist[src] = 0 /\ t.prev[src] = None
    BY <2>1 DEF Settles, V
  <2>12. \A v \in V : 0 <= t.dist[v] /\ t.dist[v] <= Infinite
    <3>1. ASSUME NEW v \in V PROVE 0 <= t.dist[v] /\ t.dist[v] <= Infinite
      <4>1. s.dist[v] \in Int /\ t.dist[v] \in Int
        BY <2>4
      <4> QED
        BY <2>7, <4>1 DEF Infinite
    <3> QED
      BY <3>1
  <2>13. Settles(g, goal, src, t)
    BY <2>8, <2>9, <2>10, <2>11, <2>12 DEF Settles, V
  <2> QED
    BY <2>13 DEF t
<1> QED
  BY <1>1, <1>2, <1>3

(* What is left to do: entries in the queue, and links neither end of      *)
(* which is settled.                                                       *)
Open(g, s) == {k \in LinksOf(g) : k[1] \notin Settled(s) /\ k[2] \notin Settled(s)}
Left(g, s) == Cardinality(s.queue) + Cardinality(Open(g, s))

LEMMA LeftIs ==
  ASSUME NEW g, GraphOK(g), NEW s \in Searches(g)
  PROVE  /\ IsFiniteSet(s.queue) /\ IsFiniteSet(Open(g, s)) /\ Open(g, s) \in SUBSET LinksOf(g)
         /\ Cardinality(s.queue) \in Nat /\ Cardinality(Open(g, s)) \in Nat
         /\ Left(g, s) \in Nat
<1>1. Open(g, s) \in SUBSET LinksOf(g) /\ IsFiniteSet(LinksOf(g))
  BY DEF Open, GraphOK
<1>2. IsFiniteSet(Open(g, s)) /\ IsFiniteSet(s.queue)
  <2>1. IsFiniteSet(s.queue)
    BY DEF Searches
  <2> QED
    BY <1>1, <2>1, FS_Subset
<1>3. Cardinality(s.queue) \in Nat /\ Cardinality(Open(g, s)) \in Nat
  BY <1>2, FS_CardinalityType
<1> QED
  BY <1>1, <1>2, <1>3 DEF Left

LEMMA TurnFalls ==
  ASSUME NEW g, GraphOK(g), Positive(g), NEW goal, NEW src \in NodesOf(g), NEW s \in Searches(g),
         Settles(g, goal, src, s), Reaches(g, goal, src, s), ~Ended(s, goal)
  PROVE  Left(g, Turn(g, goal, s)) < Left(g, s)
<1> DEFINE t == Turn(g, goal, s)
           V == NodesOf(g)
<1>1. t \in Searches(g) /\ s.queue # {}
  BY TurnDoes DEF Ended
<1>2. /\ IsFiniteSet(s.queue) /\ Top(s) \in s.queue
      /\ Cardinality(s.queue) \in Nat /\ Cardinality(Open(g, s)) \in Nat
      /\ IsFiniteSet(t.queue) /\ Cardinality(t.queue) \in Nat /\ Cardinality(Open(g, t)) \in Nat
      /\ IsFiniteSet(Open(g, s)) /\ IsFiniteSet(Open(g, t))
  BY <1>1, LeftIs, TopIsLeast
<1>3. IsFiniteSet(s.queue \ {Top(s)}) /\ Cardinality(s.queue \ {Top(s)}) = Cardinality(s.queue) - 1
  BY <1>2, FS_RemoveElement
<1>4. CASE Stale(s)
  <2>1. t.dist = s.dist /\ t.prev = s.prev /\ t.queue = s.queue \ {Top(s)}
    BY <1>4, TurnDoes
  <2>2. Top(s)[1] > s.dist[Top(s)[2]] /\ Top(s)[1] \in Int /\ Top(s)[2] \in V
    BY <1>1, <1>4, TopIsLeast DEF Stale
  <2> HIDE DEF t
  <2>3. \A v \in V : s.dist[v] \in Int /\ <<s.dist[v], v>> # Top(s)
    <3>1. \A v \in V : s.dist[v] \in Int
      BY DEF Searches
    <3>2. ASSUME NEW v \in V, <<s.dist[v], v>> = Top(s) PROVE FALSE
      BY <2>2, <3>1, <3>2
    <3> QED
      BY <3>1, <3>2
  <2>4. Settled(t) = Settled(s)
    <3>1. DOMAIN s.dist = V
      BY DEF Searches
    <3> QED
      BY <2>1, <2>3, <3>1 DEF Settled
  <2>5. Open(g, t) = Open(g, s)
    BY <2>4 DEF Open
  <2>6. Left(g, t) < Left(g, s)
    BY <1>2, <1>3, <2>1, <2>5 DEF Left
  <2> QED
    BY <2>6 DEF t
<1>5. CASE ~Stale(s)
  <2> DEFINE u == Top(s)[2]
             better == {v \in Neighbours(g, u) : Improves(g, s, u, v)}
             new == {<<t.dist[v], v>> : v \in better}
             closed == {Key(u, v) : v \in better}
  <2>1. Relaxation(g, goal, src, s, u, better, t)
    <3>1. t = Turn(g, goal, s) /\ u = Top(s)[2] /\ better = {v \in Neighbours(g, u) : Improves(g, s, u, v)}
      OBVIOUS
    <3> HIDE DEF t, u, better
    <3> QED
      BY <1>5, <3>1, Relaxing
  <2> HIDE DEF u, better, t
  <2>2. /\ u \in V /\ u \notin Settled(s) /\ u \notin better
        /\ better \in SUBSET Neighbours(g, u) /\ better \in SUBSET (V \ Settled(s))
        /\ t.queue = (s.queue \ {Top(s)}) \cup new
        /\ Settled(t) = Settled(s) \cup {u}
    BY <2>1 DEF Relaxation
  <2>3. IsFiniteSet(better) /\ V \in SUBSET Int
    <3>1. IsFiniteSet(V) /\ V \in SUBSET Int
      BY NodesAre
    <3>2. better \in SUBSET V
      BY <2>2
    <3> HIDE DEF V
    <3> QED
      BY <3>1, <3>2, FS_Subset
  <2>4. IsFiniteSet(new) /\ Cardinality(new) <= Cardinality(better)
    <3> DEFINE f == [v \in better |-> <<t.dist[v], v>>]
    <3>1. DOMAIN f = better /\ new = {f[v] : v \in better}
      OBVIOUS
    <3> HIDE DEF f, new
    <3> QED
      BY <2>3, <3>1, Images
  <2>5. IsFiniteSet(closed) /\ Cardinality(closed) = Cardinality(better)
    <3> DEFINE f == [v \in better |-> Key(u, v)]
    <3>1. DOMAIN f = better /\ closed = {f[v] : v \in better}
      OBVIOUS
    <3>2. \A v, w \in better : f[v] = f[w] => v = w
      <4>1. ASSUME NEW v \in better, NEW w \in better, Key(u, v) = Key(u, w) PROVE v = w
        <5>1. u \in Int /\ v \in Int /\ w \in Int
          BY <2>2, <2>3
        <5> QED
          BY <4>1, <5>1 DEF Key
      <4> QED
        BY <4>1
    <3> HIDE DEF f, closed
    <3> QED
      BY <2>3, <3>1, <3>2, Images
  <2>6. closed \in SUBSET Open(g, s) /\ Open(g, t) \in SUBSET (Open(g, s) \ closed)
    <3>1. ASSUME NEW v \in better PROVE Key(u, v) \in Open(g, s) /\ Key(u, v) \notin Open(g, t)
      <4>1. Key(u, v) \in LinksOf(g)
        BY <2>2 DEF Neighbours
      <4>2. v \notin Settled(s) /\ u \notin Settled(s) /\ u \in Settled(t)
        BY <2>2
      <4>3. Key(u, v) = <<u, v>> \/ Key(u, v) = <<v, u>>
        BY DEF Key
      <4> QED
        BY <4>1, <4>2, <4>3 DEF Open
    <3>2. Open(g, t) \in SUBSET Open(g, s)
      BY <2>2 DEF Open
    <3> QED
      BY <3>1, <3>2
  <2> HIDE DEF new, closed
  <2>7. Cardinality(Open(g, t)) <= Cardinality(Open(g, s)) - Cardinality(better)
    <3>1. IsFiniteSet(Open(g, s) \ closed)
          /\ Cardinality(Open(g, s) \ closed) = Cardinality(Open(g, s)) - Cardinality(Open(g, s) \cap closed)
      BY <1>2, <2>5, FS_Difference
    <3>2. Open(g, s) \cap closed = closed
      BY <2>6
    <3>3. Cardinality(Open(g, t)) <= Cardinality(Open(g, s) \ closed)
      BY <2>6, <3>1, FS_Subset
    <3> QED
      BY <2>5, <3>1, <3>2, <3>3
  <2>8. Cardinality(t.queue) <= Cardinality(s.queue) - 1 + Cardinality(better)
    <3> DEFINE A == s.queue \ {Top(s)}
    <3>1. Cardinality(A \cup new) = Cardinality(A) + Cardinality(new) - Cardinality(A \cap new)
      BY <1>3, <2>4, FS_Union
    <3>2. IsFiniteSet(A \cap new) /\ Cardinality(A \cap new) \in Nat
      <4>1. IsFiniteSet(A \cap new)
        BY <2>4, FS_Subset
      <4> QED
        BY <4>1, FS_CardinalityType
    <3>3. Cardinality(new) \in Nat /\ Cardinality(better) \in Nat /\ Cardinality(A) \in Nat
      BY <1>3, <2>3, <2>4, FS_CardinalityType
    <3>4. Cardinality(A) = Cardinality(s.queue) - 1 /\ t.queue = A \cup new
      BY <1>3, <2>2
    <3> HIDE DEF A
    <3> QED
      BY <1>2, <2>4, <3>1, <3>2, <3>3, <3>4
  <2>9. Cardinality(better) \in Nat
    BY <2>3, FS_CardinalityType
  <2>10. Left(g, t) < Left(g, s)
    BY <1>2, <2>7, <2>8, <2>9 DEF Left
  <2> QED
    BY <2>10 DEF t
<1> QED
  BY <1>4, <1>5

(* So the search has ended after Turns(g) turns. *)
LEMMA SearchSettles ==
  ASSUME NEW g, GraphOK(g), Positive(g), NEW goal, NEW src \in NodesOf(g)
  PROVE  /\ After(g, src, goal, Turns(g)) \in Searches(g)
         /\ Reaches(g, goal, src, After(g, src, goal, Turns(g)))
         /\ Settles(g, goal, src, After(g, src, goal, Turns(g)))
         /\ Ended(After(g, src, goal, Turns(g)), goal)
<1> DEFINE n == Turns(g)
           links == Cardinality(LinksOf(g))
<1>1. links \in Nat /\ n = 2 * links + 1 /\ n \in Nat
  <2>1. links \in Nat
    BY FS_CardinalityType DEF GraphOK
  <2> QED
    BY <2>1 DEF Turns
<1> HIDE DEF n, links
<1>0. PICK turn : Goes(g, goal, src, n, turn)
  BY <1>1, Searching
<1>2. /\ turn \in [0..n -> Searches(g)]
      /\ turn[0] = Begin(g, src) /\ turn[n] = After(g, src, goal, n)
      /\ \A i \in 0..n : i # n => turn[i + 1] = Turn(g, goal, turn[i])
  BY <1>0 DEF Goes
<1> DEFINE Good(s) == Reaches(g, goal, src, s) /\ Settles(g, goal, src, s)
           G == {i \in 0..n : /\ Good(turn[i])
                              /\ Ended(turn[i], goal) \/ Left(g, turn[i]) + i <= 1 + links}
<1>3. 0 \in G
  <2>1. Good(turn[0]) /\ turn[0].queue = {<<0, src>>}
    BY <1>2, BeginReaches, BeginSettles DEF Begin
  <2>2. turn[0] \in Searches(g) /\ 0 \in 0..n
    BY <1>1, <1>2
  <2>3. Cardinality(Open(g, turn[0])) <= links
    <3>1. Open(g, turn[0]) \in SUBSET LinksOf(g) /\ IsFiniteSet(LinksOf(g))
      BY <2>2, LeftIs DEF GraphOK
    <3> QED
      BY <3>1, FS_Subset DEF links
  <2>4. Cardinality(turn[0].queue) = 1
    BY <2>1, FS_Singleton
  <2>5. Left(g, turn[0]) + 0 <= 1 + links
    <3>1. Cardinality(Open(g, turn[0])) \in Nat
      BY <2>2, LeftIs
    <3> QED
      BY <1>1, <2>3, <2>4, <3>1 DEF Left
  <2> HIDE DEF Good
  <2> QED
    BY <2>1, <2>2, <2>5
<1>4. ASSUME NEW i \in 0..n, i # n, i \in G PROVE i + 1 \in G
  <2> DEFINE s == turn[i]
             t == turn[i + 1]
  <2>1. i + 1 \in 0..n /\ s \in Searches(g) /\ t \in Searches(g) /\ t = Turn(g, goal, s)
    <3>1. i + 1 \in 0..n
      BY <1>1, <1>4
    <3> QED
      BY <1>2, <1>4, <3>1
  <2>2. Good(s)
    BY <1>4
  <2> HIDE DEF s, t
  <2>3. Good(t)
    BY <2>1, <2>2, TurnReaches, TurnSettles
  <2>4. Ended(t, goal) \/ Left(g, t) + (i + 1) <= 1 + links
    <3>1. CASE Ended(s, goal)
      <4>1. t = s
        BY <2>1, <3>1, TurnDoes
      <4> QED
        BY <3>1, <4>1
    <3>2. CASE ~Ended(s, goal)
      <4>1. Left(g, t) < Left(g, s)
        BY <2>1, <2>2, <3>2, TurnFalls
      <4>2. Left(g, s) + i <= 1 + links
        BY <1>4, <3>2 DEF s
      <4>3. Left(g, s) \in Nat /\ Left(g, t) \in Nat /\ i \in Int
        BY <2>1, LeftIs
      <4> QED
        BY <1>1, <4>1, <4>2, <4>3
    <3> QED
      BY <3>1, <3>2
  <2> HIDE DEF Good
  <2> QED
    BY <2>1, <2>3, <2>4 DEF t
<1>5. n \in G
  <2> HIDE DEF G
  <2> QED
    BY <1>1, <1>3, <1>4, UpTo
<1>6. turn[n] \in Searches(g) /\ Good(turn[n])
  BY <1>1, <1>2, <1>5
<1>7. Ended(turn[n], goal)
  <2>1. CASE Left(g, turn[n]) + n <= 1 + links
    <3>1. Cardinality(turn[n].queue) \in Nat /\ Cardinality(Open(g, turn[n])) \in Nat
      BY <1>6, LeftIs
    <3>2. Cardinality(turn[n].queue) = 0
      BY <1>1, <2>1, <3>1 DEF Left
    <3>3. turn[n].queue = {}
      <4>1. IsFiniteSet(turn[n].queue)
        BY <1>6, LeftIs
      <4> QED
        BY <3>2, <4>1, FS_EmptySet
    <3> QED
      BY <3>3 DEF Ended
  <2> QED
    BY <1>5, <2>1
<1> QED
  BY <1>2, <1>6, <1>7 DEF n

(* prev[] followed back: every node of w is the predecessor of the next.   *)
Chain(g, s, to, w) ==
  /\ w \in Seq(NodesOf(g)) /\ Len(w) >= 1 /\ w[Len(w)] = to
  /\ \A i \in 1..(Len(w) - 1) : s.prev[w[i + 1]] = w[i]

LEMMA LongerChain ==
  ASSUME NEW g, GraphOK(g), NEW s \in Searches(g), NEW to \in NodesOf(g), NEW w, Chain(g, s, to, w)
  PROVE  /\ Chain(g, s, to, Longer(s, w))
         /\ IF s.prev[w[1]] = None THEN Longer(s, w) = w ELSE Len(Longer(s, w)) = Len(w) + 1
<1> DEFINE V == NodesOf(g)
           p == s.prev[w[1]]
<1>1. w \in Seq(V) /\ Len(w) \in Nat /\ Len(w) >= 1 /\ Head(w) = w[1] /\ w[1] \in V
  <2>1. w \in Seq(V) /\ Len(w) \in Nat /\ Len(w) >= 1
    BY DEF Chain
  <2>2. 1 \in 1..Len(w)
    BY <2>1
  <2> QED
    BY <2>1, <2>2, ElementOfSeq
<1>2. CASE p = None
  BY <1>1, <1>2 DEF Longer
<1>3. CASE p # None
  <2> DEFINE x == <<p>> \o w
  <2>1. p \in V
    BY <1>1, <1>3 DEF Searches
  <2>2. Longer(s, w) = x
    BY <1>1, <1>3 DEF Longer
  <2>3. /\ <<p>> \in Seq(V) /\ Len(<<p>>) = 1 /\ <<p>>[1] = p
    BY <2>1
  <2>4. /\ x \in Seq(V) /\ Len(x) = Len(w) + 1
        /\ \A i \in 1..(Len(w) + 1) : x[i] = IF i <= 1 THEN p ELSE w[i - 1]
    <3>1. /\ x \in Seq(V) /\ Len(x) = Len(<<p>>) + Len(w)
          /\ \A i \in 1..(Len(<<p>>) + Len(w)) :
               x[i] = IF i <= Len(<<p>>) THEN <<p>>[i] ELSE w[i - Len(<<p>>)]
      BY <1>1, <2>3, ConcatProperties
    <3> HIDE DEF x, p
    <3>2. Len(x) = Len(w) + 1
      BY <1>1, <2>3, <3>1
    <3>3. ASSUME NEW i \in 1..(Len(w) + 1) PROVE x[i] = IF i <= 1 THEN p ELSE w[i - 1]
      <4>1. i \in 1..(Len(<<p>>) + Len(w))
        BY <1>1, <2>3
      <4>2. x[i] = IF i <= Len(<<p>>) THEN <<p>>[i] ELSE w[i - Len(<<p>>)]
        BY <3>1, <4>1
      <4>3. i <= 1 => i = 1
        BY <1>1
      <4> QED
        BY <2>3, <4>2, <4>3
    <3> QED
      BY <3>1, <3>2, <3>3
  <2> HIDE DEF x
  <2>5. x[1] = p /\ x[Len(x)] = w[Len(w)]
    BY <1>1, <2>4
  <2>6. ASSUME NEW i \in 1..(Len(x) - 1) PROVE s.prev[x[i + 1]] = x[i]
    <3>1. i \in Int /\ i >= 1 /\ i <= Len(w)
      BY <1>1, <2>4
    <3>2. x[i + 1] = w[i]
      BY <1>1, <2>4, <3>1
    <3>3. CASE i = 1
      BY <2>5, <3>2, <3>3
    <3>4. CASE i # 1
      <4>1. i - 1 \in 1..(Len(w) - 1) /\ i - 1 + 1 = i
        BY <1>1, <3>1, <3>4
      <4>2. s.prev[w[i]] = w[i - 1]
        BY <4>1 DEF Chain
      <4>3. x[i] = w[i - 1]
        BY <1>1, <2>4, <3>1, <3>4
      <4> QED
        BY <3>2, <4>2, <4>3
    <3> QED
      BY <3>3, <3>4
  <2>7. Len(x) >= 1 /\ x[Len(x)] = to
    BY <1>1, <2>4, <2>5 DEF Chain
  <2>8. Chain(g, s, to, x)
    BY <2>4, <2>6, <2>7 DEF Chain
  <2> QED
    BY <1>3, <2>2, <2>4, <2>8
<1> QED
  BY <1>2, <1>3

LEMMA TrailIs ==
  ASSUME NEW g, GraphOK(g), NEW s \in Searches(g), NEW to \in NodesOf(g)
  PROVE  /\ Chain(g, s, to, Trail(s, to)) /\ Len(Trail(s, to)) <= g.num + 1
         /\ s.prev[Trail(s, to)[1]] = None \/ Len(Trail(s, to)) = g.num + 1
<1> DEFINE V == NodesOf(g)
           n == g.num
           S == {w \in Seq(V) : Chain(g, s, to, w)}
           F == [i \in 1..n |-> [w \in S |-> Longer(s, w)]]
           b == <<to>>
           Is(back) == back = [i \in 0..n |-> IF i = 0 THEN b ELSE Longer(s, back[i - 1])]
           back == CHOOSE back : Is(back)
<1>1. n \in Nat /\ Cardinality(DOMAIN s.prev) = n
  <2>1. DOMAIN s.prev = V
    BY DEF Searches
  <2> QED
    BY <2>1, NodesAre DEF GraphOK
<1>2. Trail(s, to) = back[n]
  BY <1>1 DEF Trail
<1>3. b \in S /\ Len(b) = 1 /\ Chain(g, s, to, b)
  <2>1. b \in Seq(V) /\ Len(b) = 1 /\ b[1] = to
    OBVIOUS
  <2> HIDE DEF b
  <2>2. Chain(g, s, to, b)
    BY <2>1 DEF Chain
  <2> QED
    BY <2>1, <2>2
<1>4. \A w \in S : Chain(g, s, to, w) /\ Longer(s, w) \in S
  BY LongerChain DEF Chain
<1>5. F \in [1..n -> [S -> S]] /\ \A i \in 1..n, w \in S : F[i][w] = Longer(s, w)
  <2> HIDE DEF S
  <2> QED
    BY <1>4
<1> HIDE DEF S, F, b, n
<1>6. PICK h : Iteration(S, b, n, F, h)
  BY <1>1, <1>3, <1>5, Iterates
<1>7. h \in [0..n -> S] /\ \A i \in 0..n : h[i] = IF i = 0 THEN b ELSE F[i][h[i - 1]]
  BY <1>6 DEF Iteration
<1>8. \A i \in 0..n : h[i] = IF i = 0 THEN b ELSE Longer(s, h[i - 1])
  <2>1. ASSUME NEW i \in 0..n, i # 0 PROVE F[i][h[i - 1]] = Longer(s, h[i - 1])
    <3>1. i \in 1..n /\ i - 1 \in 0..n
      BY <1>1, <2>1
    <3> QED
      BY <1>5, <1>7, <3>1
  <2> QED
    BY <1>7, <2>1
<1>9. Is(h)
  BY <1>7, <1>8
<1>10. Is(back)
  BY <1>9
<1>11. DOMAIN back = 0..n /\ \A i \in 0..n : back[i] = IF i = 0 THEN b ELSE Longer(s, back[i - 1])
  <2> HIDE DEF back
  <2> QED
    BY <1>10
<1> HIDE DEF back, Is
<1> DEFINE G == {i \in 0..n : /\ Chain(g, s, to, back[i]) /\ Len(back[i]) <= i + 1
                              /\ s.prev[back[i][1]] = None \/ Len(back[i]) = i + 1}
<1>12. 0 \in G
  <2>1. 0 \in 0..n
    BY <1>1
  <2>2. back[0] = b
    BY <1>11, <2>1
  <2>3. Chain(g, s, to, back[0]) /\ Len(back[0]) <= 0 + 1 /\ Len(back[0]) = 0 + 1
    <3>1. Chain(g, s, to, back[0]) /\ Len(back[0]) = 1
      BY <1>3, <2>2
    <3> HIDE DEF Is
    <3> QED
      BY <3>1
  <2> QED
    BY <2>1, <2>3
<1>13. ASSUME NEW i \in 0..n, i # n, i \in G PROVE i + 1 \in G
  <2> DEFINE w == back[i]
             x == back[i + 1]
  <2>1. i + 1 \in 0..n /\ i + 1 # 0 /\ i + 1 - 1 = i
    BY <1>1, <1>13
  <2>2. x = Longer(s, w)
    BY <1>11, <2>1
  <2>3. Chain(g, s, to, w) /\ Len(w) <= i + 1 /\ (s.prev[w[1]] = None \/ Len(w) = i + 1)
    BY <1>13
  <2> HIDE DEF w, x
  <2>4. /\ Chain(g, s, to, x)
        /\ IF s.prev[w[1]] = None THEN x = w ELSE Len(x) = Len(w) + 1
    BY <2>2, <2>3, LongerChain
  <2>5. Len(w) \in Nat /\ Len(x) \in Nat
    BY <2>3, <2>4 DEF Chain
  <2>6. Len(x) <= i + 1 + 1 /\ (s.prev[x[1]] = None \/ Len(x) = i + 1 + 1)
    BY <2>3, <2>4, <2>5
  <2> QED
    BY <2>1, <2>4, <2>6 DEF x
<1>14. 0..n \subseteq G
  <2> HIDE DEF G
  <2> QED
    BY <1>1, <1>12, <1>13, UpTo
<1>15. n \in G
  BY <1>1, <1>14
<1> QED
  BY <1>2, <1>15 DEF n

(* A chain that visits no node twice is no longer than the nodes are many. *)
LEMMA ShortChain ==
  ASSUME NEW g, GraphOK(g), NEW w \in Seq(NodesOf(g)),
         \A i, j \in 1..Len(w) : i < j => w[i] # w[j]
  PROVE  Len(w) <= g.num
<1> DEFINE V == NodesOf(g)
           D == 1..Len(w)
<1>1. Len(w) \in Nat /\ w \in [D -> V]
  BY LenProperties
<1>2. IsFiniteSet(D) /\ Cardinality(D) = Len(w)
  BY <1>1, FS_Interval
<1>3. IsFiniteSet(V) /\ Cardinality(V) = g.num /\ g.num \in Nat
  BY NodesAre DEF GraphOK
<1>4. \A x, y \in D : x # y => w[x] # w[y]
  <2>1. ASSUME NEW x \in D, NEW y \in D, x # y PROVE w[x] # w[y]
    <3>1. x < y \/ y < x
      BY <1>1, <2>1
    <3> QED
      BY <3>1
  <2> QED
    BY <2>1
<1> HIDE DEF V, D
<1>5. ~(Cardinality(V) < Cardinality(D))
  <2>1. ASSUME Cardinality(V) < Cardinality(D) PROVE FALSE
    <3>1. PICK x, y \in D : x # y /\ w[x] = w[y]
      BY <1>1, <1>2, <1>3, <2>1, FS_PigeonHole
    <3> QED
      BY <1>4, <3>1
  <2> QED
    BY <2>1
<1> QED
  BY <1>1, <1>2, <1>3, <1>5

(* With positive weights the distance rises along a trail, which so ends   *)
(* at the source.                                                          *)
LEMMA TrailRises ==
  ASSUME NEW g, GraphOK(g), Positive(g), NEW goal, NEW src \in NodesOf(g), NEW s \in Searches(g),
         Settles(g, goal, src, s), Reaches(g, goal, src, s),
         NEW to \in NodesOf(g), s.dist[to] < Infinite
  PROVE  /\ Chain(g, s, to, Trail(s, to)) /\ Trail(s, to)[1] = src
         /\ s.prev[Trail(s, to)[1]] = None
<1> DEFINE w == Trail(s, to)
           V == NodesOf(g)
<1>1. Chain(g, s, to, w) /\ Len(w) <= g.num + 1 /\ (s.prev[w[1]] = None \/ Len(w) = g.num + 1)
  BY TrailIs
<1> HIDE DEF w
<1>2. w \in Seq(V) /\ Len(w) \in Nat /\ Len(w) >= 1 /\ w[Len(w)] = to /\ \A i \in 1..Len(w) : w[i] \in V
  <2>1. w \in Seq(V) /\ Len(w) \in Nat
    BY <1>1 DEF Chain
  <2> QED
    BY <1>1, <2>1, ElementOfSeq DEF Chain
<1>3. \A v \in V : s.dist[v] \in Int
  BY DEF Searches
<1>4. ASSUME NEW i \in 1..(Len(w) - 1) PROVE s.dist[w[i]] < s.dist[w[i + 1]]
  <2>1. w[i] \in V /\ w[i + 1] \in V /\ s.prev[w[i + 1]] = w[i]
    <3>1. i \in 1..Len(w) /\ i + 1 \in 1..Len(w)
      <4>1. Len(w) \in Nat
        BY <1>2
      <4> QED
        BY <4>1
    <3> QED
      BY <1>1, <1>2, <3>1 DEF Chain
  <2>2. s.prev[w[i + 1]] # None
    BY <2>1, NodesAre
  <2>3. s.dist[w[i + 1]] = s.dist[w[i]] + Weight(g, w[i], w[i + 1]) /\ w[i + 1] \in Neighbours(g, w[i])
    BY <2>1, <2>2 DEF Settles, Reaches
  <2>4. Weight(g, w[i], w[i + 1]) \in Int /\ Weight(g, w[i], w[i + 1]) > 0
    BY <2>1, <2>3, WeightIs
  <2> QED
    BY <1>3, <2>1, <2>3, <2>4
<1>5. ASSUME NEW i \in 1..Len(w) PROVE \A j \in 1..Len(w) : i < j => s.dist[w[i]] < s.dist[w[j]]
  <2> DEFINE m == Len(w) - i
             G == {k \in 0..m : k = 0 \/ s.dist[w[i]] < s.dist[w[i + k]]}
  <2>1. m \in Nat /\ i \in Nat /\ i >= 1 /\ i <= Len(w)
    BY <1>2
  <2>2. 0 \in G
    BY <2>1
  <2>3. ASSUME NEW k \in 0..m, k # m, k \in G PROVE k + 1 \in G
    <3>1. i + k \in 1..(Len(w) - 1) /\ i + k + 1 = i + (k + 1) /\ k + 1 \in 0..m
      BY <1>2, <2>1, <2>3
    <3>2. s.dist[w[i + k]] < s.dist[w[i + (k + 1)]]
      BY <1>4, <3>1
    <3>3. /\ s.dist[w[i]] \in Int /\ s.dist[w[i + k]] \in Int /\ s.dist[w[i + (k + 1)]] \in Int
      <4>1. i + k \in 1..Len(w) /\ i + (k + 1) \in 1..Len(w)
        BY <1>2, <3>1
      <4> QED
        BY <1>2, <1>3, <4>1
    <3>4. k = 0 => s.dist[w[i]] = s.dist[w[i + k]]
      BY <2>1
    <3>5. s.dist[w[i]] < s.dist[w[i + (k + 1)]]
      BY <2>3, <3>2, <3>3, <3>4
    <3> QED
      BY <3>1, <3>5
  <2>4. 0..m \subseteq G
    <3> HIDE DEF G, m
    <3> QED
      BY <2>1, <2>2, <2>3, UpTo
  <2>5. ASSUME NEW j \in 1..Len(w), i < j PROVE s.dist[w[i]] < s.dist[w[j]]
    <3>1. j - i \in 0..m /\ j - i # 0 /\ i + (j - i) = j
      BY <1>2, <2>1, <2>5
    <3>2. j - i \in G
      BY <2>4, <3>1
    <3> QED
      BY <3>1, <3>2
  <2> QED
    BY <2>5
<1>6. \A i, j \in 1..Len(w) : i < j => w[i] # w[j]
  <2>1. ASSUME NEW i \in 1..Len(w), NEW j \in 1..Len(w), i < j, w[i] = w[j] PROVE FALSE
    <3>1. s.dist[w[i]] < s.dist[w[j]] /\ s.dist[w[i]] \in Int
      BY <1>2, <1>3, <1>5, <2>1
    <3> QED
      BY <2>1, <3>1
  <2> QED
    BY <2>1
<1>7. Len(w) <= g.num
  BY <1>2, <1>6, ShortChain
<1>8. s.prev[w[1]] = None
  BY <1>1, <1>2, <1>7 DEF GraphOK
<1>9. w[1] \in V /\ s.dist[w[1]] < Infinite
  <2>1. CASE Len(w) = 1
    BY <1>2, <2>1
  <2>2. CASE Len(w) # 1
    <3>1. 1 \in 1..Len(w) /\ Len(w) \in 1..Len(w) /\ 1 < Len(w)
      <4>1. Len(w) \in Nat /\ Len(w) >= 1
        BY <1>2
      <4> QED
        <5>1. PICK n \in Nat : n = Len(w) /\ n >= 1 /\ n # 1
          BY <2>2, <4>1
        <5>2. 1 \in 1..n /\ n \in 1..n /\ 1 < n
          BY <5>1
        <5> QED
          BY <5>1, <5>2
    <3>2. s.dist[w[1]] < s.dist[w[Len(w)]]
      BY <1>5, <3>1
    <3> QED
      BY <1>2, <1>3, <3>1, <3>2 DEF Infinite
  <2> QED
    BY <2>1, <2>2
<1>10. w[1] = src
  BY <1>3, <1>8, <1>9 DEF Reaches, Infinite
<1> QED
  BY <1>1, <1>8, <1>10 DEF w

(* Every search over positive weights comes back. *)
LEMMA PositiveEnds ==
  ASSUME NEW g, GraphOK(g), Positive(g), NEW goal, NEW src \in NodesOf(g)
  PROVE  SearchEnds(g, src, goal)
<1> DEFINE s == After(g, src, goal, Turns(g))
<1>1. s \in Searches(g) /\ Reaches(g, goal, src, s) /\ Settles(g, goal, src, s) /\ Ended(s, goal)
  BY SearchSettles
<1> HIDE DEF s
<1>2. CASE s.queue # {}
  <2>1. Top(s) \in s.queue /\ Top(s)[2] \in NodesOf(g)
    BY <1>1, <1>2, TopIsLeast
  <2>2. s.dist[Top(s)[2]] < Infinite
    BY <1>1, <2>1 DEF Reaches
  <2>3. s.prev[Trail(s, Top(s)[2])[1]] = None /\ Chain(g, s, Top(s)[2], Trail(s, Top(s)[2]))
    BY <1>1, <2>1, <2>2, TrailRises
  <2>4. Head(Trail(s, Top(s)[2])) = Trail(s, Top(s)[2])[1]
    <3>1. Trail(s, Top(s)[2]) \in Seq(NodesOf(g)) /\ Len(Trail(s, Top(s)[2])) >= 1
      BY <2>3 DEF Chain
    <3> QED
      BY <3>1
  <2> QED
    BY <1>1, <2>3, <2>4 DEF SearchEnds, s
<1> QED
  BY <1>2 DEF SearchEnds, s

(* A median is one of the values. *)
LEMMA MedianIsValue ==
  ASSUME NEW D \in SUBSET Int, NEW f \in [D -> Int], NEW S \in SUBSET D, IsFiniteSet(S), S # {}
  PROVE  Median(f, S) \in {f[e] : e \in S}
<1> DEFINE key == [e \in S |-> f[e]]
           n == Cardinality(S)
           h == n \div 2
           i == StableOrder(key)[h + 1]
           below == {e \in S : f[e] < f[i]}
           upto == {e \in S : f[e] <= f[i]}
<1>1. S \in SUBSET Int /\ key \in [S -> Int] /\ \A e \in S : key[e] = f[e] /\ f[e] \in Int
  OBVIOUS
<1>2. n \in Nat /\ n # 0
  BY FS_CardinalityType, FS_EmptySet
<1>3. h \in Nat /\ h + 1 \in 1..n
  BY <1>2
<1> HIDE DEF key, n, h
<1>4. i \in S /\ Cardinality(Before(key, i)) = h
  BY <1>1, <1>3, OrderLists DEF n
<1> HIDE DEF i
<1>5. Before(key, i) \in SUBSET S /\ i \notin Before(key, i) /\ below \in SUBSET Before(key, i)
      /\ Before(key, i) \cup {i} \in SUBSET upto
  <2>1. DOMAIN key = S
    BY <1>1
  <2>2. \A e \in S : e \in Before(key, i) <=> key[e] < key[i] \/ (key[e] = key[i] /\ e < i)
    BY <2>1 DEF Before
  <2>3. \A e \in Before(key, i) : e \in S
    BY <2>1 DEF Before
  <2>4. \A e \in Before(key, i) : f[e] <= f[i]
    <3>1. ASSUME NEW e \in S, e \in Before(key, i) PROVE f[e] <= f[i]
      <4>1. key[e] <= key[i]
        <5>1. key[e] \in Int /\ key[i] \in Int
          BY <1>1, <1>4
        <5>2. key[e] < key[i] \/ key[e] = key[i]
          BY <2>2, <3>1
        <5> QED
          BY <5>1, <5>2
      <4> QED
        BY <1>1, <1>4, <4>1
    <3> QED
      BY <2>3, <3>1
  <2>5. f[i] <= f[i]
    BY <1>1, <1>4
  <2>6. i \notin Before(key, i)
    BY <1>1, <1>4, <2>2
  <2> QED
    BY <1>1, <1>4, <2>2, <2>3, <2>4, <2>5, <2>6
<1>6. IsFiniteSet(Before(key, i)) /\ IsFiniteSet(upto) /\ upto \in SUBSET S
  BY <1>5, FS_Subset
<1> HIDE DEF below, upto
<1>7. Cardinality(below) <= h
  BY <1>4, <1>5, <1>6, FS_Subset
<1>8. Cardinality(upto) > h
  <2>1. Cardinality(Before(key, i) \cup {i}) = h + 1
    <3>1. Cardinality(Before(key, i) \cup {i}) = Cardinality(Before(key, i)) + 1
      <4>1. i \notin Before(key, i) /\ IsFiniteSet(Before(key, i))
        BY <1>5, <1>6
      <4> QED
        BY <4>1, FS_AddElement
    <3> QED
      BY <1>4, <3>1
  <2>2. Cardinality(Before(key, i) \cup {i}) <= Cardinality(upto)
    BY <1>5, <1>6, FS_Subset
  <2>3. Cardinality(upto) \in Nat
    BY <1>6, FS_CardinalityType
  <2> QED
    BY <1>3, <2>1, <2>2, <2>3
<1>9. \E m \in {f[e] : e \in S} :
        /\ Cardinality({e \in S : f[e] < m}) <= Cardinality(S) \div 2
        /\ Cardinality({e \in S : f[e] <= m}) > Cardinality(S) \div 2
  BY <1>4, <1>7, <1>8 DEF below, upto, h, n
<1> QED
  BY <1>9 DEF Median

-----------------------------------------------------------------------------
(* The table.                                                              *)

(* Once something was measured in both columns. *)
Measured(t) == MeasuredDelay(t) # {} /\ MeasuredCapacity(t) # {}
Filled(t) == \A e \in DOMAIN t : t[e].delay > 0 /\ t[e].capacity > 0
Short(t) == \A e \in DOMAIN t : NumNodes * t[e].delay < Infinite

LEMMA TableIs ==
  ASSUME NEW t \in Seq(Rows)
  PROVE  /\ Len(t) \in Nat /\ DOMAIN t = 1..Len(t) /\ t \in [1..Len(t) -> Rows]
         /\ DOMAIN t \in SUBSET Int /\ IsFiniteSet(DOMAIN t)
         /\ \A e \in DOMAIN t : /\ t[e] \in Rows /\ t[e].delay \in Int /\ t[e].capacity \in Int
                                /\ t[e].a \in MeshNodes /\ t[e].b \in MeshNodes
<1>1. Len(t) \in Nat /\ DOMAIN t = 1..Len(t) /\ t \in [1..Len(t) -> Rows]
  BY LenProperties
<1>2. IsFiniteSet(1..Len(t))
  BY <1>1, FS_Interval
<1> QED
  BY <1>1, <1>2 DEF Rows

LEMMA MediansAre ==
  ASSUME NEW t \in Seq(Rows), Measured(t)
  PROVE  /\ \E e \in DOMAIN t : MedianDelay(t) = t[e].delay /\ t[e].delay > 0
         /\ \E e \in DOMAIN t : MedianCapacity(t) = t[e].capacity /\ t[e].capacity > 0
<1> DEFINE D == DOMAIN t
           fd == [e \in D |-> t[e].delay]
           fc == [e \in D |-> t[e].capacity]
           md == MeasuredDelay(t)
           mc == MeasuredCapacity(t)
<1>1. D \in SUBSET Int /\ IsFiniteSet(D) /\ fd \in [D -> Int] /\ fc \in [D -> Int]
  BY TableIs
<1>2. md \in SUBSET D /\ mc \in SUBSET D /\ md # {} /\ mc # {}
  BY DEF MeasuredDelay, MeasuredCapacity, Measured
<1>3. IsFiniteSet(md) /\ IsFiniteSet(mc)
  <2> HIDE DEF D, md, mc
  <2> QED
    BY <1>1, <1>2, FS_Subset
<1>4. Median(fd, md) \in {fd[e] : e \in md} /\ Median(fc, mc) \in {fc[e] : e \in mc}
  <2> HIDE DEF D, md, mc, fd, fc
  <2> QED
    BY <1>1, <1>2, <1>3, MedianIsValue
<1>5. Median(fd, md) = MedianDelay(t) /\ Median(fc, mc) = MedianCapacity(t)
  BY DEF MedianDelay, MedianCapacity
<1>6. \E e \in md : MedianDelay(t) = t[e].delay
  BY <1>2, <1>4, <1>5
<1>7. \E e \in mc : MedianCapacity(t) = t[e].capacity
  BY <1>2, <1>4, <1>5
<1> QED
  BY <1>6, <1>7 DEF MeasuredDelay, MeasuredCapacity

(* The clean-up fills every hole, with a value that was measured.          *)
LEMMA CorrectingFills ==
  ASSUME NEW t \in Seq(Rows), NEW c, c = MedianCorrectOutliers(t)
  PROVE  /\ c \in Seq(Rows) /\ Len(c) = Len(t)
         /\ ~Measured(t) => c = t
         /\ Measured(t) => Filled(c)
         /\ Short(t) => Short(c)
<1>1. Len(t) \in Nat /\ DOMAIN t = 1..Len(t) /\ t \in [1..Len(t) -> Rows]
      /\ \A e \in DOMAIN t : /\ t[e] \in Rows /\ t[e].delay \in Int /\ t[e].capacity \in Int
  BY TableIs
<1>2. CASE ~Measured(t)
  BY <1>2 DEF Measured, MedianCorrectOutliers
<1>3. CASE Measured(t)
  <2> DEFINE row(e) == [t[e] EXCEPT !.delay = IF DelayIsOff(t, e) THEN MedianDelay(t) ELSE @,
                                    !.capacity = IF CapacityIsOff(t, e) THEN MedianCapacity(t) ELSE @]
  <2>1. c = [e \in DOMAIN t |-> row(e)]
    BY <1>3 DEF Measured, MedianCorrectOutliers
  <2>2. PICK d \in DOMAIN t : MedianDelay(t) = t[d].delay /\ t[d].delay > 0
    BY <1>3, MediansAre
  <2>3. PICK x \in DOMAIN t : MedianCapacity(t) = t[x].capacity /\ t[x].capacity > 0
    BY <1>3, MediansAre
  <2>4. ASSUME NEW e \in DOMAIN t
        PROVE  /\ row(e) \in Rows /\ row(e).delay > 0 /\ row(e).capacity > 0
               /\ row(e).delay \in {t[e].delay, t[d].delay}
    <3>1. t[e] \in Rows /\ t[d].delay \in Int /\ t[x].capacity \in Int
      BY <1>1, <2>2, <2>3
    <3>2. /\ row(e).delay = IF DelayIsOff(t, e) THEN t[d].delay ELSE t[e].delay
          /\ row(e).capacity = IF CapacityIsOff(t, e) THEN t[x].capacity ELSE t[e].capacity
          /\ row(e) \in Rows
      BY <2>2, <2>3, <3>1 DEF Rows
    <3>3. row(e).delay > 0
      BY <1>1, <2>2, <3>2 DEF DelayIsOff
    <3>4. row(e).capacity > 0
      BY <1>1, <2>3, <3>2 DEF CapacityIsOff
    <3> HIDE DEF row
    <3> QED
      BY <3>2, <3>3, <3>4
  <2> HIDE DEF row
  <2>5. c \in [1..Len(t) -> Rows]
    BY <1>1, <2>1, <2>4
  <2>6. c \in Seq(Rows) /\ Len(c) = Len(t)
    BY <1>1, <2>5
  <2>7. Filled(c)
    BY <2>1, <2>4 DEF Filled
  <2>8. ASSUME Short(t) PROVE Short(c)
    <3>1. ASSUME NEW e \in DOMAIN t PROVE NumNodes * c[e].delay < Infinite
      <4>1. c[e].delay = t[e].delay \/ c[e].delay = t[d].delay
        BY <2>1, <2>4
      <4> QED
        BY <2>2, <2>8, <4>1 DEF Short
    <3> QED
      BY <2>1, <3>1 DEF Short
  <2> QED
    BY <1>3, <2>6, <2>7, <2>8
<1> QED
  BY <1>2, <1>3

-----------------------------------------------------------------------------
(* The graph read from a table.                                            *)

(* Every link of g is a row of t. *)
Measures == [delay : Int, capacity : Int]
ReadFrom(g, t) ==
  /\ g.link \in [LinksOf(g) -> Measures]
  /\ GraphOK(g) /\ g = [num |-> NumNodes, link |-> g.link]
  /\ \A k \in LinksOf(g) : \E e \in DOMAIN t : g.link[k].delay = t[e].delay
                                              /\ g.link[k].capacity = t[e].capacity

LEMMA NoLinks ==
  ASSUME NEW t
  PROVE  ReadFrom([num |-> NumNodes, link |-> [k \in {} |-> 0]], t)
<1>1. NumNodes \in Nat \ {0} /\ IsFiniteSet({})
  BY NodesAssumption, FS_EmptySet
<1> QED
  BY <1>1 DEF ReadFrom, GraphOK, LinksOf, Measures

LEMMA WithRowReads ==
  ASSUME NEW t \in Seq(Rows), NEW g, ReadFrom(g, t), NEW e \in DOMAIN t
  PROVE  ReadFrom(WithRow(g, t[e]), t)
<1> DEFINE r == t[e]
           k == Key(r.a, r.b)
           l == [delay |-> r.delay, capacity |-> r.capacity]
           h == WithRow(g, r)
<1>1. GraphOK(g) /\ g.num = NumNodes /\ g = [num |-> NumNodes, link |-> g.link]
  BY DEF ReadFrom
<1>2. r.a \in NodesOf(g) /\ r.b \in NodesOf(g) /\ r.delay \in Int /\ r.capacity \in Int
  BY <1>1, TableIs DEF NodesOf, MeshNodes
<1>3. k \in NodesOf(g) \X NodesOf(g)
  BY <1>2 DEF Key
<1>4. CASE k \in LinksOf(g)
  <2>1. h = g
    BY <1>4 DEF WithRow, AddLink
  <2> QED
    BY <2>1
<1>5. CASE k \notin LinksOf(g)
  <2>1. h = [g EXCEPT !.link = [x \in LinksOf(g) \cup {k} |-> IF x = k THEN l ELSE g.link[x]]]
    BY <1>5 DEF WithRow, AddLink
  <2>a. l \in Measures
    BY <1>2 DEF Measures
  <2> HIDE DEF k, l
  <2>2. h.num = g.num /\ h.link = [x \in LinksOf(g) \cup {k} |-> IF x = k THEN l ELSE g.link[x]]
    BY <1>1, <2>1
  <2>3. NodesOf(h) = NodesOf(g) /\ LinksOf(h) = LinksOf(g) \cup {k}
    BY <2>2 DEF NodesOf, LinksOf
  <2>4. IsFiniteSet(LinksOf(h))
    BY <1>1, <2>3, FS_AddElement DEF GraphOK
  <2>5. l.delay = r.delay /\ l.capacity = r.capacity
    BY DEF l
  <2> HIDE DEF h
  <2>6. \A x \in LinksOf(h) : (x = k /\ h.link[x] = l) \/ (x \in LinksOf(g) /\ h.link[x] = g.link[x])
    <3>1. ASSUME NEW x \in LinksOf(g) \cup {k}
          PROVE  (x = k /\ h.link[x] = l) \/ (x \in LinksOf(g) /\ h.link[x] = g.link[x])
      <4>1. h.link[x] = IF x = k THEN l ELSE g.link[x]
        BY <2>2
      <4>2. CASE x = k
        BY <4>1, <4>2
      <4>3. CASE x # k
        <5>1. x \in LinksOf(g)
          BY <4>3
        <5> QED
          BY <4>1, <4>3, <5>1
      <4> QED
        BY <4>2, <4>3
    <3> QED
      BY <2>3, <3>1
  <2>7. GraphOK(h)
    BY <1>1, <1>2, <1>3, <2>2, <2>3, <2>4, <2>5, <2>6 DEF GraphOK
  <2>8. \A x \in LinksOf(h) : \E d \in DOMAIN t : h.link[x].delay = t[d].delay
                                                /\ h.link[x].capacity = t[d].capacity
    BY <2>5, <2>6 DEF ReadFrom
  <2> QED
    <3>1. h = [num |-> NumNodes, link |-> h.link]
      BY <1>1, <2>1, <2>2 DEF h
    <3>2. h.link \in [LinksOf(h) -> Measures]
      <4>1. g.link \in [LinksOf(g) -> Measures]
        BY DEF ReadFrom
      <4>2. \A x \in LinksOf(h) : h.link[x] \in Measures
        BY <2>a, <2>6, <4>1
      <4>3. \A x \in LinksOf(g) \cup {k} : h.link[x] \in Measures
        BY <2>3, <4>2
      <4> HIDE DEF h
      <4> QED
        BY <2>2, <2>3, <4>2
    <3> QED
      BY <2>7, <2>8, <3>1, <3>2 DEF ReadFrom, h
<1> QED
  BY <1>4, <1>5

LEMMA TableReads ==
  ASSUME NEW t \in Seq(Rows)
  PROVE  ReadFrom(FromLinkTable(t, NumNodes), t)
<1> DEFINE N == Len(t)
           V == MeshNodes
           Graphs == {[num |-> NumNodes, link |-> l] : l \in UNION {[K -> Measures] : K \in SUBSET (V \X V)}}
           S == {g \in Graphs : ReadFrom(g, t)}
           F == [n \in 1..N |-> [g \in S |-> WithRow(g, t[n])]]
           b == [num |-> NumNodes, link |-> [k \in {} |-> 0]]
           Is(read) == read = [n \in 0..N |-> IF n = 0 THEN b ELSE WithRow(read[n - 1], t[n])]
           read == CHOOSE read : Is(read)
<1>1. N \in Nat /\ DOMAIN t = 1..N
  BY TableIs
<1>2. FromLinkTable(t, NumNodes) = read[N]
  BY DEF FromLinkTable
<1>3. ASSUME NEW g, ReadFrom(g, t) PROVE g \in S
  <2>1. LinksOf(g) \in SUBSET (V \X V)
    BY <1>3 DEF ReadFrom, GraphOK, NodesOf, MeshNodes
  <2>2. g = [num |-> NumNodes, link |-> g.link] /\ g.link \in [LinksOf(g) -> Measures]
    BY <1>3 DEF ReadFrom
  <2>3. g \in Graphs
    BY <2>1, <2>2
  <2> QED
    BY <1>3, <2>3
<1>4. b \in S
  BY <1>3, NoLinks
<1>5. ASSUME NEW n \in 1..N, NEW g \in S PROVE WithRow(g, t[n]) \in S
  <2>1. ReadFrom(g, t) /\ n \in DOMAIN t
    BY <1>1
  <2>2. ReadFrom(WithRow(g, t[n]), t)
    BY <2>1, WithRowReads
  <2> QED
    BY <1>3, <2>2
<1>6. F \in [1..N -> [S -> S]] /\ \A n \in 1..N, g \in S : F[n][g] = WithRow(g, t[n])
  <2> HIDE DEF S
  <2> QED
    BY <1>5
<1> HIDE DEF S, F, b, N
<1>7. PICK h : Iteration(S, b, N, F, h)
  BY <1>1, <1>4, <1>6, Iterates
<1>8. h \in [0..N -> S] /\ \A n \in 0..N : h[n] = IF n = 0 THEN b ELSE F[n][h[n - 1]]
  BY <1>7 DEF Iteration
<1>9. \A n \in 0..N : h[n] = IF n = 0 THEN b ELSE WithRow(h[n - 1], t[n])
  <2>1. ASSUME NEW n \in 0..N, n # 0 PROVE F[n][h[n - 1]] = WithRow(h[n - 1], t[n])
    <3>1. n \in 1..N /\ n - 1 \in 0..N
      BY <1>1, <2>1
    <3> QED
      BY <1>6, <1>8, <3>1
  <2> QED
    BY <1>8, <2>1
<1>10. Is(read)
  <2>1. Is(h)
    BY <1>8, <1>9
  <2> QED
    BY <2>1
<1>11. DOMAIN read = 0..N /\ \A n \in 0..N : read[n] = IF n = 0 THEN b ELSE WithRow(read[n - 1], t[n])
  <2> HIDE DEF read
  <2> QED
    BY <1>10
<1> HIDE DEF read, Is
<1> DEFINE G == {n \in 0..N : read[n] \in S}
<1>12. 0 \in G
  <2>1. 0 \in 0..N
    BY <1>1
  <2> QED
    BY <1>4, <1>11, <2>1
<1>13. ASSUME NEW n \in 0..N, n # N, n \in G PROVE n + 1 \in G
  <2>1. n + 1 \in 1..N /\ n + 1 \in 0..N /\ n + 1 # 0 /\ n + 1 - 1 = n
    BY <1>1, <1>13
  <2>2. read[n + 1] = WithRow(read[n], t[n + 1])
    BY <1>11, <2>1
  <2> QED
    BY <1>5, <1>13, <2>1, <2>2
<1>14. N \in G
  <2> HIDE DEF G
  <2>1. 0..N \subseteq G
    BY <1>1, <1>12, <1>13, UpTo
  <2> QED
    BY <1>1, <2>1
<1> QED
  BY <1>2, <1>14 DEF S

-----------------------------------------------------------------------------
(* The members.                                                            *)

LEMMA SlicesAre == Slices = {0, 1, 2} /\ EMBB = 0 /\ URLLC = 1 /\ MMTC = 2 /\ IsFiniteSet(Slices)
<1>1. IsFiniteSet({0, 1, 2})
  <2>1. IsFiniteSet({}) /\ {} \cup {0} = {0} /\ {0} \cup {1} = {0, 1} /\ {0, 1} \cup {2} = {0, 1, 2}
    BY FS_EmptySet
  <2>2. IsFiniteSet({0}) /\ IsFiniteSet({0, 1})
    BY FS_Singleton, FS_AddElement, <2>1
  <2> QED
    BY <2>1, <2>2, FS_AddElement
<1> QED
  BY <1>1 DEF Slices, EMBB, URLLC, MMTC

LEMMA SumOfSlices ==
  ASSUME NEW c \in [Slices -> Int]
  PROVE  /\ SumFunction(c) = c[0] + c[1] + c[2]
         /\ SumFunctionOnSet(c, {x \in Slices : x < 0}) = 0
         /\ SumFunctionOnSet(c, {x \in Slices : x < 1}) = c[0]
         /\ SumFunctionOnSet(c, {x \in Slices : x < 2}) = c[0] + c[1]
<1>1. Slices = {0, 1, 2} /\ IsFiniteSet(Slices) /\ \A x \in Slices : c[x] \in Int
  BY SlicesAre
<1>2. /\ SumFunctionOnSet(c, {}) = 0
      /\ \A s \in SUBSET Slices : \A x \in Slices : x \notin s =>
           SumFunctionOnSet(c, s \cup {x}) = SumFunctionOnSet(c, s) + c[x]
  <2>1. IsFiniteSet(Slices)
    BY <1>1
  <2>2. \A x \in Slices : c[x] \in Int
    OBVIOUS
  <2> QED
    BY <2>1, <2>2, SumAdds
<1>3. /\ {x \in Slices : x < 0} = {} /\ {x \in Slices : x < 1} = {} \cup {0}
      /\ {x \in Slices : x < 2} = {0} \cup {1} /\ {} \cup {0} = {0}
      /\ DOMAIN c = {0, 1} \cup {2} /\ {0} \cup {1} = {0, 1}
  BY <1>1
<1>4. /\ {} \in SUBSET Slices /\ {0} \in SUBSET Slices /\ {0, 1} \in SUBSET Slices
      /\ 0 \in Slices /\ 1 \in Slices /\ 2 \in Slices
      /\ 0 \notin {} /\ 1 \notin {0} /\ 2 \notin {0, 1}
  BY <1>1
<1>5. SumFunctionOnSet(c, {} \cup {0}) = SumFunctionOnSet(c, {}) + c[0]
  BY <1>2, <1>4
<1>6. SumFunctionOnSet(c, {0} \cup {1}) = SumFunctionOnSet(c, {0}) + c[1]
  BY <1>2, <1>4
<1>7. SumFunctionOnSet(c, {0, 1} \cup {2}) = SumFunctionOnSet(c, {0, 1}) + c[2]
  BY <1>2, <1>4
<1>8. c[0] \in Int /\ c[1] \in Int /\ c[2] \in Int
  BY <1>1, <1>4
<1>9. SumFunctionOnSet(c, {0}) = c[0] /\ SumFunctionOnSet(c, {0, 1}) = c[0] + c[1]
      /\ SumFunctionOnSet(c, DOMAIN c) = c[0] + c[1] + c[2]
  <2>1. SumFunctionOnSet(c, {0}) = c[0]
    BY <1>2, <1>3, <1>5, <1>8
  <2>2. SumFunctionOnSet(c, {0, 1}) = c[0] + c[1]
    <3>1. SumFunctionOnSet(c, {0, 1}) = SumFunctionOnSet(c, {0}) + c[1]
      BY <1>3, <1>6
    <3> QED
      BY <2>1, <3>1
  <2>3. SumFunctionOnSet(c, DOMAIN c) = c[0] + c[1] + c[2]
    <3>1. SumFunctionOnSet(c, DOMAIN c) = SumFunctionOnSet(c, {0, 1}) + c[2]
      BY <1>3, <1>7
    <3> QED
      BY <2>2, <3>1
  <2> QED
    BY <2>1, <2>2, <2>3
<1> QED
  BY <1>2, <1>3, <1>9 DEF SumFunction

(* Where the part of a slice begins in the pool. *)
Start(c, s) == SumFunctionOnSet(c, {x \in Slices : x < s})

LEMMA CountsAre ==
  ASSUME NEW request \in Requests, Accepted(request)
  PROVE  /\ Counts(request) \in [Slices -> Nat]
         /\ Counts(request)[0] + Counts(request)[1] + Counts(request)[2] <= NumNodes
<1>1. Quarter \in Nat
  BY NodesAssumption DEF Quarter
<1>2. Counts(request) \in [Slices -> Nat]
  BY <1>1, RequestsAssumption DEF Counts
<1>3. SumFunction(Counts(request)) <= NumNodes
  BY DEF Accepted
<1>4. Counts(request) \in [Slices -> Int]
  BY <1>2
<1>5. SumFunction(Counts(request)) = Counts(request)[0] + Counts(request)[1] + Counts(request)[2]
  BY <1>4, SumOfSlices
<1> QED
  BY <1>2, <1>3, <1>5

(* A slice's members are a part of the pool: nodes, each once. *)

LEMMA MembersAre ==
  ASSUME NEW request \in Requests, Accepted(request), NEW pool \in Pools, NEW s \in Slices,
         NEW w, w = DrawMembers(request, pool)[s]
  PROVE  /\ w \in Seq(MeshNodes) /\ Len(w) = Counts(request)[s] /\ Len(w) <= NumNodes
         /\ Start(Counts(request), s) \in Nat
         /\ \A i \in 1..Len(w) : /\ w[i] = pool[Start(Counts(request), s) + i]
                                 /\ Start(Counts(request), s) + i \in 1..NumNodes
<1> DEFINE c == Counts(request)
           b == Start(c, s)
<1>1. /\ c \in [Slices -> Nat] /\ c[0] + c[1] + c[2] <= NumNodes
      /\ c[0] \in Nat /\ c[1] \in Nat /\ c[2] \in Nat /\ NumNodes \in Nat
  BY CountsAre, SlicesAre, NodesAssumption
<1>2. s = 0 \/ s = 1 \/ s = 2
  BY SlicesAre
<1>3. Start(c, 0) = 0 /\ Start(c, 1) = c[0] /\ Start(c, 2) = c[0] + c[1]
  <2>1. c \in [Slices -> Int]
    BY <1>1
  <2> HIDE DEF c
  <2> QED
    BY <2>1, SumOfSlices DEF Start
<1>4. b \in Nat /\ c[s] \in Nat /\ b + c[s] <= NumNodes
  BY <1>1, <1>2, <1>3
<1>5. w = SubSeq(pool, b + 1, b + c[s])
  BY DEF DrawMembers, Start
<1> HIDE DEF b, c
<1>6. pool \in Seq(MeshNodes) /\ Len(pool) = NumNodes
  BY NodesAssumption
<1>7. \A i \in (b + 1)..(b + c[s]) : pool[i] \in MeshNodes
  <2>1. \A i \in (b + 1)..(b + c[s]) : i \in 1..Len(pool)
    BY <1>1, <1>4, <1>6
  <2> QED
    BY <1>6, <2>1, ElementOfSeq
<1>8. b + 1 \in Int /\ b + c[s] \in Int
  BY <1>4
<1>9. /\ w \in Seq(MeshNodes)
      /\ Len(w) = IF b + 1 <= b + c[s] THEN b + c[s] - (b + 1) + 1 ELSE 0
      /\ \A i \in 1..(b + c[s] - (b + 1) + 1) : w[i] = pool[b + 1 + i - 1]
  <2>0. PICK m, n : m = b + 1 /\ n = b + c[s]
    OBVIOUS
  <2>1. m \in Int /\ n \in Int /\ w = SubSeq(pool, m, n) /\ \A i \in m..n : pool[i] \in MeshNodes
    BY <1>5, <1>7, <1>8, <2>0
  <2>2. /\ w \in Seq(MeshNodes) /\ Len(w) = IF m <= n THEN n - m + 1 ELSE 0
        /\ \A i \in 1..(n - m + 1) : w[i] = pool[m + i - 1]
    BY <2>1, SubSeqProperties
  <2>3. Len(w) = IF b + 1 <= b + c[s] THEN b + c[s] - (b + 1) + 1 ELSE 0
    BY <1>4, <2>0, <2>2
  <2>4. \A i \in 1..(b + c[s] - (b + 1) + 1) : w[i] = pool[b + 1 + i - 1]
    BY <1>4, <2>0, <2>2
  <2> QED
    BY <2>2, <2>3, <2>4
<1>10. Len(w) = c[s]
  BY <1>4, <1>9
<1>11. ASSUME NEW i \in 1..Len(w) PROVE w[i] = pool[b + i] /\ b + i \in 1..NumNodes
  <2>1. i \in 1..(b + c[s] - (b + 1) + 1) /\ b + 1 + i - 1 = b + i
    BY <1>4, <1>10
  <2> QED
    BY <1>1, <1>4, <1>9, <1>10, <2>1
<1> QED
  BY <1>1, <1>2, <1>4, <1>9, <1>10, <1>11 DEF b, c

LEMMA BySliceIs ==
  ASSUME NEW e, NEW u, NEW m
  PROVE  /\ DOMAIN BySlice(e, u, m) = Slices /\ BySlice(e, u, m)[EMBB] = e
         /\ BySlice(e, u, m)[URLLC] = u /\ BySlice(e, u, m)[MMTC] = m
BY DEF BySlice, Slices, EMBB, URLLC, MMTC

LEMMA OrdersAre ==
  ASSUME NEW seg \in Orders, NEW s \in Slices
  PROVE  seg[s] \in SetToSeqs(ToSet(members[s]))
<1>1. PICK e \in SetToSeqs(ToSet(members[EMBB])), u \in SetToSeqs(ToSet(members[URLLC])),
           m \in SetToSeqs(ToSet(members[MMTC])) : seg = BySlice(e, u, m)
  BY DEF Orders
<1>2. seg[EMBB] = e /\ seg[URLLC] = u /\ seg[MMTC] = m
  BY <1>1, BySliceIs
<1>3. s = EMBB \/ s = URLLC \/ s = MMTC
  BY DEF Slices
<1> QED
  BY <1>1, <1>2, <1>3

-----------------------------------------------------------------------------
(* The inductive invariant: where the members, the graph and the           *)
(* individual come from.                                                   *)

Drawn == \E request \in Requests, pool \in Pools :
           Accepted(request) /\ members = DrawMembers(request, pool)
Read == IF phase = "measured" THEN table \in Tables /\ graph = NoGraph
        ELSE \E t \in Tables : table = MedianCorrectOutliers(t) /\ graph = FromLinkTable(table, NumNodes)
Hung == phase = "hung" => \E seg \in Orders, s \in Slices : ~DecodeEnds(graph, seg[s])
Scored ==
  phase \in {"scored", "routed"} =>
    /\ ind.seg \in Orders /\ \A s \in Slices : DecodeEnds(graph, ind.seg[s])
    /\ ind.stranded = CutOff(Trees(graph, ind.seg), members)
Phases == {"measured", "graph", "scored", "hung", "routed"}
RunInv == phase \in Phases /\ Drawn /\ Read /\ Hung /\ Scored

LEMMA RunStarts == Init => RunInv
BY DEF Init, RunInv, Phases, Drawn, Read, Hung, Scored

LEMMA EvaluateIs ==
  ASSUME NEW i, NEW g, NEW ms
  PROVE  Evaluate(i, g, ms).seg = i.seg /\ Evaluate(i, g, ms).stranded = CutOff(Trees(g, i.seg), ms)
BY DEF Evaluate, Judged

LEMMA RunKeeps == RunInv /\ [Next]_vars => RunInv'
<1> SUFFICES ASSUME RunInv, [Next]_vars PROVE RunInv'
  OBVIOUS
<1> USE DEF RunInv, Phases
<1>0. ASSUME members' = members PROVE Drawn' /\ Orders' = Orders
  BY <1>0 DEF Drawn, Orders
<1>1. CASE ReadTable
  <2>1. /\ phase = "measured" /\ phase' = "graph" /\ table \in Tables
        /\ table' = MedianCorrectOutliers(table) /\ graph' = FromLinkTable(table', NumNodes)
        /\ members' = members
    BY <1>1 DEF ReadTable, Read
  <2>2. Read'
    BY <2>1 DEF Read
  <2>3. Hung' /\ Scored'
    BY <2>1 DEF Hung, Scored
  <2> QED
    BY <1>0, <2>1, <2>2, <2>3
<1>2. ASSUME NEW seg \in Orders, Score(seg) PROVE RunInv'
  <2>1. /\ phase = "graph" /\ phase' \in {"scored", "hung"}
        /\ table' = table /\ members' = members /\ graph' = graph
    BY <1>2 DEF Score
  <2>2. Read' /\ Drawn' /\ Orders' = Orders
    BY <1>0, <2>1 DEF Read
  <2>3. CASE \A s \in Slices : DecodeEnds(graph, seg[s])
    <3>1. phase' = "scored" /\ ind' = Evaluate(Unscored(seg), graph, members)
      BY <1>2, <2>3 DEF Score
    <3>2. ind'.seg = seg /\ ind'.stranded = CutOff(Trees(graph, seg), members)
      <4>1. Unscored(seg).seg = seg
        BY DEF Unscored
      <4> QED
        BY <3>1, <4>1, EvaluateIs
    <3>3. Hung'
      BY <3>1 DEF Hung
    <3>4. Scored'
      BY <1>2, <2>1, <2>2, <2>3, <3>2 DEF Scored
    <3> QED
      BY <2>1, <2>2, <3>3, <3>4
  <2>4. CASE ~ \A s \in Slices : DecodeEnds(graph, seg[s])
    <3>1. phase' = "hung"
      BY <1>2, <2>4 DEF Score
    <3>2. Hung' /\ Scored'
      BY <1>2, <2>1, <2>2, <2>4, <3>1 DEF Hung, Scored
    <3> QED
      BY <2>1, <2>2, <3>2
  <2> QED
    BY <2>3, <2>4
<1>3. CASE Rescore
  <2>1. /\ phase = "scored" /\ phase' = phase /\ table' = table /\ members' = members /\ graph' = graph
        /\ ind' = Evaluate(ind, graph, members)
    BY <1>3 DEF Rescore
  <2>2. ind'.seg = ind.seg /\ ind'.stranded = CutOff(Trees(graph, ind.seg), members)
    BY <2>1, EvaluateIs
  <2>3. Scored'
    BY <1>0, <2>1, <2>2 DEF Scored
  <2> QED
    BY <1>0, <2>1, <2>3 DEF Read, Hung
<1>4. CASE Install
  <2>1. /\ phase = "scored" /\ phase' = "routed" /\ table' = table /\ members' = members
        /\ graph' = graph /\ ind' = ind
    BY <1>4 DEF Install
  <2> QED
    BY <1>0, <2>1 DEF Read, Hung, Scored
<1>5. ASSUME UNCHANGED <<phase, table, members, graph, ind>> PROVE RunInv'
  BY <1>0, <1>5 DEF Read, Hung, Scored
<1> QED
  BY <1>1, <1>2, <1>3, <1>4, <1>5 DEF Next, Send, Forward, vars

LEMMA RunHolds == Spec => []RunInv
<1> QED
  BY RunStarts, RunKeeps, PTL DEF Spec

(* An order of a slice's members lists nodes, each once. *)
LEMMA OrderIs ==
  ASSUME RunInv, NEW seg \in Orders, NEW s \in Slices
  PROVE  /\ seg[s] \in Seq(MeshNodes) /\ ToSet(seg[s]) = ToSet(members[s])
         /\ \A i, j \in 1..Len(seg[s]) : i # j => seg[s][i] # seg[s][j]
         /\ members[s] \in Seq(MeshNodes) /\ (members[s] = <<>> <=> seg[s] = <<>>)
<1> DEFINE M == ToSet(members[s])
           n == Cardinality(M)
           w == seg[s]
<1>1. members[s] \in Seq(MeshNodes)
  <2>1. PICK request \in Requests, pool \in Pools : Accepted(request) /\ members = DrawMembers(request, pool)
    BY DEF RunInv, Drawn
  <2> QED
    BY <2>1, MembersAre
<1>2. M \in SUBSET MeshNodes /\ IsFiniteSet(M)
  <2>1. members[s] \in [1..Len(members[s]) -> MeshNodes] /\ Len(members[s]) \in Nat
    BY <1>1, LenProperties
  <2>2. IsFiniteSet(1..Len(members[s]))
    BY <2>1, FS_Interval
  <2>3. DOMAIN members[s] = 1..Len(members[s]) /\ M = {members[s][i] : i \in 1..Len(members[s])}
    BY <2>1 DEF ToSet
  <2> HIDE DEF M
  <2> QED
    BY <2>1, <2>2, <2>3, Images
<1>3. n \in Nat
  BY <1>2, FS_CardinalityType
<1>4. w \in [1..n -> M] /\ \A i, j \in 1..n : i # j => w[i] # w[j]
  <2>1. w \in SetToSeqs(M)
    BY OrdersAre
  <2> QED
    BY <2>1 DEF SetToSeqs
<1> HIDE DEF M, n, w
<1>5. w \in Seq(MeshNodes) /\ Len(w) = n
  BY <1>2, <1>3, <1>4
<1>6. ToSet(w) = M
  <2>1. ToSet(w) = {w[i] : i \in 1..n}
    BY <1>4 DEF ToSet
  <2>2. IsFiniteSet(1..n) /\ Cardinality(1..n) = n
    BY <1>3, FS_Interval
  <2>3. Cardinality(ToSet(w)) = n /\ ToSet(w) \in SUBSET M
    <3>1. \A x, y \in 1..n : w[x] = w[y] => x = y
      BY <1>4
    <3>2. Cardinality({w[i] : i \in 1..n}) = Cardinality(1..n)
      <4>1. DOMAIN w = 1..n
        BY <1>4
      <4> DEFINE I == 1..n
      <4>2. IsFiniteSet(I) /\ DOMAIN w = I /\ \A x, y \in I : w[x] = w[y] => x = y
        BY <2>2, <3>1, <4>1
      <4> HIDE DEF I
      <4>3. Cardinality({w[i] : i \in I}) = Cardinality(I)
        BY <4>2, Images
      <4> QED
        BY <4>3 DEF I
    <3> QED
      BY <1>4, <2>1, <2>2, <3>2
  <2> QED
    BY <1>2, <2>3, FS_Subset DEF n
<1>7. members[s] = <<>> <=> w = <<>>
  <2>1. members[s] = <<>> <=> Len(members[s]) = 0
    BY <1>1
  <2>2. w = <<>> <=> Len(w) = 0
    BY <1>5
  <2>3. DOMAIN members[s] = 1..Len(members[s]) /\ Len(members[s]) \in Nat /\ DOMAIN w = 1..Len(w) /\ Len(w) \in Nat
    BY <1>1, <1>3, <1>4, <1>5, LenProperties
  <2>4. Len(members[s]) = 0 <=> M = {}
    <3>1. M = {members[s][i] : i \in 1..Len(members[s])}
      BY <2>3 DEF M, ToSet
    <3>2. Len(members[s]) = 0 => 1..Len(members[s]) = {}
      OBVIOUS
    <3>3. Len(members[s]) # 0 => 1 \in 1..Len(members[s])
      BY <2>3
    <3> QED
      BY <3>1, <3>2, <3>3
  <2>5. Len(w) = 0 <=> ToSet(w) = {}
    <3>1. ToSet(w) = {w[i] : i \in 1..Len(w)}
      BY <2>3 DEF ToSet
    <3>2. Len(w) = 0 => 1..Len(w) = {}
      OBVIOUS
    <3>3. Len(w) # 0 => 1 \in 1..Len(w)
      BY <2>3
    <3> QED
      BY <3>1, <3>2, <3>3
  <2> QED
    BY <1>6, <2>1, <2>2, <2>4, <2>5
<1> QED
  BY <1>1, <1>4, <1>5, <1>6, <1>7 DEF M, w

(* Once something was measured, the graph has positive weights only.       *)
LEMMA GraphIs ==
  ASSUME RunInv
  PROVE  /\ ReadFrom(graph, table) /\ table \in Seq(Rows) /\ Short(table)
         /\ Measured(table) => /\ phase # "measured" => Positive(graph)
                               /\ \A k \in LinksOf(graph) : graph.link[k].capacity > 0
<1>1. CASE phase = "measured"
  <2>1. table \in Tables /\ graph = NoGraph
    BY <1>1 DEF RunInv, Read
  <2>2. table \in Seq(Rows) /\ Short(table)
    BY <2>1, RowsAssumption, DelaysAssumption DEF Short
  <2>3. <<>> \in Seq(Rows) /\ DOMAIN <<>> = {}
    OBVIOUS
  <2>4. ReadFrom(graph, <<>>)
    BY <2>1, <2>3, TableReads DEF NoGraph
  <2>5. LinksOf(graph) = {}
    BY <2>3, <2>4 DEF ReadFrom
  <2>6. ReadFrom(graph, table)
    BY <2>4, <2>5 DEF ReadFrom
  <2> QED
    BY <1>1, <2>2, <2>5, <2>6
<1>2. CASE phase # "measured"
  <2>1. PICK t \in Tables : table = MedianCorrectOutliers(t) /\ graph = FromLinkTable(table, NumNodes)
    BY <1>2 DEF RunInv, Read
  <2>2. t \in Seq(Rows) /\ Short(t)
    BY RowsAssumption, DelaysAssumption DEF Short
  <2>3. table \in Seq(Rows) /\ Short(table) /\ (~Measured(t) => table = t) /\ (Measured(t) => Filled(table))
    BY <2>1, <2>2, CorrectingFills
  <2>4. ReadFrom(graph, table)
    BY <2>1, <2>3, TableReads
  <2>5. Measured(table) => Filled(table)
    BY <2>3
  <2>6. Filled(table) => Positive(graph) /\ \A k \in LinksOf(graph) : graph.link[k].capacity > 0
    BY <2>4 DEF Filled, Positive, ReadFrom
  <2> QED
    BY <2>3, <2>4, <2>5, <2>6
<1> QED
  BY <1>1, <1>2

THEOREM SearchesEndHolds == Spec => []SearchesEnd
<1>1. RunInv => SearchesEnd
  <2> SUFFICES ASSUME RunInv, Measured(table)
               PROVE  phase # "hung" /\ \A k \in LinksOf(graph) : graph.link[k].capacity > 0
    BY DEF SearchesEnd, Measured
  <2>1. ASSUME phase = "hung" PROVE FALSE
    <3>1. PICK seg \in Orders, s \in Slices : ~DecodeEnds(graph, seg[s])
      BY <2>1 DEF RunInv, Hung
    <3>2. GraphOK(graph) /\ Positive(graph) /\ graph.num = NumNodes
      BY <2>1, GraphIs DEF ReadFrom
    <3>3. ASSUME NEW k \in 2..Len(seg[s]) PROVE seg[s][k] \in NodesOf(graph)
      <4>1. seg[s] \in Seq(NodesOf(graph))
        <5>1. MeshNodes = NodesOf(graph)
          BY <3>2 DEF MeshNodes, NodesOf
        <5> QED
          BY <3>1, <5>1, OrderIs
      <4> QED
        BY <4>1, ElementOfSeq
    <3>4. DecodeEnds(graph, seg[s])
      BY <3>2, <3>3, PositiveEnds DEF DecodeEnds
    <3> QED
      BY <3>1, <3>4
  <2> QED
    BY <2>1, GraphIs
<1> QED
  BY <1>1, RunHolds, PTL

-----------------------------------------------------------------------------
(* The reference distances.                                                *)

LightLinks(g) == \A k \in LinksOf(g) : g.link[k].delay < Infinite

Via(g, via) ==
  /\ via \in [0..g.num -> [NodesOf(g) \X NodesOf(g) -> Int]]
  /\ via[0] = Direct(g) /\ via[g.num] = Distances(g)
  /\ \A n \in 0..(g.num - 1) : via[n + 1] = Through(g, via[n], n)

LEMMA DirectIs ==
  ASSUME NEW g, GraphOK(g)
  PROVE  /\ Direct(g) \in [NodesOf(g) \X NodesOf(g) -> Int]
         /\ \A a, b \in NodesOf(g) :
              Direct(g)[<<a, b>>] = IF a = b THEN 0 ELSE IF b \in Neighbours(g, a) THEN Weight(g, a, b) ELSE Infinite
<1> DEFINE V == NodesOf(g)
<1>1. ASSUME NEW a \in V, NEW b \in V
      PROVE  /\ Direct(g)[<<a, b>>] = IF a = b THEN 0 ELSE IF b \in Neighbours(g, a) THEN Weight(g, a, b) ELSE Infinite
             /\ Direct(g)[<<a, b>>] \in Int
  <2>1. Direct(g)[<<a, b>>] = IF a = b THEN 0 ELSE IF b \in Neighbours(g, a) THEN Weight(g, a, b) ELSE Infinite
    BY DEF Direct, Neighbours
  <2>2. b \in Neighbours(g, a) => Weight(g, a, b) \in Int
    BY WeightIs
  <2> QED
    BY <2>1, <2>2 DEF Infinite
<1>2. \A p \in V \X V : Direct(g)[p] \in Int
  <2>1. ASSUME NEW p \in V \X V PROVE Direct(g)[p] \in Int
    <3>1. p = <<p[1], p[2]>> /\ p[1] \in V /\ p[2] \in V
      OBVIOUS
    <3> QED
      BY <1>1, <3>1
  <2> QED
    BY <2>1
<1>3. Direct(g) = [p \in V \X V |-> Direct(g)[p]]
  BY DEF Direct
<1> QED
  BY <1>1, <1>2, <1>3

LEMMA ThroughAt ==
  ASSUME NEW g, NEW d, NEW k, NEW a \in NodesOf(g), NEW b \in NodesOf(g)
  PROVE  Through(g, d, k)[<<a, b>>] = Least(d[<<a, b>>], d[<<a, k>>] + d[<<k, b>>])
BY DEF Through

LEMMA ThroughIs ==
  ASSUME NEW g, GraphOK(g), NEW d \in [NodesOf(g) \X NodesOf(g) -> Int], NEW k \in NodesOf(g)
  PROVE  Through(g, d, k) \in [NodesOf(g) \X NodesOf(g) -> Int]
<1> DEFINE V == NodesOf(g)
<1>1. \A a, b \in V : d[<<a, b>>] \in Int
  OBVIOUS
<1>2. \A p \in V \X V : Least(d[p], d[<<p[1], k>>] + d[<<k, p[2]>>]) \in Int
  <2>1. ASSUME NEW p \in V \X V PROVE Least(d[p], d[<<p[1], k>>] + d[<<k, p[2]>>]) \in Int
    <3>1. d[p] \in Int /\ d[<<p[1], k>>] \in Int /\ d[<<k, p[2]>>] \in Int
      BY <1>1
    <3> QED
      BY <3>1 DEF Least
  <2> QED
    BY <2>1
<1>3. Through(g, d, k) \in [V \X V -> Int]
  BY <1>2 DEF Through
<1> QED
  BY <1>3

LEMMA DistancesUnfold ==
  ASSUME NEW g, GraphOK(g)
  PROVE  \E via : Via(g, via)
<1> DEFINE V == NodesOf(g)
           S == [V \X V -> Int]
           n == g.num
           b == Direct(g)
           F == [i \in 1..n |-> [d \in S |-> Through(g, d, i - 1)]]
           Is(via) == via = [i \in 0..n |-> IF i = 0 THEN b ELSE Through(g, via[i - 1], i - 1)]
           via == CHOOSE via : Is(via)
<1>1. n \in Nat /\ n # 0 /\ V = 0..(n - 1)
  BY NodesAre DEF GraphOK
<1>2. Distances(g) = via[n]
  BY DEF Distances
<1>3. b \in S
  BY DirectIs
<1>4. ASSUME NEW i \in 1..n, NEW d \in S PROVE Through(g, d, i - 1) \in S
  <2>1. i - 1 \in V
    BY <1>1
  <2> QED
    BY <2>1, ThroughIs
<1>5. F \in [1..n -> [S -> S]] /\ \A i \in 1..n, d \in S : F[i][d] = Through(g, d, i - 1)
  <2> HIDE DEF S
  <2> QED
    BY <1>4
<1> HIDE DEF S, F, b, n
<1>6. PICK h : Iteration(S, b, n, F, h)
  BY <1>1, <1>3, <1>5, Iterates
<1>7. h \in [0..n -> S] /\ \A i \in 0..n : h[i] = IF i = 0 THEN b ELSE F[i][h[i - 1]]
  BY <1>6 DEF Iteration
<1>8. \A i \in 0..n : h[i] = IF i = 0 THEN b ELSE Through(g, h[i - 1], i - 1)
  <2>1. ASSUME NEW i \in 0..n, i # 0 PROVE F[i][h[i - 1]] = Through(g, h[i - 1], i - 1)
    <3>1. i \in 1..n /\ i - 1 \in 0..n
      BY <1>1, <2>1
    <3> QED
      BY <1>5, <1>7, <3>1
  <2> QED
    BY <1>7, <2>1
<1>9. Is(via)
  <2>1. Is(h)
    BY <1>7, <1>8
  <2> QED
    BY <2>1
<1>10. /\ DOMAIN via = 0..n
       /\ \A i \in 0..n : via[i] = IF i = 0 THEN b ELSE Through(g, via[i - 1], i - 1)
  <2> HIDE DEF via
  <2> QED
    BY <1>9
<1>a. via = [i \in 0..n |-> via[i]]
  <2> HIDE DEF via
  <2> QED
    BY <1>9
<1> HIDE DEF via, Is
<1> DEFINE G == {i \in 0..n : via[i] \in S}
<1>11. 0 \in G
  BY <1>1, <1>3, <1>10
<1>12. ASSUME NEW i \in 0..n, i # n PROVE via[i + 1] = Through(g, via[i], i) /\ i + 1 \in 1..n /\ i + 1 \in 0..n
  <2>1. i + 1 \in 1..n /\ i + 1 \in 0..n /\ i + 1 # 0 /\ i + 1 - 1 = i
    BY <1>1, <1>12
  <2> QED
    BY <1>10, <2>1
<1>13. ASSUME NEW i \in 0..n, i # n, i \in G PROVE i + 1 \in G
  <2>1. Through(g, via[i], i + 1 - 1) \in S
    BY <1>4, <1>12, <1>13
  <2>2. i + 1 - 1 = i
    OBVIOUS
  <2> QED
    BY <1>12, <1>13, <2>1, <2>2
<1>14. 0..n \subseteq G
  <2> HIDE DEF G
  <2> QED
    BY <1>1, <1>11, <1>13, UpTo
<1>15. via \in [0..n -> S]
  BY <1>a, <1>14
<1>16. via[0] = b
  BY <1>1, <1>10
<1>17. \A i \in 0..(n - 1) : via[i + 1] = Through(g, via[i], i)
  <2>1. ASSUME NEW i \in 0..(n - 1) PROVE i \in 0..n /\ i # n
    BY <1>1
  <2> QED
    BY <1>12, <2>1
<1>18. Via(g, via)
  BY <1>2, <1>15, <1>16, <1>17 DEF Via, S, b, n
<1> QED
  BY <1>18

(* Below no feasible potential, and a metric. *)
Metric(V, d) ==
  /\ d \in [V \X V -> Int]
  /\ \A a \in V : d[<<a, a>>] = 0
  /\ \A a, b \in V : 0 <= d[<<a, b>>] /\ d[<<a, b>>] <= Infinite
Triangles(V, d, K) == \A a, b \in V : \A k \in K : d[<<a, b>>] <= d[<<a, k>>] + d[<<k, b>>]

LEMMA ThroughKeeps ==
  ASSUME NEW g, GraphOK(g), NEW d, Metric(NodesOf(g), d), NEW n \in NodesOf(g), NEW K \in SUBSET NodesOf(g),
         Triangles(NodesOf(g), d, K)
  PROVE  /\ Metric(NodesOf(g), Through(g, d, n))
         /\ \A a, b \in NodesOf(g) : Through(g, d, n)[<<a, b>>] <= d[<<a, b>>]
         /\ Triangles(NodesOf(g), Through(g, d, n), K \cup {n})
<1> DEFINE V == NodesOf(g)
           e == Through(g, d, n)
<1>1. /\ d \in [V \X V -> Int] /\ e \in [V \X V -> Int]
      /\ \A a, b \in V : e[<<a, b>>] = Least(d[<<a, b>>], d[<<a, n>>] + d[<<n, b>>])
      /\ \A a, b \in V : d[<<a, b>>] \in Int /\ e[<<a, b>>] \in Int
  <2>1. d \in [V \X V -> Int]
    BY DEF Metric
  <2>2. /\ e \in [V \X V -> Int]
        /\ \A a, b \in V : e[<<a, b>>] = Least(d[<<a, b>>], d[<<a, n>>] + d[<<n, b>>])
    <3>1. e \in [V \X V -> Int]
      BY <2>1, ThroughIs
    <3>2. ASSUME NEW a \in V, NEW b \in V PROVE e[<<a, b>>] = Least(d[<<a, b>>], d[<<a, n>>] + d[<<n, b>>])
      BY ThroughAt
    <3> QED
      BY <3>1, <3>2
  <2> QED
    BY <2>1, <2>2
<1> HIDE DEF e
<1>2. /\ \A a \in V : d[<<a, a>>] = 0
      /\ \A a, b \in V : 0 <= d[<<a, b>>] /\ d[<<a, b>>] <= Infinite
  BY DEF Metric
<1>3. ASSUME NEW a \in V, NEW b \in V
      PROVE  /\ 0 <= e[<<a, b>>] /\ e[<<a, b>>] <= d[<<a, b>>] /\ e[<<a, b>>] <= Infinite
             /\ e[<<a, b>>] <= d[<<a, n>>] + d[<<n, b>>]
             /\ e[<<a, b>>] = d[<<a, b>>] \/ e[<<a, b>>] = d[<<a, n>>] + d[<<n, b>>]
  <2>1. PICK x, y, z \in Int : x = d[<<a, b>>] /\ y = d[<<a, n>>] /\ z = d[<<n, b>>]
    BY <1>1
  <2>2. 0 <= x /\ x <= Infinite /\ 0 <= y /\ 0 <= z
    BY <1>2, <2>1
  <2>3. e[<<a, b>>] = Least(x, y + z)
    BY <1>1, <2>1
  <2> QED
    BY <2>1, <2>2, <2>3 DEF Least, Infinite
<1>4. ASSUME NEW a \in V PROVE e[<<a, a>>] = 0
  <2>1. e[<<a, a>>] \in Int /\ 0 <= e[<<a, a>>] /\ e[<<a, a>>] <= 0
    BY <1>1, <1>2, <1>3
  <2> QED
    BY <2>1
<1>5. Metric(V, e)
  BY <1>1, <1>3, <1>4 DEF Metric
<1>6. ASSUME NEW a \in V, NEW b \in V, NEW k \in K PROVE e[<<a, b>>] <= e[<<a, k>>] + e[<<k, b>>]
  <2>1. k \in V
    OBVIOUS
  <2>2. PICK ab, ak, kb, an, nb, nk, kn \in Int :
          /\ ab = d[<<a, b>>] /\ ak = d[<<a, k>>] /\ kb = d[<<k, b>>] /\ an = d[<<a, n>>]
          /\ nb = d[<<n, b>>] /\ nk = d[<<n, k>>] /\ kn = d[<<k, n>>]
    BY <1>1, <2>1
  <2>3. PICK eab, eak, ekb \in Int : eab = e[<<a, b>>] /\ eak = e[<<a, k>>] /\ ekb = e[<<k, b>>]
    BY <1>1, <2>1
  <2>4. eab <= ab /\ eab <= an + nb
    BY <1>3, <2>2, <2>3
  <2>5. (eak = ak \/ eak = an + nk) /\ (ekb = kb \/ ekb = kn + nb)
    BY <1>3, <2>1, <2>2, <2>3
  <2>6. ab <= ak + kb /\ nb <= nk + kb /\ an <= ak + kn
    BY <2>1, <2>2 DEF Triangles
  <2>7. 0 <= nk /\ 0 <= kn
    BY <1>2, <2>1, <2>2
  <2>8. eab <= eak + ekb
    BY <2>4, <2>5, <2>6, <2>7
  <2> QED
    BY <2>3, <2>8
<1>7. ASSUME NEW a \in V, NEW b \in V PROVE e[<<a, b>>] <= e[<<a, n>>] + e[<<n, b>>]
  <2>1. PICK an, nb, nn \in Int : an = d[<<a, n>>] /\ nb = d[<<n, b>>] /\ nn = d[<<n, n>>]
    BY <1>1
  <2>2. nn = 0
    BY <1>2, <2>1
  <2>3. PICK eab, ean, enb \in Int : eab = e[<<a, b>>] /\ ean = e[<<a, n>>] /\ enb = e[<<n, b>>]
    BY <1>1
  <2>4. eab <= an + nb
    BY <1>3, <2>1, <2>3
  <2>5. ean = an \/ ean = an + nn
    BY <1>3, <2>1, <2>3
  <2>6. enb = nb \/ enb = nn + nb
    BY <1>3, <2>1, <2>3
  <2>7. eab <= ean + enb
    BY <2>2, <2>4, <2>5, <2>6
  <2> QED
    BY <2>3, <2>7
<1>8. Triangles(V, e, K \cup {n})
  BY <1>6, <1>7 DEF Triangles
<1> QED
  BY <1>3, <1>5, <1>8 DEF e

LEMMA DistancesAreMetric ==
  ASSUME NEW g, GraphOK(g), Positive(g), LightLinks(g)
  PROVE  /\ Metric(NodesOf(g), Distances(g))
         /\ Triangles(NodesOf(g), Distances(g), NodesOf(g))
         /\ \A a \in NodesOf(g) : \A b \in Neighbours(g, a) : Distances(g)[<<a, b>>] <= Weight(g, a, b)
<1> DEFINE V == NodesOf(g)
           m == g.num
           Close(d) == \A a \in V : \A b \in Neighbours(g, a) : d[<<a, b>>] <= Weight(g, a, b)
<1>1. PICK via : Via(g, via)
  BY DistancesUnfold
<1>2. m \in Nat /\ m # 0 /\ V = 0..(m - 1) /\ \A a \in V : Neighbours(g, a) \in SUBSET V
  BY NodesAre DEF GraphOK
<1>3. ASSUME NEW a \in V, NEW b \in Neighbours(g, a)
      PROVE  Weight(g, a, b) \in Int /\ 0 < Weight(g, a, b) /\ Weight(g, a, b) < Infinite
  <2>1. Weight(g, a, b) \in Int /\ 0 < Weight(g, a, b) /\ Key(a, b) \in LinksOf(g)
    BY WeightIs
  <2> QED
    BY <2>1 DEF LightLinks, Weight
<1> HIDE DEF m
<1> DEFINE G == {n \in 0..m : Metric(V, via[n]) /\ Triangles(V, via[n], 0..(n - 1)) /\ Close(via[n])}
<1>4. 0 \in G
  <2>1. via[0] = Direct(g) /\ 0 \in 0..m
    BY <1>1, <1>2 DEF Via
  <2>2. /\ Direct(g) \in [V \X V -> Int]
        /\ \A a, b \in V : Direct(g)[<<a, b>>] =
             IF a = b THEN 0 ELSE IF b \in Neighbours(g, a) THEN Weight(g, a, b) ELSE Infinite
    BY DirectIs
  <2>3. ASSUME NEW a \in V, NEW b \in V PROVE 0 <= Direct(g)[<<a, b>>] /\ Direct(g)[<<a, b>>] <= Infinite
    <3>1. CASE a = b
      BY <2>2, <3>1 DEF Infinite
    <3>2. CASE a # b /\ b \in Neighbours(g, a)
      <4>1. Direct(g)[<<a, b>>] = Weight(g, a, b)
        BY <2>2, <3>2
      <4> QED
        BY <1>3, <3>2, <4>1 DEF Infinite
    <3>3. CASE a # b /\ b \notin Neighbours(g, a)
      <4>1. Direct(g)[<<a, b>>] = Infinite
        BY <2>2, <3>3
      <4> QED
        BY <4>1 DEF Infinite
    <3> QED
      BY <3>1, <3>2, <3>3
  <2>4. Metric(V, Direct(g))
    BY <2>2, <2>3 DEF Metric
  <2>5. Triangles(V, Direct(g), 0..(0 - 1))
    BY DEF Triangles
  <2>6. ASSUME NEW a \in V, NEW b \in Neighbours(g, a) PROVE Direct(g)[<<a, b>>] <= Weight(g, a, b)
    <3>1. b \in V /\ Weight(g, a, b) \in Int /\ 0 < Weight(g, a, b)
      BY <1>2, <1>3
    <3>2. Direct(g)[<<a, b>>] = 0 \/ Direct(g)[<<a, b>>] = Weight(g, a, b)
      BY <2>2, <3>1
    <3> QED
      BY <3>1, <3>2
  <2> QED
    BY <2>1, <2>4, <2>5, <2>6
<1>5. ASSUME NEW n \in 0..m, n # m, n \in G PROVE n + 1 \in G
  <2> DEFINE d == via[n]
             e == via[n + 1]
  <2>1. n \in V /\ n \in 0..(m - 1) /\ n + 1 \in 0..m /\ 0..(n + 1 - 1) = (0..(n - 1)) \cup {n}
    BY <1>2, <1>5
  <2>2. e = Through(g, d, n)
    BY <1>1, <2>1 DEF Via, m
  <2>3. Metric(V, d) /\ Triangles(V, d, 0..(n - 1)) /\ Close(d)
    BY <1>5
  <2>4. 0..(n - 1) \in SUBSET V
    BY <1>2, <2>1
  <2> HIDE DEF d, e, V
  <2>5. Metric(V, e) /\ (\A a, b \in V : e[<<a, b>>] <= d[<<a, b>>]) /\ Triangles(V, e, (0..(n - 1)) \cup {n})
    BY <2>1, <2>2, <2>3, <2>4, ThroughKeeps DEF V
  <2>6. Close(e)
    <3>1. ASSUME NEW a \in V, NEW b \in Neighbours(g, a) PROVE e[<<a, b>>] <= Weight(g, a, b)
      <4>1. b \in V /\ Weight(g, a, b) \in Int
        BY <1>2, <1>3
      <4>2. e[<<a, b>>] \in Int /\ d[<<a, b>>] \in Int
        BY <2>3, <2>5, <4>1 DEF Metric
      <4>3. e[<<a, b>>] <= d[<<a, b>>] /\ d[<<a, b>>] <= Weight(g, a, b)
        BY <2>3, <2>5, <4>1
      <4> QED
        BY <4>1, <4>2, <4>3
    <3> QED
      BY <3>1
  <2>7. Triangles(V, e, 0..(n + 1 - 1))
    BY <2>1, <2>5
  <2> HIDE DEF Close
  <2> QED
    BY <2>1, <2>5, <2>6, <2>7 DEF e
<1>6. m \in G
  <2> HIDE DEF G
  <2>1. 0..m \subseteq G
    BY <1>2, <1>4, <1>5, UpTo
  <2> QED
    BY <1>2, <2>1
<1>7. via[m] = Distances(g) /\ 0..(m - 1) = V
  BY <1>1, <1>2 DEF Via, m
<1> QED
  BY <1>6, <1>7

(* A function that rises along no link by more than its weight. *)
Potential(g, pot) ==
  /\ pot \in [NodesOf(g) -> Int]
  /\ \A a, b \in NodesOf(g) : pot[b] - pot[a] <= Infinite
  /\ \A a \in NodesOf(g) : \A b \in Neighbours(g, a) : pot[b] <= pot[a] + Weight(g, a, b)

LEMMA PotentialsAreBelow ==
  ASSUME NEW g, GraphOK(g), NEW pot, Potential(g, pot)
  PROVE  \A a, b \in NodesOf(g) : pot[b] - pot[a] <= Distances(g)[<<a, b>>]
<1> DEFINE V == NodesOf(g)
           m == g.num
<1>1. PICK via : Via(g, via)
  BY DistancesUnfold
<1>2. m \in Nat /\ m # 0 /\ V = 0..(m - 1) /\ \A a \in V : Neighbours(g, a) \in SUBSET V
  BY NodesAre DEF GraphOK
<1>3. \A a \in V : pot[a] \in Int
  BY DEF Potential
<1> HIDE DEF m
<1> DEFINE G == {n \in 0..m : \A a, b \in V : pot[b] - pot[a] <= via[n][<<a, b>>]}
<1>4. 0 \in G
  <2>1. via[0] = Direct(g) /\ 0 \in 0..m
    BY <1>1, <1>2 DEF Via
  <2>2. ASSUME NEW a \in V, NEW b \in V PROVE pot[b] - pot[a] <= Direct(g)[<<a, b>>]
    <3>0. pot[a] \in Int /\ pot[b] \in Int
      BY <1>3
    <3>1. Direct(g)[<<a, b>>] = IF a = b THEN 0 ELSE IF b \in Neighbours(g, a) THEN Weight(g, a, b) ELSE Infinite
      BY DirectIs
    <3>2. CASE a = b
      BY <3>0, <3>1, <3>2
    <3>3. CASE a # b /\ b \in Neighbours(g, a)
      <4>1. pot[b] <= pot[a] + Weight(g, a, b) /\ Weight(g, a, b) \in Int
        BY <3>3, WeightIs DEF Potential
      <4> QED
        BY <3>0, <3>1, <3>3, <4>1
    <3>4. CASE a # b /\ b \notin Neighbours(g, a)
      BY <3>1, <3>4 DEF Potential
    <3> QED
      BY <3>2, <3>3, <3>4
  <2> QED
    BY <2>1, <2>2
<1>5. ASSUME NEW n \in 0..m, n # m, n \in G PROVE n + 1 \in G
  <2>1. n \in V /\ n \in 0..(m - 1) /\ n + 1 \in 0..m
    BY <1>2, <1>5
  <2>2. via[n + 1] = Through(g, via[n], n) /\ via[n] \in [V \X V -> Int]
    BY <1>1, <2>1 DEF Via, m
  <2>3. ASSUME NEW a \in V, NEW b \in V PROVE pot[b] - pot[a] <= via[n + 1][<<a, b>>]
    <3>1. via[n + 1][<<a, b>>] = Least(via[n][<<a, b>>], via[n][<<a, n>>] + via[n][<<n, b>>])
      BY <2>2, ThroughAt
    <3>2. PICK x, y, z \in Int : x = via[n][<<a, b>>] /\ y = via[n][<<a, n>>] /\ z = via[n][<<n, b>>]
      BY <2>1, <2>2
    <3>3. pot[b] - pot[a] <= x /\ pot[n] - pot[a] <= y /\ pot[b] - pot[n] <= z
      BY <1>5, <2>1, <3>2
    <3>4. pot[a] \in Int /\ pot[b] \in Int /\ pot[n] \in Int
      BY <1>3, <2>1
    <3> QED
      BY <3>1, <3>2, <3>3, <3>4 DEF Least
  <2> QED
    BY <2>1, <2>3
<1>6. m \in G
  <2> HIDE DEF G
  <2>1. 0..m \subseteq G
    BY <1>2, <1>4, <1>5, UpTo
  <2> QED
    BY <1>2, <2>1
<1>7. via[m] = Distances(g)
  BY <1>1 DEF Via, m
<1> QED
  BY <1>6, <1>7

-----------------------------------------------------------------------------
(* What the search finds.                                                  *)

(* Its distances are never below the real ones.                            *)
Above(g, src, s) == \A v \in NodesOf(g) : Distances(g)[<<src, v>>] <= s.dist[v]

LEMMA TurnAbove ==
  ASSUME NEW g, GraphOK(g), Positive(g), LightLinks(g), NEW goal, NEW src \in NodesOf(g),
         NEW s \in Searches(g), Above(g, src, s)
  PROVE  Above(g, src, Turn(g, goal, s))
<1> DEFINE V == NodesOf(g)
           t == Turn(g, goal, s)
           D == Distances(g)
<1>1. CASE Ended(s, goal) \/ Stale(s)
  BY <1>1, TurnDoes DEF Above
<1>2. CASE ~Ended(s, goal) /\ ~Stale(s)
  <2> DEFINE u == Top(s)[2]
             better == {v \in Neighbours(g, u) : Improves(g, s, u, v)}
  <2>1. t = Relaxed(g, s) /\ u \in V
    BY <1>2, TurnDoes, TopIsLeast DEF Ended
  <2>2. t.dist = [v \in V |-> IF v \in better THEN s.dist[u] + Weight(g, u, v) ELSE s.dist[v]]
    BY <2>1 DEF Relaxed
  <2>3. /\ \A v \in better : v \in Neighbours(g, u)
        /\ \A a, b \in V : D[<<a, b>>] \in Int
        /\ \A v \in V : s.dist[v] \in Int
    BY DistancesAreMetric DEF Metric, Searches
  <2> HIDE DEF better, t, u, D
  <2>4. ASSUME NEW v \in V PROVE D[<<src, v>>] <= t.dist[v]
    <3>1. CASE v \in better
      <4>1. v \in Neighbours(g, u) /\ Weight(g, u, v) \in Int
        BY <2>1, <2>3, <3>1, WeightIs
      <4>2. D[<<src, u>>] <= s.dist[u] /\ D[<<u, v>>] <= Weight(g, u, v)
        BY <2>1, <4>1, DistancesAreMetric DEF Above, D
      <4>3. D[<<src, v>>] <= D[<<src, u>>] + D[<<u, v>>]
        BY <2>1, DistancesAreMetric DEF Triangles, D
      <4>4. t.dist[v] = s.dist[u] + Weight(g, u, v)
        BY <2>2, <3>1
      <4>5. D[<<src, v>>] \in Int /\ D[<<src, u>>] \in Int /\ D[<<u, v>>] \in Int /\ s.dist[u] \in Int
        BY <2>1, <2>3
      <4> QED
        BY <4>1, <4>2, <4>3, <4>4, <4>5
    <3>2. CASE v \notin better
      BY <2>2, <3>2 DEF Above, D
    <3> QED
      BY <3>1, <3>2
  <2> QED
    BY <2>4 DEF Above, D, t
<1> QED
  BY <1>1, <1>2

LEMMA SearchAbove ==
  ASSUME NEW g, GraphOK(g), Positive(g), LightLinks(g), NEW goal, NEW src \in NodesOf(g), NEW n \in Nat
  PROVE  Above(g, src, After(g, src, goal, n))
<1> DEFINE G == {s \in Searches(g) : Above(g, src, s)}
<1>1. Begin(g, src) \in G
  <2> DEFINE s == Begin(g, src)
  <2>1. s \in Searches(g)
    BY BeginTyped
  <2>2. s.dist = [v \in NodesOf(g) |-> IF v = src THEN 0 ELSE Infinite]
    BY DEF Begin
  <2> HIDE DEF s
  <2>3. ASSUME NEW v \in NodesOf(g) PROVE Distances(g)[<<src, v>>] <= s.dist[v]
    <3>1. Distances(g)[<<src, src>>] = 0 /\ Distances(g)[<<src, v>>] <= Infinite
      BY DistancesAreMetric DEF Metric
    <3> QED
      BY <2>2, <3>1
  <2> QED
    BY <2>1, <2>3 DEF Above, s
<1>2. \A s \in Searches(g) : s \in G => Turn(g, goal, s) \in G
  BY TurnAbove, TurnDoes
<1>3. After(g, src, goal, n) \in G
  <2> HIDE DEF G
  <2> QED
    BY <1>1, <1>2, SearchKeeps
<1> QED
  BY <1>3

(* Nor above them, as far as the search has got: the settled distances,    *)
(* cut off at the head of the queue, are a potential.                      *)
LEMMA SearchBelow ==
  ASSUME NEW g, GraphOK(g), Positive(g), NEW goal, NEW src \in NodesOf(g), NEW s \in Searches(g),
         Settles(g, goal, src, s), NEW h \in Int, 0 <= h, h <= Infinite, \A q \in s.queue : h <= q[1]
  PROVE  \A v \in NodesOf(g) : Least(s.dist[v], h) <= Distances(g)[<<src, v>>]
<1> DEFINE V == NodesOf(g)
           pot == [v \in V |-> Least(s.dist[v], h)]
<1>1. \A v \in V : s.dist[v] \in Int /\ 0 <= s.dist[v]
  BY DEF Searches, Settles
<1>2. ASSUME NEW v \in V PROVE pot[v] \in Int /\ 0 <= pot[v] /\ pot[v] <= h /\ pot[v] <= s.dist[v]
                               /\ (pot[v] = h \/ pot[v] = s.dist[v])
  BY <1>1 DEF Least
<1>3. pot \in [V -> Int]
  BY <1>2
<1>4. ASSUME NEW a \in V, NEW b \in V PROVE pot[b] - pot[a] <= Infinite
  <2>1. pot[a] \in Int /\ pot[b] \in Int /\ 0 <= pot[a] /\ pot[b] <= h
    BY <1>2
  <2> HIDE DEF pot
  <2> QED
    BY <2>1 DEF Infinite
<1>5. ASSUME NEW a \in V, NEW b \in Neighbours(g, a) PROVE pot[b] <= pot[a] + Weight(g, a, b)
  <2>1. b \in V /\ Weight(g, a, b) \in Int /\ 0 < Weight(g, a, b)
    BY WeightIs
  <2>2. /\ pot[a] \in Int /\ pot[b] \in Int /\ pot[b] <= h /\ pot[b] <= s.dist[b]
        /\ (pot[a] = h \/ pot[a] = s.dist[a]) /\ pot[a] <= h
    BY <1>2, <2>1
  <2>3. s.dist[a] \in Int /\ s.dist[b] \in Int
    BY <1>1, <2>1
  <2> HIDE DEF pot
  <2>4. CASE a \in Settled(s)
    <3>1. s.dist[b] <= s.dist[a] + Weight(g, a, b)
      BY <2>4 DEF Settles
    <3> QED
      BY <2>1, <2>2, <2>3, <3>1
  <2>5. CASE a \notin Settled(s)
    <3>1. DOMAIN s.dist = V
      BY DEF Searches
    <3>2. s.dist[a] < Infinite => <<s.dist[a], a>> \in s.queue
      BY <2>5, <3>1 DEF Settled
    <3>3. h <= s.dist[a]
      <4>1. CASE s.dist[a] < Infinite
        <5>1. PICK q \in s.queue : q = <<s.dist[a], a>>
          BY <3>2, <4>1
        <5> QED
          BY <5>1
      <4>2. CASE ~(s.dist[a] < Infinite)
        BY <2>3, <4>2 DEF Infinite
      <4> QED
        BY <4>1, <4>2
    <3>4. pot[a] = h
      <4>1. pot[a] = Least(s.dist[a], h)
        BY DEF pot
      <4> QED
        BY <2>3, <3>3, <4>1 DEF Least
    <3> QED
      BY <2>1, <2>2, <3>4
  <2> QED
    BY <2>4, <2>5
<1>6. Potential(g, pot)
  BY <1>3, <1>4, <1>5 DEF Potential
<1>7. pot[src] = 0
  BY DEF Settles, Least
<1>8. ASSUME NEW v \in V PROVE Least(s.dist[v], h) <= Distances(g)[<<src, v>>]
  <2>1. pot[v] - pot[src] <= Distances(g)[<<src, v>>]
    <3> HIDE DEF pot
    <3> QED
      BY <1>6, PotentialsAreBelow
  <2>2. pot[v] - pot[src] = pot[v]
    BY <1>2, <1>7
  <2> QED
    BY <2>1, <2>2
<1> QED
  BY <1>8

(* What a search has found when it ends. *)
Finds(g, goal, src, s) ==
  /\ s \in Searches(g) /\ Reaches(g, goal, src, s) /\ Settles(g, goal, src, s)
  /\ s.queue = {} => \A v \in NodesOf(g) : s.dist[v] = Distances(g)[<<src, v>>]
  /\ s.queue # {} => /\ Top(s)[2] \in goal \cap NodesOf(g) /\ s.dist[Top(s)[2]] < Infinite
                     /\ s.dist[Top(s)[2]] = Distances(g)[<<src, Top(s)[2]>>]
  /\ \A b \in goal \cap NodesOf(g) :
       IF s.queue = {} THEN Distances(g)[<<src, b>>] = Infinite
       ELSE s.dist[Top(s)[2]] <= Distances(g)[<<src, b>>]

LEMMA SearchFinds ==
  ASSUME NEW g, GraphOK(g), Positive(g), LightLinks(g), NEW goal, NEW src \in NodesOf(g)
  PROVE  Finds(g, goal, src, After(g, src, goal, Turns(g)))
<1>0. PICK s : s = After(g, src, goal, Turns(g))
  OBVIOUS
<1> DEFINE V == NodesOf(g)
           D == Distances(g)
<1>1. s \in Searches(g) /\ Reaches(g, goal, src, s) /\ Settles(g, goal, src, s) /\ Ended(s, goal)
  BY <1>0, SearchSettles
<1>2. \A v \in V : D[<<src, v>>] <= s.dist[v] /\ s.dist[v] <= Infinite /\ 0 <= s.dist[v]
  <2>1. Turns(g) \in Nat
    <3>1. Cardinality(LinksOf(g)) \in Nat
      BY FS_CardinalityType DEF GraphOK
    <3> QED
      BY <3>1 DEF Turns
  <2>2. Above(g, src, s)
    BY <1>0, <2>1, SearchAbove
  <2> QED
    BY <1>1, <2>2 DEF Above, Settles
<1>3. \A v \in V : s.dist[v] \in Int /\ D[<<src, v>>] \in Int
  BY <1>1, DistancesAreMetric DEF Searches, Metric
<1>4. \A b \in goal \cap V : s.dist[b] < Infinite => <<s.dist[b], b>> \in s.queue
  <2>1. DOMAIN s.dist = V
    BY <1>1 DEF Searches
  <2>2. \A b \in goal : b \notin Settled(s)
    BY <1>1 DEF Settles
  <2> QED
    BY <2>1, <2>2 DEF Settled
<1> HIDE DEF D
<1>5. CASE s.queue = {}
  <2>1. \A v \in V : Least(s.dist[v], Infinite) <= D[<<src, v>>]
    BY <1>1, <1>5, SearchBelow DEF Infinite, D
  <2>2. \A v \in V : s.dist[v] = D[<<src, v>>]
    BY <1>2, <1>3, <2>1 DEF Least, Infinite
  <2>3. \A b \in goal \cap V : D[<<src, b>>] = Infinite
    <3>1. \A b \in goal \cap V : ~(s.dist[b] < Infinite)
      BY <1>4, <1>5
    <3> QED
      BY <1>2, <1>3, <2>2, <3>1 DEF Infinite
  <2> QED
    BY <1>1, <1>0, <1>5, <2>2, <2>3 DEF D, Finds
<1>6. CASE s.queue # {}
  <2> DEFINE w == Top(s)[2]
             h == Top(s)[1]
  <2>1. /\ Top(s) \in s.queue /\ h \in Int /\ w \in V /\ w \in goal /\ ~Stale(s)
        /\ \A r \in s.queue : h <= r[1]
    BY <1>1, <1>6, TopIsLeast DEF Ended
  <2>2. h = s.dist[w] /\ s.dist[w] < Infinite
    <3>1. s.dist[w] <= h /\ s.dist[w] < Infinite
      BY <1>1, <2>1 DEF Settles, Reaches
    <3>2. ~(h > s.dist[w])
      BY <2>1 DEF Stale
    <3>3. h \in Int /\ s.dist[w] \in Int
      BY <1>3, <2>1
    <3>4. PICK x, y : x = h /\ y = s.dist[w]
      OBVIOUS
    <3>5. x \in Int /\ y \in Int /\ y <= x /\ ~(x > y)
      BY <3>1, <3>2, <3>3, <3>4
    <3>6. x = y
      BY <3>5
    <3> HIDE DEF h, w
    <3> QED
      BY <3>1, <3>4, <3>6
  <2> HIDE DEF h, w
  <2>3. 0 <= h /\ h <= Infinite
    BY <1>2, <2>1, <2>2
  <2>4. \A v \in V : Least(s.dist[v], h) <= D[<<src, v>>]
    BY <1>1, <2>1, <2>3, SearchBelow DEF D
  <2>5. ASSUME NEW b \in goal \cap V PROVE h <= s.dist[b]
    <3>1. CASE s.dist[b] < Infinite
      <4>1. PICK q \in s.queue : q = <<s.dist[b], b>>
        BY <1>4, <3>1
      <4> QED
        BY <2>1, <4>1
    <3>2. CASE ~(s.dist[b] < Infinite)
      <4>1. PICK x : x = s.dist[b] /\ x \in Int
        BY <1>3
      <4>2. ~(x < Infinite) /\ h <= Infinite /\ h \in Int
        BY <2>1, <2>3, <3>2, <4>1
      <4>3. h <= x
        BY <4>1, <4>2 DEF Infinite
      <4> QED
        BY <4>1, <4>3
    <3> QED
      BY <3>1, <3>2
  <2>6. ASSUME NEW b \in goal \cap V PROVE h <= D[<<src, b>>]
    <3>1. h <= s.dist[b] /\ s.dist[b] \in Int /\ Least(s.dist[b], h) <= D[<<src, b>>]
      BY <1>3, <2>4, <2>5
    <3>2. Least(s.dist[b], h) = h
      BY <2>1, <3>1 DEF Least
    <3> QED
      BY <3>1, <3>2
  <2>7. s.dist[w] = D[<<src, w>>]
    <3>1. h <= D[<<src, w>>] /\ D[<<src, w>>] <= s.dist[w] /\ D[<<src, w>>] \in Int /\ s.dist[w] \in Int
      BY <1>2, <1>3, <2>1, <2>6
    <3> QED
      BY <2>1, <2>2, <3>1
  <2>8. \A b \in goal \cap V : s.dist[w] <= D[<<src, b>>]
    BY <2>2, <2>6
  <2> QED
    BY <1>1, <1>6, <2>1, <1>0, <2>2, <2>7, <2>8 DEF w, D, Finds
<1> QED
  BY <1>5, <1>6

LEMMA GraphIsLight ==
  ASSUME RunInv, phase # "measured", Measured(table)
  PROVE  /\ GraphOK(graph) /\ Positive(graph) /\ LightLinks(graph)
         /\ graph.num = NumNodes /\ NodesOf(graph) = MeshNodes
<1>1. GraphOK(graph) /\ Positive(graph) /\ ReadFrom(graph, table) /\ Short(table) /\ graph.num = NumNodes
  BY GraphIs DEF ReadFrom
<1>2. ASSUME NEW k \in LinksOf(graph) PROVE graph.link[k].delay < Infinite
  <2>1. PICK d \in Int : d = graph.link[k].delay /\ d > 0
    BY <1>1 DEF GraphOK, Positive
  <2>2. NumNodes * d < Infinite
    BY <1>1, <2>1 DEF ReadFrom, Short
  <2>3. PICK n \in Nat : NumNodes = n + 1
    <3>1. NumNodes - 1 \in Nat /\ NumNodes = NumNodes - 1 + 1
      BY NodesAssumption
    <3> QED
      BY <3>1
  <2>4. (n + 1) * d = n * d + d
    BY <2>1, <2>3
  <2>5. n * d >= 0 /\ n * d \in Int
    BY <2>1, <2>3
  <2>6. n * d + d < Infinite
    BY <2>2, <2>3, <2>4
  <2> QED
    BY <2>1, <2>5, <2>6 DEF Infinite
<1> QED
  BY <1>1, <1>2 DEF LightLinks, MeshNodes, NodesOf

LEMMA MinIs ==
  ASSUME NEW S \in SUBSET Int, NEW m \in S, \A n \in S : m <= n
  PROVE  Min(S) = m
<1>1. \A x \in S : (\A y \in S : x <= y) => x = m
  BY DEF Min
<1>2. (CHOOSE x \in S : \A y \in S : x <= y) = m
  BY <1>1
<1> QED
  BY <1>2 DEF Min

(* Along a trail distances are the sums of the weights passed.             *)
LEMMA PathAddsUp ==
  ASSUME NEW g, GraphOK(g), NEW goal, NEW src \in NodesOf(g), NEW s \in Searches(g),
         Reaches(g, goal, src, s), Settles(g, goal, src, s),
         NEW to \in NodesOf(g), NEW w, Chain(g, s, to, w), w[1] = src
  PROVE  /\ PathDelay(g, w) = s.dist[to]
         /\ \A i \in 1..(Len(w) - 1) : Key(w[i], w[i + 1]) \in LinksOf(g)
<1>1. PICK m \in Nat : Len(w) = m + 1
  <2>1. Len(w) \in Nat /\ Len(w) >= 1
    BY DEF Chain
  <2>2. Len(w) - 1 \in Nat /\ Len(w) = Len(w) - 1 + 1
    BY <2>1
  <2> QED
    BY <2>2
<1>2. w[m + 1] = to /\ \A i \in 1..(m + 1) : w[i] \in NodesOf(g)
  <2>1. \A i \in 1..Len(w) : w[i] \in NodesOf(g)
    BY ElementOfSeq DEF Chain
  <2> QED
    BY <1>1, <2>1 DEF Chain
<1>3. ASSUME NEW i \in 1..m
      PROVE  /\ w[i] \in NodesOf(g) /\ w[i + 1] \in NodesOf(g) /\ Key(w[i], w[i + 1]) \in LinksOf(g)
             /\ Weight(g, w[i], w[i + 1]) \in Int
             /\ s.dist[w[i + 1]] = s.dist[w[i]] + Weight(g, w[i], w[i + 1])
  <2>1. i \in 1..(m + 1) /\ i + 1 \in 1..(m + 1) /\ i \in 1..(Len(w) - 1)
    BY <1>1
  <2>2. s.prev[w[i + 1]] = w[i] /\ w[i] \in NodesOf(g) /\ w[i + 1] \in NodesOf(g)
    BY <1>2, <2>1 DEF Chain
  <2>3. s.prev[w[i + 1]] # None
    BY <2>2, NodesAre
  <2>4. w[i + 1] \in Neighbours(g, w[i]) /\ s.dist[w[i + 1]] = s.dist[w[i]] + Weight(g, w[i], w[i + 1])
    BY <2>2, <2>3 DEF Reaches, Settles
  <2> QED
    BY <2>2, <2>4, WeightIs
<1> DEFINE f == [i \in 1..m |-> Weight(g, w[i], w[i + 1])]
<1>4. PathDelay(g, w) = SumFunctionOnSet(f, 1..m)
  <2>1. Len(w) - 1 = m
    BY <1>1
  <2> QED
    BY <2>1 DEF PathDelay, SumFunction
<1>5. IsFiniteSet(1..m) /\ \A i \in 1..m : f[i] \in Int /\ f[i] = Weight(g, w[i], w[i + 1])
  BY <1>3, FS_Interval
<1> HIDE DEF f
<1>6. /\ SumFunctionOnSet(f, {}) = 0
      /\ \A t \in SUBSET (1..m) : \A x \in 1..m : x \notin t =>
           SumFunctionOnSet(f, t \cup {x}) = SumFunctionOnSet(f, t) + f[x]
  <2>1. PICK S : S = 1..m
    OBVIOUS
  <2>2. IsFiniteSet(S) /\ \A x \in S : f[x] \in Int
    BY <1>5, <2>1
  <2>3. /\ SumFunctionOnSet(f, {}) = 0
        /\ \A t \in SUBSET S : \A x \in S : x \notin t =>
             SumFunctionOnSet(f, t \cup {x}) = SumFunctionOnSet(f, t) + f[x]
    BY <2>2, SumAdds
  <2> QED
    BY <2>1, <2>3
<1> DEFINE G == {n \in 0..m : SumFunctionOnSet(f, 1..n) = s.dist[w[n + 1]]}
<1>7. 0 \in G
  <2>1. 1..0 = {} /\ 0 \in 0..m /\ 0 + 1 = 1
    OBVIOUS
  <2>2. s.dist[src] = 0
    BY DEF Settles
  <2> QED
    BY <1>6, <2>1, <2>2
<1>8. ASSUME NEW n \in 0..m, n # m, n \in G PROVE n + 1 \in G
  <2>1. n + 1 \in 1..m /\ n + 1 \in 0..m /\ 1..(n + 1) = (1..n) \cup {n + 1} /\ n + 1 \notin 1..n
        /\ 1..n \in SUBSET (1..m)
    BY <1>8
  <2>2. SumFunctionOnSet(f, 1..(n + 1)) = SumFunctionOnSet(f, 1..n) + f[n + 1]
    BY <1>6, <2>1
  <2>3. s.dist[w[n + 1 + 1]] = s.dist[w[n + 1]] + Weight(g, w[n + 1], w[n + 1 + 1])
    BY <1>3, <2>1
  <2>4. f[n + 1] = Weight(g, w[n + 1], w[n + 1 + 1])
    BY <1>5, <2>1
  <2>5. SumFunctionOnSet(f, 1..n) = s.dist[w[n + 1]]
    BY <1>8
  <2>6. SumFunctionOnSet(f, 1..(n + 1)) = s.dist[w[n + 1 + 1]]
    BY <2>2, <2>3, <2>4, <2>5
  <2> QED
    BY <2>1, <2>6
<1>9. m \in G
  <2> HIDE DEF G
  <2>1. 0..m \subseteq G
    BY <1>7, <1>8, UpTo
  <2> QED
    BY <2>1
<1>10. \A i \in 1..(Len(w) - 1) : Key(w[i], w[i + 1]) \in LinksOf(g)
  <2>1. Len(w) - 1 = m
    BY <1>1
  <2> QED
    BY <1>3, <2>1
<1> QED
  BY <1>2, <1>4, <1>9, <1>10

Nearest(g, a, goal, near, path) ==
  IF near >= Infinite THEN path = <<>>
  ELSE /\ path # <<>> /\ path[1] = a /\ Last(path) \in goal
       /\ \A i \in 1..(Len(path) - 1) : Key(path[i], path[i + 1]) \in LinksOf(g)
       /\ PathDelay(g, path) = near

LEMMA NearestIs ==
  ASSUME NEW g, GraphOK(g), Positive(g), LightLinks(g), NEW a \in NodesOf(g),
         NEW goal \in SUBSET NodesOf(g), goal # {}
  PROVE  Nearest(g, a, goal, Min({Distances(g)[<<a, b>>] : b \in goal}), NearestInSet(g, a, goal))
<1> DEFINE D == Distances(g)
           S == {D[<<a, b>>] : b \in goal}
           s == After(g, a, goal, Turns(g))
           path == NearestInSet(g, a, goal)
<1>1. /\ \A b \in goal : D[<<a, b>>] \in Int /\ 0 <= D[<<a, b>>] /\ D[<<a, b>>] <= Infinite
      /\ D[<<a, a>>] = 0
  BY DistancesAreMetric DEF Metric
<1> HIDE DEF D
<1>2. S \in SUBSET Int
  BY <1>1
<1>3. CASE a \in goal
  <2>1. Min(S) = 0
    <3>1. 0 \in S /\ \A n \in S : 0 <= n
      BY <1>1, <1>3
    <3> QED
      BY <1>2, <3>1, MinIs
  <2>2. path = <<a>>
    BY <1>3 DEF NearestInSet, PathFound
  <2>3. Len(path) = 1 /\ path[1] = a /\ Last(path) = a /\ path # <<>> /\ 1..(Len(path) - 1) = {}
    BY <2>2 DEF Last
  <2> HIDE DEF path
  <2>4. PathDelay(g, path) = 0
    <3> DEFINE f == [i \in 1..(Len(path) - 1) |-> Weight(g, path[i], path[i + 1])]
    <3>1. DOMAIN f = {}
      BY <2>3
    <3>2. PathDelay(g, path) = SumFunctionOnSet(f, {})
      BY <3>1 DEF PathDelay, SumFunction
    <3> HIDE DEF f
    <3>3. SumFunctionOnSet(f, {}) = 0
      <4>1. IsFiniteSet({}) /\ \A x \in {} : f[x] \in Int
        BY FS_EmptySet
      <4> QED
        BY <4>1, SumAdds
    <3> QED
      BY <3>2, <3>3
  <2> QED
    BY <1>3, <2>1, <2>3, <2>4 DEF Nearest, Infinite, D, path
<1>4. CASE a \notin goal
  <2>1. /\ s \in Searches(g) /\ Reaches(g, goal, a, s) /\ Settles(g, goal, a, s)
        /\ s.queue # {} => /\ Top(s)[2] \in goal \cap NodesOf(g) /\ s.dist[Top(s)[2]] < Infinite
                           /\ s.dist[Top(s)[2]] = D[<<a, Top(s)[2]>>]
        /\ \A b \in goal \cap NodesOf(g) :
             IF s.queue = {} THEN D[<<a, b>>] = Infinite ELSE s.dist[Top(s)[2]] <= D[<<a, b>>]
    BY SearchFinds DEF D, Finds
  <2>2. path = IF s.queue = {} THEN <<>> ELSE Trail(s, Top(s)[2])
    BY <1>4 DEF NearestInSet, PathFound
  <2> HIDE DEF s, path
  <2>3. CASE s.queue = {}
    <3>0. \A b \in goal : D[<<a, b>>] = Infinite
      <4>1. \A b \in goal : b \in goal \cap NodesOf(g)
        OBVIOUS
      <4> QED
        BY <2>1, <2>3, <4>1
    <3>1. Infinite \in S /\ \A n \in S : Infinite <= n
      <4>1. PICK b \in goal : TRUE
        OBVIOUS
      <4>2. D[<<a, b>>] \in S /\ D[<<a, b>>] = Infinite
        BY <3>0
      <4>3. \A n \in S : n = Infinite
        BY <3>0
      <4>4. Infinite <= Infinite
        BY DEF Infinite
      <4> QED
        BY <4>2, <4>3, <4>4
    <3>2. Min(S) = Infinite
      BY <1>2, <3>1, MinIs
    <3> QED
      BY <2>2, <2>3, <3>2 DEF Nearest, Infinite, D, path
  <2>4. CASE s.queue # {}
    <3> DEFINE v == Top(s)[2]
    <3>1. v \in goal /\ v \in NodesOf(g) /\ s.dist[v] < Infinite /\ s.dist[v] = D[<<a, v>>]
          /\ \A b \in goal : s.dist[v] <= D[<<a, b>>]
      BY <2>1, <2>4
    <3>2. path = Trail(s, v)
      BY <2>2, <2>4
    <3> HIDE DEF v
    <3>3. Min(S) = s.dist[v]
      <4>1. s.dist[v] \in S /\ \A n \in S : s.dist[v] <= n
        BY <3>1
      <4> QED
        BY <1>2, <4>1, MinIs
    <3>4. Chain(g, s, v, path) /\ path[1] = a
      BY <2>1, <3>1, <3>2, TrailRises
    <3>5. PathDelay(g, path) = s.dist[v] /\ \A i \in 1..(Len(path) - 1) : Key(path[i], path[i + 1]) \in LinksOf(g)
      BY <2>1, <3>1, <3>4, PathAddsUp
    <3>6. path # <<>> /\ Last(path) \in goal
      <4>1. Len(path) >= 1 /\ path[Len(path)] = v
        BY <3>4 DEF Chain
      <4> QED
        BY <3>1, <4>1 DEF Last
    <3>7. s.dist[v] \in Int
      BY <1>1, <3>1
    <3> QED
      BY <3>1, <3>3, <3>4, <3>5, <3>6, <3>7 DEF Nearest, Infinite, D, path
  <2> QED
    BY <2>3, <2>4
<1> QED
  BY <1>3, <1>4

MeansOver(mean, d) ==
  LET reached == {p \in DOMAIN d : p[1] # p[2] /\ d[p] < Infinite}
  IN  mean.pairs = Cardinality(reached) /\ mean.delaySum = SumFunction([p \in reached |-> d[p]])

LEMMA MeansAre ==
  ASSUME NEW g, GraphOK(g), Positive(g), LightLinks(g)
  PROVE  MeansOver(AllPairsMean(g), Distances(g))
<1>0. PICK d, reached : d = Distances(g) /\ reached = {p \in DOMAIN d : p[1] # p[2] /\ d[p] < Infinite}
  OBVIOUS
<1> DEFINE V == NodesOf(g)
           from == [a \in V |-> After(g, a, {}, Turns(g))]
           pairs == {p \in V \X V : p[1] # p[2] /\ from[p[1]].dist[p[2]] < Infinite}
<1>1. DOMAIN d = V \X V
  BY <1>0, DistancesAreMetric DEF Metric
<1>2. ASSUME NEW p \in V \X V PROVE from[p[1]].dist[p[2]] = d[p]
  <2>1. p[1] \in V /\ p[2] \in V /\ p = <<p[1], p[2]>>
    OBVIOUS
  <2>2. PICK s : s = After(g, p[1], {}, Turns(g))
    OBVIOUS
  <2>3. /\ s.queue = {} => \A v \in V : s.dist[v] = d[<<p[1], v>>]
        /\ s.queue # {} => Top(s)[2] \in {} \cap V
    <3>1. PICK none : none = {}
      OBVIOUS
    <3>2. PICK a \in V : a = p[1]
      BY <2>1
    <3>3. s = After(g, a, none, Turns(g))
      BY <2>2, <3>1, <3>2
    <3>4. /\ s.queue = {} => \A v \in V : s.dist[v] = Distances(g)[<<a, v>>]
          /\ s.queue # {} => Top(s)[2] \in none \cap V
      <4>1. Finds(g, none, a, s)
        BY <3>3, SearchFinds
      <4> QED
        BY <4>1 DEF Finds
    <3>5. s.queue = {}
      BY <3>1, <3>4
    <3>6. \A v \in V : s.dist[v] = d[<<a, v>>]
      BY <1>0, <3>4, <3>5
    <3> QED
      BY <3>2, <3>5, <3>6
  <2>4. from[p[1]] = s
    BY <2>1, <2>2
  <2> QED
    BY <2>1, <2>3, <2>4
<1>3. AllPairsMean(g).pairs = Cardinality(pairs)
      /\ AllPairsMean(g).delaySum = SumFunction([p \in pairs |-> from[p[1]].dist[p[2]]])
  BY DEF AllPairsMean
<1> HIDE DEF from
<1>4. pairs = reached
  BY <1>0, <1>1, <1>2
<1>5. [p \in pairs |-> from[p[1]].dist[p[2]]] = [p \in reached |-> d[p]]
  <2>1. \A p \in pairs : from[p[1]].dist[p[2]] = d[p]
    BY <1>2
  <2> HIDE DEF pairs
  <2> QED
    BY <1>4, <2>1
<1> HIDE DEF pairs
<1> QED
  BY <1>0, <1>3, <1>4, <1>5 DEF MeansOver

(* SearchIsShortest holds: whatever the slice and the node, the search     *)
(* finds a nearest member if there is one, and the means are over the      *)
(* reference distances.                                                    *)
THEOREM SearchIsShortestHolds == Spec => []SearchIsShortest
<1>1. RunInv => SearchIsShortest
  <2> SUFFICES ASSUME RunInv, phase = "graph", Measured(table) PROVE SearchIsShortest
    BY DEF SearchIsShortest, Measured
  <2>1. GraphOK(graph) /\ Positive(graph) /\ LightLinks(graph) /\ NodesOf(graph) = MeshNodes
    BY GraphIsLight
  <2>2. ASSUME NEW s \in Slices PROVE ToSet(members[s]) \in SUBSET NodesOf(graph)
    <3>1. PICK request \in Requests, pool \in Pools :
            Accepted(request) /\ members = DrawMembers(request, pool)
      BY DEF RunInv, Drawn
    <3>2. members[s] \in Seq(MeshNodes)
      BY <3>1, MembersAre
    <3>3. \A i \in 1..Len(members[s]) : members[s][i] \in MeshNodes
      BY <3>2, ElementOfSeq
    <3> QED
      BY <2>1, <3>2, <3>3 DEF ToSet
  <2>3. ASSUME NEW s \in Slices, NEW a \in NodesOf(graph), ToSet(members[s]) # {}
        PROVE  Nearest(graph, a, ToSet(members[s]),
                       Min({Distances(graph)[<<a, b>>] : b \in ToSet(members[s])}),
                       NearestInSet(graph, a, ToSet(members[s])))
    BY <2>1, <2>2, <2>3, NearestIs
  <2>4. MeansOver(AllPairsMean(graph), Distances(graph))
    BY <2>1, MeansAre
  <2> QED
    BY <2>3, <2>4 DEF SearchIsShortest, Nearest, MeansOver
<1> QED
  BY <1>1, RunHolds, PTL

-----------------------------------------------------------------------------
(* Trees.                                                                  *)

(* A way from src that meets goal at its end only, and no node twice.      *)
WayTo(g, src, goal, w) ==
  /\ w \in Seq(NodesOf(g)) /\ Len(w) >= 2 /\ w[1] = src /\ w[Len(w)] \in goal
  /\ \A i \in 1..(Len(w) - 1) : w[i] \notin goal /\ w[i + 1] \in Neighbours(g, w[i])
  /\ \A i, j \in 1..Len(w) : i < j => w[i] # w[j]

LEMMA ChainRunsOnce ==
  ASSUME NEW g, GraphOK(g), NEW s \in Searches(g), NEW to, NEW w, Chain(g, s, to, w),
         s.prev[w[1]] = None
  PROVE  \A i, j \in 1..Len(w) : i < j => w[i] # w[j]
<1>1. PICK n \in Nat : n = Len(w)
  BY DEF Chain
<1>2. /\ \A i \in 1..n : w[i] \in NodesOf(g) /\ w[i] # None
      /\ \A i \in 1..(n - 1) : s.prev[w[i + 1]] = w[i]
  <2>1. \A i \in 1..n : w[i] \in NodesOf(g)
    BY <1>1, ElementOfSeq DEF Chain
  <2> QED
    BY <1>1, <2>1, NodesAre DEF Chain
<1>3. ASSUME NEW i \in 1..n, NEW j \in 1..n, i < j, w[i] = w[j] PROVE FALSE
  <2> DEFINE G == {k \in 0..(i - 1) : w[i - k] = w[j - k]}
  <2>1. i - 1 \in Nat /\ 0 \in 0..(i - 1) /\ i - 0 = i /\ j - 0 = j
    OBVIOUS
  <2>2. 0 \in G
    BY <1>3, <2>1
  <2>3. ASSUME NEW k \in 0..(i - 1), k # i - 1, k \in G PROVE k + 1 \in G
    <3>1. k + 1 \in 0..(i - 1) /\ i - (k + 1) \in 1..(n - 1) /\ j - (k + 1) \in 1..(n - 1)
          /\ i - (k + 1) + 1 = i - k /\ j - (k + 1) + 1 = j - k
      BY <1>3, <2>3
    <3>2. s.prev[w[i - k]] = w[i - (k + 1)] /\ s.prev[w[j - k]] = w[j - (k + 1)]
      BY <1>2, <3>1
    <3> QED
      BY <2>3, <3>1, <3>2
  <2>4. i - 1 \in G
    <3> HIDE DEF G
    <3>1. 0..(i - 1) \subseteq G
      BY <2>1, <2>2, <2>3, UpTo
    <3> QED
      BY <2>1, <3>1
  <2>5. w[1] = w[j - (i - 1)]
    BY <2>4
  <2>6. j - i \in 1..(n - 1) /\ j - i + 1 = j - (i - 1) /\ j - i \in 1..n
    BY <1>3
  <2>7. s.prev[w[j - (i - 1)]] = w[j - i] /\ w[j - i] # None
    BY <1>2, <2>6
  <2> QED
    BY <2>5, <2>7
<1> QED
  BY <1>1, <1>3

(* Whatever the weights, a search that comes back brings a way or nothing. *)
LEMMA NearestWay ==
  ASSUME NEW g, GraphOK(g), NEW goal, NEW src \in NodesOf(g), src \notin goal,
         SearchEnds(g, src, goal)
  PROVE  NearestInSet(g, src, goal) = <<>> \/ WayTo(g, src, goal, NearestInSet(g, src, goal))
<1>1. PICK s : s = After(g, src, goal, Turns(g))
  OBVIOUS
<1>2. Turns(g) \in Nat
  <2>1. Cardinality(LinksOf(g)) \in Nat
    BY FS_CardinalityType DEF GraphOK
  <2> QED
    BY <2>1 DEF Turns
<1>3. s \in Searches(g) /\ Reaches(g, goal, src, s)
  BY <1>1, <1>2, SearchReaches
<1>4. CASE s.queue = {}
  BY <1>1, <1>4 DEF NearestInSet, PathFound
<1>5. CASE s.queue # {}
  <2>1. PICK to : to = Top(s)[2]
    OBVIOUS
  <2>2. PICK w : w = Trail(s, to)
    OBVIOUS
  <2>3. NearestInSet(g, src, goal) = w
    BY <1>1, <1>5, <2>1, <2>2 DEF NearestInSet, PathFound
  <2>4. Ended(s, goal) /\ s.prev[Head(w)] = None
    BY <1>1, <1>5, <2>1, <2>2 DEF SearchEnds
  <2>5. to \in goal /\ to \in NodesOf(g) /\ s.dist[to] < Infinite
    BY <1>3, <1>5, <2>1, <2>4, TopIsLeast DEF Ended, Reaches
  <2>6. Chain(g, s, to, w)
    BY <1>3, <2>2, <2>5, TrailIs
  <2>7. PICK n \in Nat : n = Len(w)
    BY <2>6 DEF Chain
  <2>8. /\ w \in Seq(NodesOf(g)) /\ n >= 1 /\ w[n] = to
        /\ \A i \in 1..(n - 1) : s.prev[w[i + 1]] = w[i]
        /\ \A i \in 1..n : w[i] \in NodesOf(g) /\ w[i] # None
    <3>1. w \in Seq(NodesOf(g)) /\ n >= 1 /\ w[n] = to /\ \A i \in 1..(n - 1) : s.prev[w[i + 1]] = w[i]
      BY <2>6, <2>7 DEF Chain
    <3>2. \A i \in 1..n : w[i] \in NodesOf(g)
      BY <2>7, <3>1, ElementOfSeq
    <3> QED
      BY <3>1, <3>2, NodesAre
  <2>9. s.prev[w[1]] = None
    BY <2>4, <2>7, <2>8
  <2>10. ASSUME NEW i \in 1..(n - 1)
         PROVE  w[i] \notin goal /\ w[i + 1] \in Neighbours(g, w[i]) /\ s.dist[w[i]] < Infinite
    <3>1. i \in 1..n /\ i + 1 \in 1..n
      BY <2>7
    <3>2. s.prev[w[i + 1]] = w[i] /\ w[i] # None /\ w[i + 1] \in NodesOf(g)
      BY <2>8, <3>1
    <3> QED
      BY <1>3, <3>2 DEF Reaches
  <2>11. \A v \in NodesOf(g) : s.prev[v] = None /\ s.dist[v] < Infinite => v = src
    BY <1>3 DEF Reaches, Infinite
  <2>12. n >= 2
    <3>1. ASSUME n = 1 PROVE FALSE
      <4>1. to = src
        BY <2>5, <2>8, <2>9, <2>11, <3>1
      <4> QED
        BY <2>5, <4>1
    <3> QED
      BY <2>8, <3>1
  <2>13. w[1] = src
    <3>1. 1 \in 1..(n - 1) /\ 1 \in 1..n
      BY <2>12
    <3> QED
      BY <2>8, <2>9, <2>10, <2>11, <3>1
  <2>14. \A i, j \in 1..n : i < j => w[i] # w[j]
    BY <1>3, <2>6, <2>7, <2>9, ChainRunsOnce
  <2> QED
    BY <2>3, <2>5, <2>7, <2>8, <2>10, <2>12, <2>13, <2>14 DEF WayTo
<1> QED
  BY <1>4, <1>5

LEMMA NearestTyped ==
  ASSUME NEW g, GraphOK(g), NEW goal, NEW src \in NodesOf(g)
  PROVE  NearestInSet(g, src, goal) \in Seq(NodesOf(g))
<1>1. PICK s : s = After(g, src, goal, Turns(g))
  OBVIOUS
<1>2. Turns(g) \in Nat
  <2>1. Cardinality(LinksOf(g)) \in Nat
    BY FS_CardinalityType DEF GraphOK
  <2> QED
    BY <2>1 DEF Turns
<1>3. s \in Searches(g)
  BY <1>1, <1>2, SearchReaches
<1>4. s.queue # {} => Trail(s, Top(s)[2]) \in Seq(NodesOf(g))
  <2> SUFFICES ASSUME s.queue # {} PROVE Trail(s, Top(s)[2]) \in Seq(NodesOf(g))
    OBVIOUS
  <2>1. Top(s)[2] \in NodesOf(g)
    BY <1>3, TopIsLeast
  <2> QED
    BY <1>3, <2>1, TrailIs DEF Chain
<1>5. <<src>> \in Seq(NodesOf(g)) /\ <<>> \in Seq(NodesOf(g))
  OBVIOUS
<1> QED
  BY <1>1, <1>4, <1>5 DEF NearestInSet, PathFound

TreesOf(g) ==
  [root : NodesOf(g), inSet : SUBSET NodesOf(g), links : Seq(NodesOf(g) \X NodesOf(g)),
   parent : [NodesOf(g) -> NodesOf(g) \cup {None}]]
Hops(path) == {i \in DOMAIN path : i < Len(path)}
LinksAlong(path) == [i \in Hops(path) |-> Key(path[i], path[i + 1])]

LEMMA KeyIs ==
  ASSUME NEW g, GraphOK(g), NEW a \in NodesOf(g), NEW b \in NodesOf(g)
  PROVE  /\ Key(a, b) \in NodesOf(g) \X NodesOf(g) /\ Key(a, b) = Key(b, a) /\ ToSet(Key(a, b)) = {a, b}
         /\ \A x, y \in NodesOf(g) : Key(a, b) = Key(x, y) => (x = a /\ y = b) \/ (x = b /\ y = a)
<1>1. a \in Int /\ b \in Int /\ NodesOf(g) \in SUBSET Int
  BY NodesAre
<1>2. \A x, y : ToSet(<<x, y>>) = {x, y}
  <2>1. ASSUME NEW x, NEW y PROVE ToSet(<<x, y>>) = {x, y}
    <3>1. DOMAIN <<x, y>> = {1, 2} /\ <<x, y>>[1] = x /\ <<x, y>>[2] = y
      OBVIOUS
    <3> QED
      BY <3>1 DEF ToSet
  <2> QED
    BY <2>1
<1>3. ToSet(Key(a, b)) = {a, b}
  BY <1>2 DEF Key
<1> QED
  BY <1>1, <1>3 DEF Key

HopsOn(g, path) ==
  /\ Len(path) \in Nat /\ DOMAIN path = 1..Len(path) /\ Hops(path) = 1..(Len(path) - 1)
  /\ \A i \in Hops(path) : path[i] \in NodesOf(g) /\ path[i + 1] \in NodesOf(g)
  /\ LinksAlong(path) \in Seq(NodesOf(g) \X NodesOf(g))
  /\ Len(LinksAlong(path)) = IF path = <<>> THEN 0 ELSE Len(path) - 1
  /\ \A i \in Hops(path) : LinksAlong(path)[i] = Key(path[i], path[i + 1])

LEMMA HopsAre ==
  ASSUME NEW g, GraphOK(g), NEW path \in Seq(NodesOf(g))
  PROVE  HopsOn(g, path)
<1> DEFINE V == NodesOf(g)
<1>1. PICK n \in Nat : n = Len(path)
  BY LenProperties
<1>2. DOMAIN path = 1..n /\ Hops(path) = 1..(n - 1)
  <2>1. DOMAIN path = 1..n
    BY <1>1, LenProperties
  <2> QED
    BY <1>1, <2>1 DEF Hops
<1>3. \A i \in 1..n : path[i] \in V
  BY <1>1, ElementOfSeq
<1>4. ASSUME NEW i \in 1..(n - 1)
      PROVE  path[i] \in V /\ path[i + 1] \in V /\ Key(path[i], path[i + 1]) \in V \X V
  <2>1. i \in 1..n /\ i + 1 \in 1..n
    OBVIOUS
  <2>2. path[i] \in V /\ path[i + 1] \in V
    BY <1>3, <2>1
  <2> QED
    BY <2>2, KeyIs
<1>5. LinksAlong(path) \in [1..(n - 1) -> V \X V]
  BY <1>2, <1>4 DEF LinksAlong
<1>6. CASE n = 0
  <2>1. path = <<>> /\ 1..(n - 1) = {} /\ 1..0 = {}
    <3>1. path = <<>>
      BY <1>1, <1>6, EmptySeq
    <3> QED
      BY <1>6, <3>1
  <2>2. LinksAlong(path) \in Seq(V \X V) /\ Len(LinksAlong(path)) = 0
    <3>1. LinksAlong(path) \in [1..0 -> V \X V] /\ 0 \in Nat
      BY <1>5, <2>1
    <3> HIDE DEF V
    <3> QED
      BY <3>1
  <2> QED
    BY <1>1, <1>2, <1>4, <2>1, <2>2 DEF LinksAlong, HopsOn
<1>7. CASE n # 0
  <2>1. n - 1 \in Nat /\ path # <<>>
    BY <1>1, <1>7
  <2>2. LinksAlong(path) \in Seq(V \X V) /\ Len(LinksAlong(path)) = n - 1
    <3> HIDE DEF V
    <3> QED
      BY <1>5, <2>1
  <2> QED
    BY <1>1, <1>2, <1>4, <2>1, <2>2 DEF LinksAlong, HopsOn
<1> QED
  BY <1>6, <1>7

Attached(g, t, path, u) ==
  /\ u \in TreesOf(g) /\ u.root = t.root /\ u.links = t.links \o LinksAlong(path)
  /\ u.inSet = t.inSet \cup {path[i] : i \in Hops(path)}
  /\ \A v \in NodesOf(g) :
       u.parent[v] = IF \E i \in Hops(path) : path[i] = v /\ v \notin t.inSet
                     THEN path[1 + CHOOSE i \in Hops(path) : path[i] = v] ELSE t.parent[v]

LEMMA AttachDoes ==
  ASSUME NEW g, GraphOK(g), NEW t \in TreesOf(g), NEW path \in Seq(NodesOf(g))
  PROVE  Attached(g, t, path, Attach(t, path))
<1> DEFINE u == Attach(t, path)
           V == NodesOf(g)
           Step(v) == IF \E i \in Hops(path) : path[i] = v /\ v \notin t.inSet
                      THEN path[1 + CHOOSE i \in Hops(path) : path[i] = v] ELSE t.parent[v]
           Joined == t.inSet \cup {path[i] : i \in Hops(path)}
<1>1. /\ t.root \in V /\ t.inSet \in SUBSET V /\ t.links \in Seq(V \X V)
      /\ t.parent \in [V -> V \cup {None}] /\ DOMAIN t.parent = V
      /\ t = [root |-> t.root, inSet |-> t.inSet, links |-> t.links, parent |-> t.parent]
  BY DEF TreesOf
<1>2. u = [root |-> t.root, inSet |-> Joined, links |-> t.links \o LinksAlong(path),
           parent |-> [v \in V |-> Step(v)]]
  <2>1. u = [t EXCEPT !.links = t.links \o LinksAlong(path), !.inSet = Joined, !.parent = [v \in V |-> Step(v)]]
    BY <1>1 DEF Attach, Hops, LinksAlong
  <2> HIDE DEF Step, Joined
  <2> QED
    BY <1>1, <2>1
<1>3. \A i \in Hops(path) : path[i] \in V /\ path[i + 1] \in V /\ 1 + i = i + 1
  <2>1. HopsOn(g, path)
    BY HopsAre
  <2>2. /\ Len(path) \in Nat /\ Hops(path) = 1..(Len(path) - 1)
        /\ \A i \in Hops(path) : path[i] \in NodesOf(g) /\ path[i + 1] \in NodesOf(g)
    BY <2>1 DEF HopsOn
  <2>3. \A i \in 1..(Len(path) - 1) : 1 + i = i + 1
    BY <2>2
  <2> QED
    BY <2>2, <2>3
<1>4. ASSUME NEW v \in V PROVE Step(v) \in V \cup {None}
  <2>1. CASE \E i \in Hops(path) : path[i] = v /\ v \notin t.inSet
    <3>1. PICK c : c = CHOOSE i \in Hops(path) : path[i] = v
      OBVIOUS
    <3>2. c \in Hops(path)
      BY <2>1, <3>1
    <3>3. path[1 + c] \in V
      BY <1>3, <3>2
    <3> QED
      BY <2>1, <3>1, <3>3
  <2>2. CASE ~ \E i \in Hops(path) : path[i] = v /\ v \notin t.inSet
    BY <1>1, <2>2
  <2> QED
    BY <2>1, <2>2
<1>5. Joined \in SUBSET V
  BY <1>1, <1>3
<1>6. t.links \o LinksAlong(path) \in Seq(V \X V)
  <2>1. LinksAlong(path) \in Seq(V \X V)
    <3>1. HopsOn(g, path)
      BY HopsAre
    <3> QED
      BY <3>1 DEF HopsOn
  <2> QED
    BY <1>1, <2>1, ConcatProperties
<1> HIDE DEF Step, Joined, u
<1>7. u \in TreesOf(g)
  BY <1>1, <1>2, <1>4, <1>5, <1>6 DEF TreesOf
<1>8. u.root = t.root /\ u.links = t.links \o LinksAlong(path) /\ u.inSet = Joined
      /\ \A v \in V : u.parent[v] = Step(v)
  BY <1>2
<1> QED
  <2>1. Attached(g, t, path, u)
    BY <1>7, <1>8 DEF Step, Joined, Attached
  <2> QED
    BY <2>1 DEF u

(* A tree: every node but the root hangs below another of the tree by a    *)
(* link of the graph, and some rank falls on the way up.                   *)
Rooted(g, t) ==
  /\ t.root \in t.inSet /\ t.parent[t.root] = None
  /\ \A n \in NodesOf(g) : n \notin t.inSet => t.parent[n] = None
  /\ \A n \in t.inSet \ {t.root} : t.parent[n] \in t.inSet /\ t.parent[n] \in Neighbours(g, n)
  /\ ToSet(t.links) = {Key(n, t.parent[n]) : n \in t.inSet \ {t.root}}
  /\ Len(t.links) = Cardinality(t.inSet) - 1
  /\ \E rank \in [NodesOf(g) -> Nat] : \A n \in t.inSet \ {t.root} : rank[t.parent[n]] < rank[n]

(* Nothing found, nothing attached. *)
LEMMA AttachNothing ==
  ASSUME NEW g, GraphOK(g), NEW t \in TreesOf(g)
  PROVE  Attach(t, <<>>) = t
<1> DEFINE V == NodesOf(g)
           u == Attach(t, <<>>)
           p == <<>>
<1>1. p \in Seq(V) /\ Len(p) = 0 /\ Hops(p) = {}
  <2>1. p \in Seq(V) /\ Len(p) = 0
    OBVIOUS
  <2> QED
    <3>1. HopsOn(g, p)
      BY <2>1, HopsAre
    <3> QED
      BY <2>1, <3>1 DEF HopsOn
<1>2. /\ u \in TreesOf(g) /\ u.root = t.root /\ u.links = t.links \o LinksAlong(p)
      /\ u.inSet = t.inSet \cup {p[i] : i \in Hops(p)}
      /\ \A v \in NodesOf(g) :
           u.parent[v] = IF \E i \in Hops(p) : p[i] = v /\ v \notin t.inSet
                         THEN p[1 + CHOOSE i \in Hops(p) : p[i] = v] ELSE t.parent[v]
  <2>1. Attached(g, t, p, u)
    BY <1>1, AttachDoes
  <2> QED
    BY <1>1, <2>1 DEF Attached
<1>3. LinksAlong(p) = <<>>
  BY <1>1 DEF LinksAlong
<1>4. t.links \in Seq(V \X V) /\ t.parent \in [V -> V \cup {None}] /\ u.parent \in [V -> V \cup {None}]
  BY <1>2 DEF TreesOf
<1> HIDE DEF u
<1>5. u.links = t.links
  BY <1>2, <1>3, <1>4, ConcatEmptySeq
<1>6. u.inSet = t.inSet /\ \A v \in V : u.parent[v] = t.parent[v]
  BY <1>1, <1>2
<1>7. u.parent = t.parent
  BY <1>4, <1>6
<1> QED
  BY <1>2, <1>5, <1>6, <1>7 DEF TreesOf, u

(* The way to the tree becomes part of it. *)
LEMMA AttachGrows ==
  ASSUME NEW g, GraphOK(g), NEW t \in TreesOf(g), Rooted(g, t), NEW m \in NodesOf(g),
         NEW path, WayTo(g, m, t.inSet, path), NEW u, u = Attach(t, path)
  PROVE  /\ u \in TreesOf(g) /\ Rooted(g, u) /\ u.root = t.root
         /\ t.inSet \subseteq u.inSet /\ m \in u.inSet
<1> DEFINE V == NodesOf(g)
           H == Hops(path)
           A == {path[i] : i \in H}
<1>1. PICK n \in Nat : n = Len(path) /\ n >= 2
  BY LenProperties DEF WayTo
<1>2. /\ path \in Seq(V) /\ H = 1..(n - 1) /\ \A i \in H : path[i] \in V /\ path[i + 1] \in V
      /\ \A i \in H : path[i] \notin t.inSet /\ path[i + 1] \in Neighbours(g, path[i])
      /\ path[n] \in t.inSet /\ path[1] = m /\ \A i, j \in H : path[i] = path[j] => i = j
  <2>1. path \in Seq(V)
    BY DEF WayTo
  <2>2. H = 1..(n - 1) /\ \A i \in H : path[i] \in V /\ path[i + 1] \in V
    <3>1. HopsOn(g, path)
      BY <1>1, <2>1, HopsAre
    <3> QED
      BY <1>1, <2>1, <3>1 DEF HopsOn
  <2>3. ASSUME NEW i \in 1..(n - 1), NEW j \in 1..(n - 1), path[i] = path[j] PROVE i = j
    <3>1. i \in 1..n /\ j \in 1..n
      OBVIOUS
    <3>2. ~(i < j) /\ ~(j < i)
      BY <1>1, <2>3, <3>1 DEF WayTo
    <3> QED
      BY <3>2
  <2> QED
    BY <1>1, <2>1, <2>2, <2>3 DEF WayTo
<1>3. /\ u \in TreesOf(g) /\ u.root = t.root /\ u.links = t.links \o LinksAlong(path)
      /\ u.inSet = t.inSet \cup A
      /\ \A v \in V : u.parent[v] = IF \E i \in H : path[i] = v /\ v \notin t.inSet
                                     THEN path[1 + CHOOSE i \in H : path[i] = v] ELSE t.parent[v]
  <2>1. Attached(g, t, path, u)
    BY <1>2, AttachDoes
  <2> QED
    BY <1>2, <2>1 DEF Attached
<1>4. /\ t.root \in V /\ t.inSet \in SUBSET V /\ t.links \in Seq(V \X V)
      /\ t.parent \in [V -> V \cup {None}]
  BY DEF TreesOf
<1> HIDE DEF H
<1>5. \A i \in H : (CHOOSE j \in H : path[j] = path[i]) = i
  BY <1>2
<1>6. ASSUME NEW i \in H PROVE u.parent[path[i]] = path[i + 1]
  <2>1. path[i] \in V /\ path[i] \notin t.inSet
    BY <1>2
  <2>2. \E j \in H : path[j] = path[i] /\ path[i] \notin t.inSet
    BY <2>1
  <2>3. u.parent[path[i]] = path[1 + CHOOSE j \in H : path[j] = path[i]]
    BY <1>3, <2>1, <2>2
  <2>4. 1 + i = i + 1
    BY <1>2
  <2> QED
    BY <1>5, <2>3, <2>4
<1>7. \A v \in V : v \notin A => u.parent[v] = t.parent[v]
  BY <1>3
<1>8. A \cap t.inSet = {} /\ A \in SUBSET V
  BY <1>2
<1>9. m \in A /\ 1 \in H
  BY <1>1, <1>2
<1>10. t.root \in t.inSet /\ t.root \notin A
  BY <1>8 DEF Rooted
<1>11. u.root \in u.inSet /\ u.parent[u.root] = None
  BY <1>3, <1>4, <1>7, <1>10 DEF Rooted
<1>12. \A v \in V : v \notin u.inSet => u.parent[v] = None
  <2> HIDE DEF A
  <2> QED
    BY <1>3, <1>7 DEF Rooted
<1>13. ASSUME NEW v \in u.inSet \ {u.root}
       PROVE  u.parent[v] \in u.inSet /\ u.parent[v] \in Neighbours(g, v)
  <2>1. CASE v \in A
    <3>1. PICK i \in H : path[i] = v
      BY <2>1
    <3>2. u.parent[v] = path[i + 1] /\ path[i + 1] \in Neighbours(g, v)
      BY <1>2, <1>6, <3>1
    <3>3. i \in Int /\ (i + 1 \in H \/ i + 1 = n)
      BY <1>1, <1>2
    <3>4. path[i + 1] \in A \/ path[i + 1] \in t.inSet
      BY <1>2, <3>3
    <3> QED
      BY <1>3, <3>2, <3>4
  <2>2. CASE v \notin A
    <3>1. v \in t.inSet /\ v # t.root
      BY <1>3, <2>2
    <3>2. t.parent[v] \in t.inSet /\ t.parent[v] \in Neighbours(g, v)
      BY <3>1 DEF Rooted
    <3>3. u.parent[v] = t.parent[v]
      BY <1>4, <1>7, <2>2, <3>1
    <3> QED
      BY <1>3, <3>2, <3>3
  <2> QED
    BY <2>1, <2>2
<1>14. ToSet(u.links) = {Key(v, u.parent[v]) : v \in u.inSet \ {u.root}}
  <2>1. ToSet(u.links) = ToSet(t.links) \cup {Key(path[i], path[i + 1]) : i \in H}
    <3> DEFINE L == LinksAlong(path)
               a == Len(t.links)
    <3>1. L \in Seq(V \X V) /\ Len(L) = n - 1 /\ \A i \in H : L[i] = Key(path[i], path[i + 1])
      <4>1. path # <<>>
        BY <1>1
      <4> QED
        <5>1. HopsOn(g, path)
          BY <1>1, <1>2, <4>1, HopsAre
        <5> QED
          BY <1>1, <1>2, <4>1, <5>1 DEF HopsOn, H
    <3>2. /\ u.links \in Seq(V \X V) /\ Len(u.links) = a + Len(L)
          /\ \A i \in 1..(a + Len(L)) : u.links[i] = IF i <= a THEN t.links[i] ELSE L[i - a]
      <4>1. u.links = t.links \o L
        BY <1>3
      <4>2. PICK W : W = V \X V
        OBVIOUS
      <4>3. t.links \in Seq(W) /\ L \in Seq(W)
        BY <1>4, <3>1, <4>2
      <4> HIDE DEF V, L, a
      <4>4. /\ t.links \o L \in Seq(W) /\ Len(t.links \o L) = Len(t.links) + Len(L)
            /\ \A i \in 1..(Len(t.links) + Len(L)) :
                 (t.links \o L)[i] = IF i <= Len(t.links) THEN t.links[i] ELSE L[i - Len(t.links)]
        BY <4>3, ConcatProperties
      <4> QED
        BY <4>1, <4>2, <4>4 DEF a
    <3>3. a \in Nat /\ DOMAIN t.links = 1..a /\ DOMAIN u.links = 1..(a + (n - 1))
      <4>1. a \in Nat /\ DOMAIN t.links = 1..a
        BY <1>4, LenProperties
      <4> QED
        BY <3>1, <3>2, <4>1, LenProperties
    <3> HIDE DEF L, a
    <3>4. /\ ToSet(u.links) = {u.links[i] : i \in 1..(a + (n - 1))}
          /\ ToSet(t.links) = {t.links[i] : i \in 1..a}
      BY <3>3 DEF ToSet
    <3>5. ASSUME NEW i \in 1..a PROVE i \in 1..(a + (n - 1)) /\ u.links[i] = t.links[i]
      <4>1. i \in 1..(a + (n - 1)) /\ i \in 1..(a + Len(L)) /\ i <= a
        BY <1>1, <3>1, <3>3
      <4> QED
        BY <3>2, <4>1
    <3>6. ASSUME NEW i \in H
          PROVE  i + a \in 1..(a + (n - 1)) /\ u.links[i + a] = Key(path[i], path[i + 1])
      <4>1. /\ i + a \in 1..(a + (n - 1)) /\ i + a \in 1..(a + Len(L)) /\ ~(i + a <= a) /\ i + a - a = i
        BY <1>1, <1>2, <3>1, <3>3
      <4>2. u.links[i + a] = L[i]
        <5>1. PICK j : j = i + a
          OBVIOUS
        <5>2. j \in 1..(a + Len(L)) /\ ~(j <= a) /\ j - a = i
          <6>1. i \in 1..(n - 1) /\ Len(L) = n - 1
            BY <1>2, <3>1
          <6> QED
            BY <1>1, <3>3, <5>1, <6>1
        <5>3. u.links[j] = IF j <= a THEN t.links[j] ELSE L[j - a]
          BY <3>2, <5>2
        <5> QED
          BY <5>1, <5>2, <5>3
      <4> QED
        BY <3>1, <4>1, <4>2
    <3>7. ASSUME NEW i \in 1..(a + (n - 1)), i \notin 1..a PROVE i - a \in H /\ i - a + a = i
      BY <1>1, <1>2, <3>3, <3>7
    <3>8. ASSUME NEW x \in ToSet(u.links)
          PROVE  x \in ToSet(t.links) \/ x \in {Key(path[i], path[i + 1]) : i \in H}
      <4>1. PICK i \in 1..(a + (n - 1)) : x = u.links[i]
        BY <3>4
      <4>2. CASE i \in 1..a
        BY <3>4, <3>5, <4>1, <4>2
      <4>3. CASE i \notin 1..a
        <5>1. PICK j : j = i - a
          OBVIOUS
        <5>2. j \in H /\ j + a = i
          BY <3>7, <4>3, <5>1
        <5>3. x = Key(path[j], path[j + 1])
          BY <3>6, <4>1, <5>2
        <5> QED
          BY <5>2, <5>3
      <4> QED
        BY <4>2, <4>3
    <3>9. ToSet(t.links) \subseteq ToSet(u.links)
      BY <3>4, <3>5
    <3>10. {Key(path[i], path[i + 1]) : i \in H} \subseteq ToSet(u.links)
      BY <3>4, <3>6
    <3> QED
      BY <3>8, <3>9, <3>10
  <2>2. {Key(path[i], path[i + 1]) : i \in H} = {Key(v, u.parent[v]) : v \in A}
    BY <1>6
  <2>3. ToSet(t.links) = {Key(v, t.parent[v]) : v \in t.inSet \ {t.root}}
    BY DEF Rooted
  <2>4. ToSet(t.links) = {Key(v, u.parent[v]) : v \in t.inSet \ {t.root}}
    <3>1. \A v \in t.inSet \ {t.root} : u.parent[v] = t.parent[v]
      BY <1>4, <1>7, <1>8
    <3> HIDE DEF A
    <3> QED
      BY <2>3, <3>1
  <2>5. u.inSet \ {u.root} = A \cup (t.inSet \ {t.root})
    BY <1>3, <1>10
  <2> HIDE DEF A
  <2> QED
    BY <2>1, <2>2, <2>4, <2>5
<1>15. Len(u.links) = Cardinality(u.inSet) - 1
  <2>1. Len(u.links) = Len(t.links) + (n - 1)
    <3>1. LinksAlong(path) \in Seq(V \X V) /\ Len(LinksAlong(path)) = n - 1
      <4>1. path # <<>>
        BY <1>1
      <4> QED
        <5>1. HopsOn(g, path)
          BY <1>1, <1>2, <4>1, HopsAre
        <5> QED
          BY <1>1, <1>2, <4>1, <5>1 DEF HopsOn
    <3>2. Len(t.links \o LinksAlong(path)) = Len(t.links) + Len(LinksAlong(path))
      BY <1>4, <3>1, ConcatProperties
    <3> QED
      BY <1>3, <3>1, <3>2
  <2>2. IsFiniteSet(A) /\ Cardinality(A) = n - 1
    <3>1. IsFiniteSet(H) /\ Cardinality(H) = n - 1
      <4>1. IsFiniteSet(1..(n - 1)) /\ Cardinality(1..(n - 1)) = n - 1
        <5>1. n - 1 \in Nat
          BY <1>1
        <5> QED
          BY <5>1, FS_Interval
      <4> QED
        BY <1>2, <4>1
    <3> DEFINE f == [i \in H |-> path[i]]
    <3>2. DOMAIN f = H /\ \A x, y \in H : f[x] = f[y] => x = y
      BY <1>2
    <3>3. A = {f[i] : i \in H}
      OBVIOUS
    <3> HIDE DEF f, A
    <3> QED
      BY <3>1, <3>2, <3>3, Images
  <2>3. IsFiniteSet(t.inSet) /\ Cardinality(t.inSet) \in Nat /\ Cardinality({}) = 0
    <3>1. IsFiniteSet(V)
      BY NodesAre
    <3> QED
      BY <1>4, <3>1, FS_Subset, FS_CardinalityType, FS_EmptySet
  <2> HIDE DEF A
  <2>4. Cardinality(t.inSet \cup A) = Cardinality(t.inSet) + Cardinality(A) - Cardinality(t.inSet \cap A)
    BY <2>2, <2>3, FS_Union
  <2>5. Cardinality(t.inSet \cap A) = 0
    <3>1. t.inSet \cap A = {}
      BY <1>8
    <3> QED
      BY <2>3, <3>1
  <2>6. Len(t.links) = Cardinality(t.inSet) - 1
    BY DEF Rooted
  <2> QED
    BY <1>1, <1>3, <2>1, <2>2, <2>3, <2>4, <2>5, <2>6
<1>16. \E rank \in [V -> Nat] : \A v \in u.inSet \ {u.root} : rank[u.parent[v]] < rank[v]
  <2>1. PICK rank \in [V -> Nat] : \A v \in t.inSet \ {t.root} : rank[t.parent[v]] < rank[v]
    BY DEF Rooted
  <2> DEFINE at(v) == CHOOSE i \in H : path[i] = v
             new == [v \in V |-> IF v \in A THEN rank[path[n]] + (n - at(v)) ELSE rank[v]]
  <2>2. \A i \in H : at(path[i]) = i
    BY <1>5
  <2>3. path[n] \in V /\ rank[path[n]] \in Nat
    BY <1>2, <1>4
  <2> HIDE DEF at
  <2>4. ASSUME NEW i \in H PROVE new[path[i]] = rank[path[n]] + (n - i) /\ path[i] \in V
    BY <1>2, <2>2
  <2>5. new \in [V -> Nat]
    <3>1. ASSUME NEW v \in V PROVE new[v] \in Nat
      <4>1. CASE v \in A
        <5>1. PICK i \in H : path[i] = v
          BY <4>1
        <5>2. new[v] = rank[path[n]] + (n - i) /\ i \in 1..(n - 1)
          BY <1>2, <2>4, <5>1
        <5> HIDE DEF new
        <5> QED
          BY <1>1, <2>3, <5>2
      <4>2. CASE v \notin A
        BY <2>1, <4>2
      <4> QED
        BY <4>1, <4>2
    <3> QED
      BY <3>1
  <2>6. \A v \in V : v \notin A => new[v] = rank[v]
    OBVIOUS
  <2> HIDE DEF new
  <2>7. ASSUME NEW v \in u.inSet \ {u.root} PROVE new[u.parent[v]] < new[v]
    <3>1. CASE v \in A
      <4>1. PICK i \in H : path[i] = v
        BY <3>1
      <4>2. u.parent[v] = path[i + 1] /\ new[v] = rank[path[n]] + (n - i) /\ i \in Int /\ i >= 1 /\ i <= n - 1
        BY <1>1, <1>2, <1>6, <2>4, <4>1
      <4>3. CASE i + 1 \in H
        <5>1. new[path[i + 1]] = rank[path[n]] + (n - (i + 1))
          BY <2>4, <4>3
        <5> QED
          BY <1>1, <2>3, <4>2, <5>1
      <4>4. CASE i + 1 \notin H
        <5>1. i + 1 = n
          BY <1>1, <1>2, <4>2, <4>4
        <5>2. path[n] \notin A
          BY <1>2, <1>8
        <5>3. new[path[n]] = rank[path[n]]
          BY <2>3, <2>6, <5>2
        <5> QED
          BY <1>1, <2>3, <4>2, <5>1, <5>3
      <4> QED
        BY <4>3, <4>4
    <3>2. CASE v \notin A
      <4>1. v \in t.inSet /\ v # t.root /\ v \in V
        BY <1>3, <1>4, <3>2
      <4>2. u.parent[v] = t.parent[v] /\ t.parent[v] \in t.inSet
        BY <1>7, <3>2, <4>1 DEF Rooted
      <4>3. t.parent[v] \in V /\ t.parent[v] \notin A
        BY <1>4, <1>8, <4>2
      <4>4. rank[t.parent[v]] < rank[v]
        BY <2>1, <4>1
      <4> HIDE DEF A
      <4> QED
        BY <2>6, <3>2, <4>1, <4>2, <4>3, <4>4
    <3> QED
      BY <3>1, <3>2
  <2> QED
    BY <2>5, <2>7
<1>17. Rooted(g, u)
  BY <1>11, <1>12, <1>13, <1>14, <1>15, <1>16 DEF Rooted
<1>18. t.inSet \subseteq u.inSet /\ m \in u.inSet
  BY <1>3, <1>9
<1> QED
  BY <1>3, <1>17, <1>18

LEMMA SeedIs ==
  ASSUME NEW g, GraphOK(g), NEW perm \in Seq(NodesOf(g)), perm # <<>>
  PROVE  /\ Seed(g, perm) \in TreesOf(g) /\ Rooted(g, Seed(g, perm))
         /\ Seed(g, perm).root = perm[1] /\ Seed(g, perm).inSet = {perm[1]}
<1> DEFINE V == NodesOf(g)
           r == perm[1]
           t == Seed(g, perm)
<1>1. r \in V
  <2>1. Len(perm) \in Nat /\ Len(perm) # 0
    BY EmptySeq
  <2>2. 1 \in 1..Len(perm)
    BY <2>1
  <2> QED
    BY <2>2, ElementOfSeq
<1>2. t = [root |-> r, inSet |-> {r}, links |-> <<>>, parent |-> [n \in V |-> None]]
  BY DEF Seed
<1>3. <<>> \in Seq(V \X V) /\ Len(<<>>) = 0 /\ DOMAIN <<>> = {}
  OBVIOUS
<1> HIDE DEF r, t
<1>4. t \in TreesOf(g)
  BY <1>1, <1>2, <1>3 DEF TreesOf
<1>5. t.root = r /\ t.inSet = {r} /\ t.links = <<>> /\ \A n \in V : t.parent[n] = None
  BY <1>2
<1>6. ToSet(t.links) = {}
  BY <1>3, <1>5 DEF ToSet
<1>7. t.inSet \ {t.root} = {}
  BY <1>5
<1>8. Cardinality(t.inSet) = 1
  BY <1>5, FS_Singleton
<1>9. Len(t.links) = Cardinality(t.inSet) - 1
  BY <1>3, <1>5, <1>8
<1>10. \E rank \in [V -> Nat] : \A n \in t.inSet \ {t.root} : rank[t.parent[n]] < rank[n]
  <2> DEFINE f == [n \in V |-> 0]
  <2>1. f \in [V -> Nat]
    OBVIOUS
  <2> HIDE DEF f
  <2> QED
    BY <1>7, <2>1
<1>11. {Key(n, t.parent[n]) : n \in t.inSet \ {t.root}} = {}
  BY <1>7
<1>12. t.root \in t.inSet /\ t.parent[t.root] = None /\ \A n \in V : n \notin t.inSet => t.parent[n] = None
  BY <1>1, <1>5
<1>13. Rooted(g, t)
  BY <1>6, <1>7, <1>9, <1>10, <1>11, <1>12 DEF Rooted
<1> QED
  BY <1>4, <1>5, <1>13 DEF t, r

(* One more member: it joins, or its search found nothing. *)
Onward(g, t, m, u) ==
  /\ Rooted(g, u) /\ u.root = t.root /\ t.inSet \subseteq u.inSet
  /\ m \in u.inSet \/ (m \notin t.inSet /\ NearestInSet(g, m, t.inSet) = <<>>)

LEMMA GrownIs ==
  ASSUME NEW g, GraphOK(g), NEW t \in TreesOf(g), NEW m \in NodesOf(g)
  PROVE  /\ Grown(g, t, m) \in TreesOf(g)
         /\ Rooted(g, t) /\ (m \in t.inSet \/ SearchEnds(g, m, t.inSet)) => Onward(g, t, m, Grown(g, t, m))
<1>1. CASE m \in t.inSet
  <2>1. Grown(g, t, m) = t
    BY <1>1 DEF Grown
  <2> QED
    BY <1>1, <2>1 DEF Onward
<1>2. CASE m \notin t.inSet
  <2>1. PICK path : path = NearestInSet(g, m, t.inSet)
    OBVIOUS
  <2>2. Grown(g, t, m) = Attach(t, path)
    BY <1>2, <2>1 DEF Grown
  <2>3. path \in Seq(NodesOf(g))
    BY <2>1, NearestTyped
  <2>4. Grown(g, t, m) \in TreesOf(g)
    <3>1. Attached(g, t, path, Attach(t, path))
      BY <2>3, AttachDoes
    <3> QED
      BY <2>2, <3>1 DEF Attached
  <2>5. ASSUME Rooted(g, t), SearchEnds(g, m, t.inSet) PROVE Onward(g, t, m, Grown(g, t, m))
    <3>1. path = <<>> \/ WayTo(g, m, t.inSet, path)
      BY <1>2, <2>1, <2>5, NearestWay
    <3>2. CASE path = <<>>
      <4>1. Grown(g, t, m) = t
        BY <2>2, <3>2, AttachNothing
      <4> QED
        BY <1>2, <2>1, <2>5, <3>2, <4>1 DEF Onward
    <3>3. CASE WayTo(g, m, t.inSet, path)
      <4>1. PICK u : u = Grown(g, t, m)
        OBVIOUS
      <4>2. Rooted(g, u) /\ u.root = t.root /\ t.inSet \subseteq u.inSet /\ m \in u.inSet
        BY <2>2, <2>5, <3>3, <4>1, AttachGrows
      <4> QED
        BY <4>1, <4>2 DEF Onward
    <3> QED
      BY <3>1, <3>2, <3>3
  <2> QED
    BY <1>2, <2>4, <2>5
<1> QED
  BY <1>1, <1>2

(* The trees a decode goes through. *)
Grows(g, perm, h) ==
  /\ h \in [0..Len(perm) -> TreesOf(g)]
  /\ h[0] = Seed(g, perm) /\ h[Len(perm)] = DecodeSlice(g, perm)
  /\ \A i \in 0..Len(perm) : i # Len(perm) => h[i + 1] = Grown(g, h[i], perm[i + 1])

LEMMA Decoding ==
  ASSUME NEW g, GraphOK(g), NEW perm \in Seq(NodesOf(g)), perm # <<>>
  PROVE  \E h : Grows(g, perm, h)
<1> DEFINE S == TreesOf(g)
           n == Len(perm)
           b == Seed(g, perm)
           F == [i \in 1..n |-> [t \in S |-> Grown(g, t, perm[i])]]
           Is(grown) == grown = [k \in 0..n |-> IF k = 0 THEN b ELSE Grown(g, grown[k - 1], perm[k])]
           grown == CHOOSE grown : Is(grown)
<1>1. DecodeSlice(g, perm) = grown[n]
  BY DEF DecodeSlice
<1>2. n \in Nat /\ \A i \in 1..n : perm[i] \in NodesOf(g)
  BY LenProperties, ElementOfSeq
<1>3. F \in [1..n -> [S -> S]] /\ \A i \in 1..n, t \in S : F[i][t] = Grown(g, t, perm[i])
  <2>1. \A i \in 1..n : \A t \in S : Grown(g, t, perm[i]) \in S
    BY <1>2, GrownIs
  <2> HIDE DEF S, n
  <2> QED
    BY <2>1
<1>4. b \in S
  BY SeedIs
<1> HIDE DEF S, F, b, n
<1>5. PICK h : Iteration(S, b, n, F, h)
  BY <1>2, <1>3, <1>4, Iterates
<1>6. h \in [0..n -> S] /\ \A i \in 0..n : h[i] = IF i = 0 THEN b ELSE F[i][h[i - 1]]
  BY <1>5 DEF Iteration
<1>7. \A i \in 0..n : h[i] = IF i = 0 THEN b ELSE Grown(g, h[i - 1], perm[i])
  <2>1. ASSUME NEW i \in 0..n, i # 0 PROVE F[i][h[i - 1]] = Grown(g, h[i - 1], perm[i])
    <3>1. i \in 1..n /\ i - 1 \in 0..n
      BY <1>2, <2>1
    <3> QED
      BY <1>3, <1>6, <3>1
  <2> QED
    BY <1>6, <2>1
<1>8. Is(h)
  BY <1>6, <1>7
<1>9. Is(grown)
  BY <1>8
<1>10. DOMAIN grown = 0..n /\ \A i \in 0..n : grown[i] = IF i = 0 THEN b ELSE Grown(g, grown[i - 1], perm[i])
  <2> HIDE DEF grown
  <2> QED
    BY <1>9
<1> HIDE DEF grown, Is
<1> DEFINE G == {i \in 0..n : grown[i] = h[i]}
<1>11. 0 \in G
  BY <1>2, <1>6, <1>10
<1>12. ASSUME NEW i \in 0..n, i # n, i \in G PROVE i + 1 \in G
  <2>1. i + 1 \in 0..n /\ i + 1 # 0 /\ i + 1 - 1 = i
    BY <1>2, <1>12
  <2> QED
    BY <1>7, <1>10, <1>12, <2>1
<1>13. 0..n \subseteq G
  <2> HIDE DEF G
  <2> QED
    BY <1>2, <1>11, <1>12, UpTo
<1>14. h[0] = b /\ h[n] = DecodeSlice(g, perm)
  <2>1. n \in G /\ 0 \in 0..n
    BY <1>2, <1>13
  <2> QED
    BY <1>1, <1>6, <2>1
<1>15. \A i \in 0..n : i # n => h[i + 1] = Grown(g, h[i], perm[i + 1])
  <2>1. ASSUME NEW i \in 0..n, i # n PROVE h[i + 1] = Grown(g, h[i], perm[i + 1])
    <3>1. i + 1 \in 0..n /\ i + 1 # 0 /\ i + 1 - 1 = i
      BY <1>2, <2>1
    <3> QED
      BY <1>7, <3>1
  <2> QED
    BY <2>1
<1>16. Grows(g, perm, h)
  BY <1>6, <1>14, <1>15 DEF Grows, S, b, n
<1> QED
  BY <1>16

(* Decoding the first members gives the tree so far. *)
LEMMA DecodePrefix ==
  ASSUME NEW g, GraphOK(g), NEW perm \in Seq(NodesOf(g)), perm # <<>>, NEW h, Grows(g, perm, h),
         NEW k \in 1..Len(perm)
  PROVE  DecodeSlice(g, SubSeq(perm, 1, k)) = h[k]
<1> DEFINE V == NodesOf(g)
<1>1. PICK p : p = SubSeq(perm, 1, k)
  OBVIOUS
<1>2. Len(perm) \in Nat /\ \A i \in 1..Len(perm) : perm[i] \in V
  BY LenProperties, ElementOfSeq
<1>3. p \in Seq(V) /\ Len(p) = k /\ \A i \in 1..k : p[i] = perm[i]
  <2>1. \A i \in 1..k : perm[i] \in V
    BY <1>2
  <2>2. /\ p \in Seq(V) /\ Len(p) = IF 1 <= k THEN k - 1 + 1 ELSE 0
        /\ \A i \in 1..(k - 1 + 1) : p[i] = perm[1 + i - 1]
    BY <1>1, <2>1, SubSeqProperties
  <2>3. ASSUME NEW i \in 1..k PROVE p[i] = perm[i]
    <3>1. i \in 1..(k - 1 + 1) /\ 1 + i - 1 = i
      OBVIOUS
    <3> QED
      BY <2>2, <3>1
  <2> QED
    BY <2>2, <2>3
<1>4. p # <<>>
  BY <1>3
<1>5. PICK f : Grows(g, p, f)
  BY <1>3, <1>4, Decoding
<1>6. Seed(g, p) = Seed(g, perm)
  <2>1. 1 \in 1..k
    OBVIOUS
  <2>2. p[1] = perm[1]
    BY <1>3, <2>1
  <2> QED
    BY <2>2 DEF Seed
<1>7. /\ f[0] = h[0] /\ f[k] = DecodeSlice(g, p)
      /\ \A i \in 0..k : i # k => f[i + 1] = Grown(g, f[i], p[i + 1])
  BY <1>3, <1>5, <1>6 DEF Grows
<1>8. \A i \in 0..Len(perm) : i # Len(perm) => h[i + 1] = Grown(g, h[i], perm[i + 1])
  BY DEF Grows
<1> DEFINE G == {i \in 0..k : f[i] = h[i]}
<1>9. 0 \in G
  BY <1>7
<1>10. ASSUME NEW i \in 0..k, i # k, i \in G PROVE i + 1 \in G
  <2>1. i + 1 \in 0..k /\ i + 1 \in 1..k /\ i \in 0..Len(perm) /\ i # Len(perm)
    BY <1>2, <1>10
  <2>2. f[i + 1] = Grown(g, f[i], p[i + 1]) /\ h[i + 1] = Grown(g, h[i], perm[i + 1]) /\ p[i + 1] = perm[i + 1]
    BY <1>3, <1>7, <1>8, <1>10, <2>1
  <2> QED
    BY <1>10, <2>1, <2>2
<1>11. 0..k \subseteq G
  <2> HIDE DEF G
  <2> QED
    BY <1>9, <1>10, UpTo
<1>12. k \in G
  BY <1>11
<1> QED
  BY <1>1, <1>7, <1>12

(* Somewhere in the decode m was cut off from a set with the root in it. *)
Missed(g, root, m) ==
  \E S \in SUBSET NodesOf(g) : root \in S /\ m \notin S /\ NearestInSet(g, m, S) = <<>>

Decoded(g, perm, t) ==
  /\ t \in TreesOf(g) /\ Rooted(g, t) /\ t.root = perm[1]
  /\ \A j \in 1..Len(perm) : perm[j] \in t.inSet \/ Missed(g, t.root, perm[j])

(* When every search comes back a decode ends in a tree. *)
LEMMA DecodeIs ==
  ASSUME NEW g, GraphOK(g), NEW perm \in Seq(NodesOf(g)), perm # <<>>, DecodeEnds(g, perm)
  PROVE  Decoded(g, perm, DecodeSlice(g, perm))
<1> DEFINE V == NodesOf(g)
           r == perm[1]
<1>1. PICK n \in Nat : n = Len(perm)
  BY LenProperties
<1>2. \A i \in 1..n : perm[i] \in V
  BY <1>1, ElementOfSeq
<1>3. PICK h : Grows(g, perm, h)
  BY Decoding
<1>4. /\ \A i \in 0..n : h[i] \in TreesOf(g)
      /\ h[0] = Seed(g, perm) /\ h[n] = DecodeSlice(g, perm)
      /\ \A i \in 0..n : i # n => h[i + 1] = Grown(g, h[i], perm[i + 1])
  BY <1>1, <1>3 DEF Grows
<1> DEFINE Fine(i) == /\ Rooted(g, h[i]) /\ h[i].root = r /\ r \in h[i].inSet
                      /\ \A j \in 1..i : perm[j] \in h[i].inSet \/ Missed(g, r, perm[j])
           G == {i \in 0..n : Fine(i)}
<1>5. 0 \in G
  <2>1. Rooted(g, h[0]) /\ h[0].root = r /\ h[0].inSet = {r}
    BY <1>4, SeedIs
  <2> QED
    BY <1>1, <2>1
<1>6. ASSUME NEW i \in 0..n, i # n, i \in G PROVE i + 1 \in G
  <2>1. i + 1 \in 0..n /\ i + 1 \in 1..n /\ perm[i + 1] \in V
    BY <1>1, <1>2, <1>6
  <2>2. PICK m : m = perm[i + 1]
    OBVIOUS
  <2>3. PICK t : t = h[i]
    OBVIOUS
  <2>4. PICK u : u = h[i + 1]
    OBVIOUS
  <2>5. t \in TreesOf(g) /\ u = Grown(g, t, m) /\ m \in V
    BY <1>4, <1>6, <2>1, <2>2, <2>3, <2>4
  <2>6. Rooted(g, t) /\ t.root = r /\ r \in t.inSet
        /\ \A j \in 1..i : perm[j] \in t.inSet \/ Missed(g, r, perm[j])
    BY <1>6, <2>3
  <2>7. m \in t.inSet \/ SearchEnds(g, m, t.inSet)
    <3>1. CASE i = 0
      BY <2>2, <2>6, <3>1
    <3>2. CASE i # 0
      <4>1. i + 1 \in 2..Len(perm) /\ i + 1 - 1 = i /\ i \in 1..Len(perm)
        BY <1>1, <2>1, <3>2
      <4>2. SearchEnds(g, perm[i + 1], DecodeSlice(g, SubSeq(perm, 1, i + 1 - 1)).inSet)
        BY <4>1 DEF DecodeEnds
      <4>3. DecodeSlice(g, SubSeq(perm, 1, i)) = t
        BY <1>3, <2>3, <4>1, DecodePrefix
      <4> QED
        BY <2>2, <4>1, <4>2, <4>3
    <3> QED
      BY <3>1, <3>2
  <2>8. Onward(g, t, m, u)
    BY <2>5, <2>6, <2>7, GrownIs
  <2>9. /\ Rooted(g, u) /\ u.root = t.root /\ t.inSet \subseteq u.inSet
        /\ m \in u.inSet \/ (m \notin t.inSet /\ NearestInSet(g, m, t.inSet) = <<>>)
    BY <2>8 DEF Onward
  <2>10. m \in u.inSet \/ Missed(g, r, m)
    <3>1. t.inSet \in SUBSET V
      BY <2>5 DEF TreesOf
    <3> QED
      BY <2>6, <2>9, <3>1 DEF Missed
  <2>11. ASSUME NEW j \in 1..(i + 1) PROVE perm[j] \in u.inSet \/ Missed(g, r, perm[j])
    <3>1. CASE j = i + 1
      BY <2>2, <2>10, <3>1
    <3>2. CASE j # i + 1
      <4>1. j \in 1..i
        BY <2>1, <3>2
      <4> QED
        BY <2>6, <2>9, <4>1
    <3> QED
      BY <3>1, <3>2
  <2>12. Fine(i + 1)
    BY <2>4, <2>6, <2>9, <2>11
  <2> QED
    BY <2>1, <2>12
<1>7. 0..n \subseteq G
  <2> HIDE DEF G
  <2> QED
    BY <1>5, <1>6, UpTo
<1>8. Fine(n) /\ h[n] \in TreesOf(g)
  BY <1>4, <1>7
<1> QED
  BY <1>1, <1>4, <1>8 DEF Decoded

(* Every node of w is the parent of the one before. *)
Climb(g, t, a, w) ==
  /\ w \in Seq(NodesOf(g)) /\ Len(w) >= 1 /\ w[1] = a
  /\ \A i \in 1..(Len(w) - 1) : t.parent[w[i]] = w[i + 1]

LEMMA ClimbedIs ==
  ASSUME NEW g, GraphOK(g), NEW t \in TreesOf(g), NEW a \in NodesOf(g), NEW w, Climb(g, t, a, w)
  PROVE  /\ Climb(g, t, a, Climbed(t, w))
         /\ IF t.parent[w[Len(w)]] = None THEN Climbed(t, w) = w ELSE Len(Climbed(t, w)) = Len(w) + 1
<1> DEFINE V == NodesOf(g)
           p == t.parent[w[Len(w)]]
<1>1. w \in Seq(V) /\ Len(w) \in Nat /\ Len(w) >= 1 /\ Last(w) = w[Len(w)] /\ w[Len(w)] \in V
  <2>1. w \in Seq(V) /\ Len(w) \in Nat /\ Len(w) >= 1
    BY DEF Climb
  <2>2. Len(w) \in 1..Len(w)
    BY <2>1
  <2> QED
    BY <2>1, <2>2, ElementOfSeq DEF Last
<1>2. CASE p = None
  BY <1>1, <1>2 DEF Climbed
<1>3. CASE p # None
  <2>1. p \in V
    BY <1>1, <1>3 DEF TreesOf
  <2>2. PICK x : x = Append(w, p)
    OBVIOUS
  <2>3. Climbed(t, w) = x
    BY <1>1, <1>3, <2>2 DEF Climbed
  <2> HIDE DEF p
  <2>4. /\ x \in Seq(V) /\ Len(x) = Len(w) + 1 /\ x[Len(w) + 1] = p
        /\ \A i \in 1..Len(w) : x[i] = w[i]
    BY <1>1, <2>1, <2>2, AppendProperties
  <2>5. PICK n \in Nat : n = Len(w) /\ n >= 1
    BY <1>1
  <2>6. ASSUME NEW i \in 1..n PROVE t.parent[x[i]] = x[i + 1]
    <3>1. CASE i = n
      BY <2>4, <2>5, <3>1 DEF p
    <3>2. CASE i # n
      <4>1. i \in 1..(n - 1) /\ i + 1 \in 1..n
        BY <2>5, <3>2
      <4>2. t.parent[w[i]] = w[i + 1]
        BY <2>5, <4>1 DEF Climb
      <4> QED
        BY <2>4, <2>5, <4>1, <4>2
    <3> QED
      BY <3>1, <3>2
  <2>7. x[1] = a
    <3>1. 1 \in 1..n
      BY <2>5
    <3> QED
      BY <2>4, <2>5, <3>1 DEF Climb
  <2>8. Len(x) >= 1 /\ Len(x) - 1 = n
    BY <2>4, <2>5
  <2>9. Climb(g, t, a, x)
    BY <2>4, <2>6, <2>7, <2>8 DEF Climb
  <2> QED
    BY <1>3, <2>3, <2>4, <2>9 DEF p
<1> QED
  BY <1>2, <1>3

LEMMA ClimbIs ==
  ASSUME NEW g, GraphOK(g), NEW t \in TreesOf(g), NEW a \in NodesOf(g)
  PROVE  /\ Climb(g, t, a, Up(t, a)) /\ Len(Up(t, a)) <= g.num + 1
         /\ t.parent[Up(t, a)[Len(Up(t, a))]] = None \/ Len(Up(t, a)) = g.num + 1
<1> DEFINE V == NodesOf(g)
           n == g.num
           S == {w \in Seq(V) : Climb(g, t, a, w)}
           F == [i \in 1..n |-> [w \in S |-> Climbed(t, w)]]
           b == <<a>>
           Is(climb) == climb = [i \in 0..n |-> IF i = 0 THEN b ELSE Climbed(t, climb[i - 1])]
           climb == CHOOSE climb : Is(climb)
<1>1. n \in Nat /\ Cardinality(DOMAIN t.parent) = n
  <2>1. DOMAIN t.parent = V
    BY DEF TreesOf
  <2> QED
    BY <2>1, NodesAre DEF GraphOK
<1>2. Up(t, a) = climb[n]
  BY <1>1 DEF Up
<1>3. b \in S /\ Len(b) = 1 /\ Climb(g, t, a, b)
  <2>1. b \in Seq(V) /\ Len(b) = 1 /\ b[1] = a
    OBVIOUS
  <2> HIDE DEF b
  <2>2. Climb(g, t, a, b)
    BY <2>1 DEF Climb
  <2> QED
    BY <2>1, <2>2
<1>4. \A w \in S : Climb(g, t, a, w) /\ Climbed(t, w) \in S
  BY ClimbedIs DEF Climb
<1>5. F \in [1..n -> [S -> S]] /\ \A i \in 1..n, w \in S : F[i][w] = Climbed(t, w)
  <2> HIDE DEF S
  <2> QED
    BY <1>4
<1> HIDE DEF S, F, b, n
<1>6. PICK h : Iteration(S, b, n, F, h)
  BY <1>1, <1>3, <1>5, Iterates
<1>7. h \in [0..n -> S] /\ \A i \in 0..n : h[i] = IF i = 0 THEN b ELSE F[i][h[i - 1]]
  BY <1>6 DEF Iteration
<1>8. \A i \in 0..n : h[i] = IF i = 0 THEN b ELSE Climbed(t, h[i - 1])
  <2>1. ASSUME NEW i \in 0..n, i # 0 PROVE F[i][h[i - 1]] = Climbed(t, h[i - 1])
    <3>1. i \in 1..n /\ i - 1 \in 0..n
      BY <1>1, <2>1
    <3> QED
      BY <1>5, <1>7, <3>1
  <2> QED
    BY <1>7, <2>1
<1>9. Is(h)
  BY <1>7, <1>8
<1>10. Is(climb)
  BY <1>9
<1>11. DOMAIN climb = 0..n /\ \A i \in 0..n : climb[i] = IF i = 0 THEN b ELSE Climbed(t, climb[i - 1])
  <2> HIDE DEF climb
  <2> QED
    BY <1>10
<1> HIDE DEF climb, Is
<1> DEFINE G == {i \in 0..n : /\ Climb(g, t, a, climb[i]) /\ Len(climb[i]) <= i + 1
                              /\ t.parent[climb[i][Len(climb[i])]] = None \/ Len(climb[i]) = i + 1}
<1>12. 0 \in G
  <2>1. 0 \in 0..n
    BY <1>1
  <2>2. climb[0] = b
    BY <1>11, <2>1
  <2>3. Climb(g, t, a, climb[0]) /\ Len(climb[0]) <= 0 + 1 /\ Len(climb[0]) = 0 + 1
    <3>1. Climb(g, t, a, climb[0]) /\ Len(climb[0]) = 1
      BY <1>3, <2>2
    <3> QED
      BY <3>1
  <2> QED
    BY <2>1, <2>3
<1>13. ASSUME NEW i \in 0..n, i # n, i \in G PROVE i + 1 \in G
  <2> DEFINE w == climb[i]
             x == climb[i + 1]
  <2>1. i + 1 \in 0..n /\ i + 1 # 0 /\ i + 1 - 1 = i
    BY <1>1, <1>13
  <2>2. x = Climbed(t, w)
    BY <1>11, <2>1
  <2>3. Climb(g, t, a, w) /\ Len(w) <= i + 1 /\ (t.parent[w[Len(w)]] = None \/ Len(w) = i + 1)
    BY <1>13
  <2> HIDE DEF w, x
  <2>4. /\ Climb(g, t, a, x)
        /\ IF t.parent[w[Len(w)]] = None THEN x = w ELSE Len(x) = Len(w) + 1
    BY <2>2, <2>3, ClimbedIs
  <2>5. Len(w) \in Nat /\ Len(x) \in Nat
    BY <2>3, <2>4 DEF Climb
  <2>6. Len(x) <= i + 1 + 1 /\ (t.parent[x[Len(x)]] = None \/ Len(x) = i + 1 + 1)
    BY <2>3, <2>4, <2>5
  <2> QED
    BY <2>1, <2>4, <2>6 DEF x
<1>14. 0..n \subseteq G
  <2> HIDE DEF G
  <2> QED
    BY <1>1, <1>12, <1>13, UpTo
<1>15. n \in G
  BY <1>1, <1>14
<1> QED
  BY <1>2, <1>15 DEF n

(* A climb in a tree stays in it, visits no node twice and ends at the     *)
(* root.                                                                   *)
Ascent(g, t, a, w) ==
  /\ Climb(g, t, a, w) /\ w[Len(w)] = t.root /\ Len(w) <= g.num
  /\ \A i \in 1..Len(w) : w[i] \in t.inSet
  /\ \A i, j \in 1..Len(w) : i < j => w[i] # w[j]

LEMMA UpIs ==
  ASSUME NEW g, GraphOK(g), NEW t \in TreesOf(g), Rooted(g, t), NEW a \in t.inSet
  PROVE  Ascent(g, t, a, Up(t, a))
<1> DEFINE V == NodesOf(g)
<1>1. PICK w : w = Up(t, a)
  OBVIOUS
<1>2. a \in V /\ t.inSet \in SUBSET V /\ t.parent \in [V -> V \cup {None}] /\ None \notin V
  BY NodesAre DEF TreesOf
<1>3. Climb(g, t, a, w) /\ Len(w) <= g.num + 1 /\ (t.parent[w[Len(w)]] = None \/ Len(w) = g.num + 1)
  BY <1>1, <1>2, ClimbIs
<1>4. PICK n \in Nat : n = Len(w)
  BY <1>3, LenProperties DEF Climb
<1>5. w \in Seq(V) /\ n >= 1 /\ w[1] = a /\ (\A i \in 1..n : w[i] \in V) /\ \A i \in 1..(n - 1) : t.parent[w[i]] = w[i + 1]
  <2>1. w \in Seq(V) /\ n >= 1 /\ w[1] = a /\ \A i \in 1..(n - 1) : t.parent[w[i]] = w[i + 1]
    BY <1>3, <1>4 DEF Climb
  <2> QED
    BY <1>4, <2>1, ElementOfSeq
<1>6. ASSUME NEW i \in 1..(n - 1), w[i] \in t.inSet
      PROVE  w[i + 1] \in t.inSet /\ w[i] # t.root
  <2>1. t.parent[w[i]] = w[i + 1] /\ i + 1 \in 1..n
    BY <1>4, <1>5
  <2>2. w[i + 1] # None
    BY <1>2, <1>5, <2>1
  <2>3. w[i] # t.root
    BY <2>1, <2>2 DEF Rooted
  <2> QED
    BY <1>6, <2>1, <2>3 DEF Rooted
<1>7. \A i \in 1..n : w[i] \in t.inSet
  <2> DEFINE G == {k \in 0..(n - 1) : w[k + 1] \in t.inSet}
  <2>1. n - 1 \in Nat /\ 0 \in 0..(n - 1) /\ 0 + 1 = 1
    BY <1>4, <1>5
  <2>2. 0 \in G
    BY <1>5, <2>1
  <2>3. ASSUME NEW k \in 0..(n - 1), k # n - 1, k \in G PROVE k + 1 \in G
    <3>1. k + 1 \in 1..(n - 1) /\ k + 1 \in 0..(n - 1)
      BY <1>4, <2>3
    <3>2. w[k + 1 + 1] \in t.inSet
      BY <1>6, <2>3, <3>1
    <3> QED
      BY <3>1, <3>2
  <2>4. 0..(n - 1) \subseteq G
    <3> HIDE DEF G
    <3> QED
      BY <2>1, <2>2, <2>3, UpTo
  <2>5. ASSUME NEW i \in 1..n PROVE w[i] \in t.inSet
    <3>1. i - 1 \in 0..(n - 1) /\ i - 1 + 1 = i
      BY <1>4
    <3>2. w[i - 1 + 1] \in t.inSet
      BY <2>4, <3>1
    <3> QED
      BY <3>1, <3>2
  <2> QED
    BY <2>5
<1>8. PICK rank \in [V -> Nat] : \A v \in t.inSet \ {t.root} : rank[t.parent[v]] < rank[v]
  BY DEF Rooted
<1>9. ASSUME NEW i \in 1..(n - 1) PROVE rank[w[i + 1]] < rank[w[i]]
  <2>1. i \in 1..n
    BY <1>4
  <2>2. w[i] \in t.inSet /\ w[i] # t.root /\ t.parent[w[i]] = w[i + 1]
    BY <1>5, <1>6, <1>7, <2>1
  <2> QED
    BY <1>8, <2>2
<1>10. ASSUME NEW i \in 1..n, NEW j \in 1..n, i < j PROVE rank[w[j]] < rank[w[i]]
  <2> DEFINE m == j - i - 1
             G == {k \in 0..m : rank[w[i + k + 1]] < rank[w[i]]}
  <2>1. m \in Nat /\ 0 \in 0..m /\ i + 0 + 1 = i + 1 /\ i \in 1..(n - 1)
    BY <1>4, <1>10
  <2>2. 0 \in G
    BY <1>9, <2>1
  <2>3. ASSUME NEW k \in 0..m, k # m, k \in G PROVE k + 1 \in G
    <3>1. k + 1 \in 0..m /\ i + k + 1 \in 1..(n - 1) /\ i + (k + 1) + 1 = i + k + 1 + 1
      BY <1>4, <1>10, <2>3
    <3>2. rank[w[i + k + 1 + 1]] < rank[w[i + k + 1]] /\ rank[w[i + k + 1]] < rank[w[i]]
      BY <1>9, <2>3, <3>1
    <3>3. rank[w[i + k + 1 + 1]] \in Nat /\ rank[w[i + k + 1]] \in Nat /\ rank[w[i]] \in Nat
      <4>1. i + k + 1 \in 1..n /\ i + k + 1 + 1 \in 1..n
        BY <1>4, <3>1
      <4> QED
        BY <1>5, <1>8, <4>1
    <3>4. rank[w[i + (k + 1) + 1]] < rank[w[i]]
      BY <3>1, <3>2, <3>3
    <3> QED
      BY <3>1, <3>4
  <2>4. 0..m \subseteq G
    <3> HIDE DEF G, m
    <3> QED
      BY <2>1, <2>2, <2>3, UpTo
  <2>5. m \in G /\ i + m + 1 = j
    BY <1>10, <2>1, <2>4
  <2> QED
    BY <2>5
<1>11. \A i, j \in 1..n : i < j => w[i] # w[j]
  <2>1. ASSUME NEW i \in 1..n, NEW j \in 1..n, i < j, w[i] = w[j] PROVE FALSE
    <3>1. rank[w[j]] < rank[w[i]] /\ rank[w[i]] \in Nat
      BY <1>5, <1>8, <1>10, <2>1
    <3> QED
      BY <2>1, <3>1
  <2> QED
    BY <2>1
<1>12. n <= g.num
  BY <1>4, <1>5, <1>11, ShortChain
<1>13. t.parent[w[n]] = None
  BY <1>3, <1>4, <1>12 DEF GraphOK
<1>14. w[n] = t.root
  <2>1. n \in 1..n
    BY <1>4, <1>5
  <2>2. w[n] \in t.inSet
    BY <1>7, <2>1
  <2>3. w[n] # t.root => t.parent[w[n]] \in t.inSet
    BY <2>2 DEF Rooted
  <2> QED
    BY <1>2, <1>13, <2>3
<1> QED
  BY <1>1, <1>3, <1>4, <1>7, <1>11, <1>12, <1>14 DEF Ascent

(* A tree has as many links as nodes below the root, all different. *)
TreeShape(t) ==
  /\ Cardinality(ToSet(t.links)) = Len(t.links)
  /\ Len(t.links) = Cardinality(t.inSet) - 1
  /\ UNION {ToSet(k) : k \in ToSet(t.links)} \subseteq t.inSet
  /\ \A n \in t.inSet : Last(Up(t, n)) = t.root

LEMMA RootedIsTree ==
  ASSUME NEW g, GraphOK(g), NEW t \in TreesOf(g), Rooted(g, t)
  PROVE  TreeShape(t)
<1> DEFINE V == NodesOf(g)
           B == t.inSet \ {t.root}
           f == [n \in B |-> Key(n, t.parent[n])]
<1>1. t.inSet \in SUBSET V /\ IsFiniteSet(t.inSet) /\ t.root \in t.inSet
  <2>1. t.inSet \in SUBSET V /\ IsFiniteSet(V)
    BY NodesAre DEF TreesOf
  <2> QED
    BY <2>1, FS_Subset DEF Rooted
<1>2. IsFiniteSet(B) /\ Cardinality(B) = Cardinality(t.inSet) - 1
  BY <1>1, FS_RemoveElement
<1>3. /\ ToSet(t.links) = {Key(n, t.parent[n]) : n \in B} /\ Len(t.links) = Cardinality(t.inSet) - 1
      /\ \A n \in B : t.parent[n] \in t.inSet
  BY DEF Rooted
<1>4. PICK rank \in [V -> Nat] : \A n \in B : rank[t.parent[n]] < rank[n]
  BY DEF Rooted
<1>5. ASSUME NEW x \in B, NEW y \in B, Key(x, t.parent[x]) = Key(y, t.parent[y]) PROVE x = y
  <2>1. x \in V /\ y \in V /\ t.parent[x] \in V /\ t.parent[y] \in V
    BY <1>1, <1>3
  <2>2. x = y \/ (y = t.parent[x] /\ x = t.parent[y])
    <3>1. PICK p \in V, q \in V : p = t.parent[x] /\ q = t.parent[y]
      BY <2>1
    <3>2. x \in Int /\ y \in Int /\ p \in Int /\ q \in Int
      BY <2>1, <3>1, NodesAre
    <3>3. Key(x, p) = Key(y, q)
      BY <1>5, <3>1
    <3> QED
      BY <3>1, <3>2, <3>3 DEF Key
  <2>3. ASSUME y = t.parent[x], x = t.parent[y] PROVE FALSE
    <3>1. rank[y] < rank[x] /\ rank[x] < rank[y] /\ rank[x] \in Nat /\ rank[y] \in Nat
      BY <1>4, <2>1, <2>3
    <3> QED
      BY <3>1
  <2> QED
    BY <2>2, <2>3
<1>6. Cardinality(ToSet(t.links)) = Len(t.links)
  <2>1. DOMAIN f = B /\ \A x, y \in B : f[x] = f[y] => x = y
    BY <1>5
  <2>2. ToSet(t.links) = {f[n] : n \in B}
    BY <1>3
  <2> HIDE DEF f, B
  <2> QED
    <3>1. IsFiniteSet(B)
      BY <1>2
    <3>2. Cardinality({f[n] : n \in B}) = Cardinality(B)
      BY <2>1, <3>1, Images
    <3> QED
      BY <1>2, <1>3, <2>2, <3>2
<1>7. ASSUME NEW k \in ToSet(t.links) PROVE ToSet(k) \subseteq t.inSet
  <2>1. PICK n \in B : k = Key(n, t.parent[n])
    BY <1>3
  <2>2. ToSet(k) = {n, t.parent[n]} /\ n \in t.inSet /\ t.parent[n] \in t.inSet
    BY <1>1, <1>3, <2>1, KeyIs
  <2> QED
    BY <2>2
<1>8. ASSUME NEW n \in t.inSet PROVE Last(Up(t, n)) = t.root
  <2>1. Ascent(g, t, n, Up(t, n))
    BY UpIs
  <2> QED
    BY <2>1 DEF Ascent, Last
<1>9. UNION {ToSet(k) : k \in ToSet(t.links)} \subseteq t.inSet
  BY <1>7
<1> QED
  BY <1>3, <1>6, <1>8, <1>9 DEF TreeShape

LEMMA TreesAre ==
  ASSUME RunInv, phase \in {"scored", "routed"}, NEW s \in Slices, members[s] # <<>>
  PROVE  /\ GraphOK(graph) /\ NodesOf(graph) = MeshNodes /\ ind.seg[s] \in Seq(MeshNodes)
         /\ ind.seg[s] # <<>> /\ Decoded(graph, ind.seg[s], DecodeSlice(graph, ind.seg[s]))
<1>1. ind.seg \in Orders /\ DecodeEnds(graph, ind.seg[s])
  BY DEF RunInv, Scored
<1>2. ind.seg[s] \in Seq(MeshNodes) /\ ind.seg[s] # <<>>
  BY <1>1, OrderIs
<1>3. GraphOK(graph) /\ NodesOf(graph) = MeshNodes
  <2>1. ReadFrom(graph, table)
    BY GraphIs
  <2> QED
    BY <2>1 DEF ReadFrom, NodesOf, MeshNodes
<1> QED
  BY <1>1, <1>2, <1>3, DecodeIs

(* Whatever the table and the orders, every slice decodes to a tree.       *)
(* States DecodesToTrees, the property of the run: DecodeSlice             *)
(* (fitness.cc) leaves no slice with a cycle, a doubled link or a member   *)
(* whose climb does not end at the root, unmeasured links or not.          *)
THEOREM DecodesToTreesHolds == Spec => []DecodesToTrees
<1>1. RunInv => DecodesToTrees
  <2> SUFFICES ASSUME RunInv, phase = "scored", NEW s \in Slices, members[s] # <<>>
               PROVE  TreeShape(DecodeSlice(graph, ind.seg[s]))
    BY DEF DecodesToTrees, TreeShape
  <2>1. PICK t : t = DecodeSlice(graph, ind.seg[s])
    OBVIOUS
  <2>2. GraphOK(graph) /\ t \in TreesOf(graph) /\ Rooted(graph, t)
    BY <2>1, TreesAre DEF Decoded
  <2> QED
    BY <2>1, <2>2, RootedIsTree
<1> QED
  BY <1>1, RunHolds, PTL

(* Links go both ways, and so do distances. *)
LEMMA DistancesAreSymmetric ==
  ASSUME NEW g, GraphOK(g)
  PROVE  \A a, b \in NodesOf(g) : Distances(g)[<<a, b>>] = Distances(g)[<<b, a>>]
<1> DEFINE V == NodesOf(g)
           m == g.num
<1>1. PICK via : Via(g, via)
  BY DistancesUnfold
<1>2. m \in Nat /\ m # 0 /\ V = 0..(m - 1)
  BY NodesAre DEF GraphOK
<1> HIDE DEF m
<1> DEFINE G == {n \in 0..m : \A a, b \in V : via[n][<<a, b>>] = via[n][<<b, a>>]}
<1>3. 0 \in G
  <2>1. via[0] = Direct(g) /\ 0 \in 0..m
    BY <1>1, <1>2 DEF Via
  <2>2. ASSUME NEW a \in V, NEW b \in V PROVE Direct(g)[<<a, b>>] = Direct(g)[<<b, a>>]
    <3>1. /\ Direct(g)[<<a, b>>] = IF a = b THEN 0 ELSE IF b \in Neighbours(g, a) THEN Weight(g, a, b) ELSE Infinite
          /\ Direct(g)[<<b, a>>] = IF b = a THEN 0 ELSE IF a \in Neighbours(g, b) THEN Weight(g, b, a) ELSE Infinite
      BY DirectIs
    <3>2. b \in Neighbours(g, a) => a \in Neighbours(g, b) /\ Weight(g, b, a) = Weight(g, a, b)
      BY WeightIs
    <3>3. a \in Neighbours(g, b) => b \in Neighbours(g, a)
      BY WeightIs
    <3> QED
      BY <3>1, <3>2, <3>3
  <2> QED
    BY <2>1, <2>2
<1>4. ASSUME NEW n \in 0..m, n # m, n \in G PROVE n + 1 \in G
  <2>1. n \in V /\ n \in 0..(m - 1) /\ n + 1 \in 0..m
    BY <1>2, <1>4
  <2>2. via[n + 1] = Through(g, via[n], n) /\ via[n] \in [V \X V -> Int]
    BY <1>1, <2>1 DEF Via, m
  <2>3. ASSUME NEW a \in V, NEW b \in V PROVE via[n + 1][<<a, b>>] = via[n + 1][<<b, a>>]
    <3>1. /\ via[n + 1][<<a, b>>] = Least(via[n][<<a, b>>], via[n][<<a, n>>] + via[n][<<n, b>>])
          /\ via[n + 1][<<b, a>>] = Least(via[n][<<b, a>>], via[n][<<b, n>>] + via[n][<<n, a>>])
      BY <2>2, ThroughAt
    <3>2. PICK x, y, z \in Int : x = via[n][<<a, b>>] /\ y = via[n][<<a, n>>] /\ z = via[n][<<n, b>>]
      BY <2>1, <2>2
    <3>3. x = via[n][<<b, a>>] /\ y = via[n][<<n, a>>] /\ z = via[n][<<b, n>>]
      BY <1>4, <2>1, <3>2
    <3>4. y + z = z + y
      BY <3>2
    <3> QED
      BY <3>1, <3>2, <3>3, <3>4
  <2> QED
    BY <2>1, <2>3
<1>5. m \in G
  <2> HIDE DEF G
  <2>1. 0..m \subseteq G
    BY <1>2, <1>3, <1>4, UpTo
  <2> QED
    BY <1>2, <2>1
<1>6. via[m] = Distances(g)
  BY <1>1 DEF Via, m
<1> QED
  BY <1>5, <1>6

(* What a search did not find is out of reach. *)
LEMMA NothingNear ==
  ASSUME NEW g, GraphOK(g), Positive(g), LightLinks(g), NEW goal, NEW src \in NodesOf(g), src \notin goal,
         NearestInSet(g, src, goal) = <<>>
  PROVE  \A b \in goal \cap NodesOf(g) : Distances(g)[<<src, b>>] = Infinite
<1> DEFINE s == After(g, src, goal, Turns(g))
<1>1. /\ s \in Searches(g)
      /\ s.queue # {} => Top(s)[2] \in goal \cap NodesOf(g)
      /\ s.queue = {} => \A b \in goal \cap NodesOf(g) : Distances(g)[<<src, b>>] = Infinite
  <2>1. Finds(g, goal, src, s)
    BY SearchFinds
  <2> HIDE DEF s
  <2> QED
    BY <2>1 DEF Finds
<1>2. s.queue = {} \/ Trail(s, Top(s)[2]) = <<>>
  BY DEF NearestInSet, PathFound
<1> HIDE DEF s
<1>3. CASE s.queue # {}
  <2>1. Chain(g, s, Top(s)[2], Trail(s, Top(s)[2]))
    BY <1>1, <1>3, TrailIs
  <2>2. Len(Trail(s, Top(s)[2])) >= 1 /\ Len(<<>>) = 0
    BY <2>1 DEF Chain
  <2> QED
    BY <1>2, <1>3, <2>2
<1> QED
  BY <1>1, <1>3

(* No path of the graph is as long as the infinity of the search. *)
Shorter(g, K) == K \in Nat /\ g.num * K < Infinite /\ \A k \in LinksOf(g) : g.link[k].delay <= K

LEMMA WayIsFinite ==
  ASSUME NEW g, GraphOK(g), Positive(g), LightLinks(g), NEW K, Shorter(g, K),
         NEW w \in Seq(NodesOf(g)), Len(w) >= 1, Len(w) <= g.num,
         \A i \in 1..(Len(w) - 1) : w[i + 1] \in Neighbours(g, w[i])
  PROVE  Distances(g)[<<w[Len(w)], w[1]>>] < Infinite
<1> DEFINE V == NodesOf(g)
<1>1. PICK n \in Nat : Len(w) = n + 1
  <2>1. Len(w) \in Nat /\ Len(w) - 1 \in Nat /\ Len(w) = Len(w) - 1 + 1
    BY LenProperties
  <2> QED
    BY <2>1
<1>2. PICK D : D = Distances(g)
  OBVIOUS
<1>3. /\ \A a, b \in V : D[<<a, b>>] \in Int
      /\ \A a \in V : D[<<a, a>>] = 0
      /\ \A a, b, c \in V : D[<<a, b>>] <= D[<<a, c>>] + D[<<c, b>>]
      /\ \A a \in V : \A b \in Neighbours(g, a) : D[<<a, b>>] <= Weight(g, a, b)
  BY <1>2, DistancesAreMetric DEF Metric, Triangles
<1>4. \A i \in 1..(n + 1) : w[i] \in V
  BY <1>1, ElementOfSeq
<1>5. K \in Nat
  BY DEF Shorter
<1> DEFINE G == {k \in 0..n : D[<<w[k + 1], w[1]>>] <= k * K}
<1>6. 0 \in G
  <2>1. 0 \in 0..n /\ 0 + 1 = 1 /\ 1 \in 1..(n + 1) /\ 0 * K = 0
    BY <1>5
  <2>2. D[<<w[1], w[1]>>] = 0
    BY <1>3, <1>4, <2>1
  <2>3. D[<<w[0 + 1], w[1]>>] <= 0 * K
    BY <2>1, <2>2
  <2> QED
    BY <2>1, <2>3
<1>7. ASSUME NEW k \in 0..n, k # n, k \in G PROVE k + 1 \in G
  <2>1. k + 1 \in 0..n /\ k + 1 \in 1..n /\ k + 1 \in 1..(n + 1) /\ k + 1 + 1 \in 1..(n + 1) /\ k \in Nat
        /\ 1 \in 1..(n + 1) /\ k + 1 \in 1..(Len(w) - 1)
    BY <1>1, <1>7
  <2>2. PICK a, b, c \in V : a = w[1] /\ b = w[k + 1] /\ c = w[k + 1 + 1]
    BY <1>4, <2>1
  <2>3. c \in Neighbours(g, b)
    BY <2>1, <2>2
  <2>4. b \in Neighbours(g, c) /\ Weight(g, c, b) <= K
    <3>1. b \in Neighbours(g, c) /\ Weight(g, c, b) = Weight(g, b, c) /\ Key(b, c) \in LinksOf(g)
      BY <2>3, WeightIs
    <3> QED
      BY <3>1 DEF Shorter, Weight
  <2>5. D[<<c, b>>] <= Weight(g, c, b) /\ Weight(g, c, b) \in Int
    BY <1>3, <2>4, WeightIs
  <2>6. D[<<c, a>>] <= D[<<c, b>>] + D[<<b, a>>]
    BY <1>3
  <2>7. D[<<b, a>>] <= k * K
    BY <1>7, <2>2
  <2>8. D[<<c, a>>] \in Int /\ D[<<c, b>>] \in Int /\ D[<<b, a>>] \in Int
    BY <1>3
  <2>9. PICK x \in Int : x = k * K
    BY <1>5, <2>1
  <2>10. (k + 1) * K = x + K
    BY <1>5, <2>1, <2>9
  <2>11. D[<<c, a>>] <= x + K
    BY <1>5, <2>4, <2>5, <2>6, <2>7, <2>8, <2>9
  <2> QED
    BY <2>1, <2>2, <2>10, <2>11
<1>8. n \in G
  <2> HIDE DEF G
  <2>1. 0..n \subseteq G
    BY <1>6, <1>7, UpTo
  <2> QED
    BY <2>1
<1>9. n * K < Infinite
  <2>1. PICK d \in Nat : g.num = n + d
    <3>1. PICK m \in Nat : m = g.num /\ n + 1 <= m
      BY <1>1 DEF GraphOK
    <3>2. m - n \in Nat /\ m = n + (m - n)
      BY <3>1
    <3> QED
      BY <3>1, <3>2
  <2>2. (n + d) * K < Infinite
    BY <2>1 DEF Shorter
  <2>3. (n + d) * K = n * K + d * K
    BY <1>5, <2>1
  <2>4. n * K \in Nat /\ d * K \in Nat
    BY <1>5, <2>1
  <2> QED
    BY <2>2, <2>3, <2>4 DEF Infinite
<1>10. D[<<w[n + 1], w[1]>>] <= n * K
  BY <1>8
<1>11. D[<<w[n + 1], w[1]>>] \in Int /\ n * K \in Int
  <2>1. 1 \in 1..(n + 1) /\ n + 1 \in 1..(n + 1)
    OBVIOUS
  <2> QED
    BY <1>3, <1>4, <1>5, <2>1
<1> QED
  BY <1>1, <1>2, <1>9, <1>10, <1>11 DEF Infinite

LEMMA DelaysBelow ==
  ASSUME NEW g, GraphOK(g), \A k \in LinksOf(g) : g.num * g.link[k].delay < Infinite
  PROVE  \E K : Shorter(g, K)
<1>1. IsFiniteSet(LinksOf(g)) /\ g.num \in Nat /\ \A k \in LinksOf(g) : g.link[k].delay \in Int
  BY DEF GraphOK
<1> DEFINE f == [k \in LinksOf(g) |-> 0 - g.link[k].delay]
           S == {f[k] : k \in LinksOf(g)} \cup {0}
<1>2. IsFiniteSet(S)
  <2>1. DOMAIN f = LinksOf(g)
    OBVIOUS
  <2> HIDE DEF f
  <2>2. IsFiniteSet({f[k] : k \in LinksOf(g)})
    BY <1>1, <2>1, Images
  <2> QED
    BY <2>2, FS_AddElement
<1>3. S \in SUBSET Int /\ S # {}
  BY <1>1
<1>4. PICK m \in S : \A x \in S : m <= x
  <2> HIDE DEF S
  <2> QED
    BY <1>2, <1>3, LeastOfFinite
<1>5. m \in Int /\ m <= 0 /\ \A k \in LinksOf(g) : m <= 0 - g.link[k].delay
  BY <1>3, <1>4
<1>6. g.num * (0 - m) < Infinite
  <2>1. CASE m = 0
    <3>1. g.num * 0 = 0 /\ 0 - m = 0
      BY <1>1, <2>1
    <3> QED
      BY <3>1 DEF Infinite
  <2>2. CASE m # 0
    <3>1. PICK k \in LinksOf(g) : m = 0 - g.link[k].delay
      BY <1>4, <2>2
    <3>2. 0 - m = g.link[k].delay
      BY <1>1, <1>5, <3>1
    <3> QED
      BY <3>2
  <2> QED
    BY <2>1, <2>2
<1>7. Shorter(g, 0 - m)
  <2>1. 0 - m \in Nat
    BY <1>5
  <2>2. \A k \in LinksOf(g) : g.link[k].delay <= 0 - m
    BY <1>1, <1>5
  <2> QED
    BY <1>6, <2>1, <2>2 DEF Shorter
<1> QED
  BY <1>7

(* The members a decode leaves stranded are those out of the root's reach. *)
LEMMA StrandedAreCut ==
  ASSUME NEW g, GraphOK(g), Positive(g), LightLinks(g), NEW K, Shorter(g, K),
         NEW perm \in Seq(NodesOf(g)), NEW t, Decoded(g, perm, t), NEW j \in 1..Len(perm)
  PROVE  (perm[j] # t.root /\ t.parent[perm[j]] = None) <=> Distances(g)[<<perm[1], perm[j]>>] >= Infinite
<1> DEFINE V == NodesOf(g)
<1>1. PICK m \in V : m = perm[j]
  BY ElementOfSeq
<1>2. t \in TreesOf(g) /\ Rooted(g, t) /\ t.root = perm[1] /\ (m \in t.inSet \/ Missed(g, t.root, m))
  BY <1>1 DEF Decoded
<1>3. /\ t.root \in V /\ t.inSet \in SUBSET V /\ None \notin V /\ t.root \in t.inSet
      /\ Distances(g)[<<t.root, m>>] \in Int
  <2>1. t.root \in V /\ t.inSet \in SUBSET V /\ None \notin V /\ t.root \in t.inSet
    BY <1>2, NodesAre DEF TreesOf, Rooted
  <2> QED
    BY <2>1, DistancesAreMetric DEF Metric
<1>4. CASE m \in t.inSet
  <2>1. ~(m # t.root /\ t.parent[m] = None)
    <3>1. m # t.root => t.parent[m] \in V
      BY <1>2, <1>3, <1>4 DEF Rooted
    <3> QED
      BY <1>3, <3>1
  <2>2. PICK w : w = Up(t, m)
    OBVIOUS
  <2>3. Ascent(g, t, m, w)
    BY <1>2, <1>4, <2>2, UpIs
  <2>4. /\ w \in Seq(V) /\ Len(w) >= 1 /\ Len(w) <= g.num /\ w[1] = m /\ w[Len(w)] = t.root
        /\ \A i \in 1..(Len(w) - 1) : t.parent[w[i]] = w[i + 1]
        /\ \A i \in 1..Len(w) : w[i] \in t.inSet /\ w[i] \in V
    BY <1>3, <2>3 DEF Ascent, Climb
  <2>5. ASSUME NEW i \in 1..(Len(w) - 1) PROVE w[i + 1] \in Neighbours(g, w[i])
    <3>1. i \in 1..Len(w) /\ i + 1 \in 1..Len(w)
      <4>1. Len(w) \in Nat
        BY <2>4, LenProperties
      <4> QED
        BY <4>1
    <3>2. t.parent[w[i]] = w[i + 1] /\ w[i] \in t.inSet /\ w[i + 1] \in V
      BY <2>4, <3>1
    <3>3. w[i] # t.root
      BY <1>2, <1>3, <3>2 DEF Rooted
    <3> QED
      BY <1>2, <3>2, <3>3 DEF Rooted
  <2>6. Distances(g)[<<w[Len(w)], w[1]>>] < Infinite
    BY <2>4, <2>5, WayIsFinite
  <2>7. Distances(g)[<<t.root, m>>] < Infinite
    BY <2>4, <2>6
  <2>8. ~(Distances(g)[<<t.root, m>>] >= Infinite)
    BY <1>3, <2>7 DEF Infinite
  <2> QED
    BY <1>1, <1>2, <2>1, <2>8
<1>5. CASE m \notin t.inSet
  <2>1. m # t.root /\ t.parent[m] = None
    BY <1>2, <1>3, <1>5 DEF Rooted
  <2>2. PICK S \in SUBSET V : t.root \in S /\ m \notin S /\ NearestInSet(g, m, S) = <<>>
    BY <1>2, <1>5 DEF Missed
  <2>3. Distances(g)[<<m, t.root>>] = Infinite
    <3>1. t.root \in S \cap V
      BY <2>2
    <3> QED
      BY <2>2, <3>1, NothingNear
  <2>4. Distances(g)[<<t.root, m>>] = Infinite
    BY <1>3, <2>3, DistancesAreSymmetric
  <2> QED
    BY <1>1, <1>2, <2>1, <2>4 DEF Infinite
<1> QED
  BY <1>4, <1>5

(* The violation of an individual counts the members out of reach of their *)
(* slice's root.  States ViolationIsCurrent: Evaluate (fitness.cc) neither *)
(* adds to an older count nor strands a member the graph connects.         *)
THEOREM ViolationIsCurrentHolds == Spec => []ViolationIsCurrent
<1>1. RunInv => ViolationIsCurrent
  <2> SUFFICES ASSUME RunInv, phase \in {"scored", "routed"}, Measured(table)
               PROVE  ind.stranded =
                        SumFunction([s \in Slices |->
                          Cardinality({m \in ToSet(members[s]) :
                                         Distances(graph)[<<ind.seg[s][1], m>>] >= Infinite})])
    BY DEF ViolationIsCurrent, Measured
  <2>1. /\ GraphOK(graph) /\ Positive(graph) /\ LightLinks(graph)
        /\ graph.num = NumNodes /\ NodesOf(graph) = MeshNodes
    BY GraphIsLight
  <2>2. PICK K : Shorter(graph, K)
    <3>1. ReadFrom(graph, table) /\ Short(table)
      BY GraphIs
    <3>2. \A k \in LinksOf(graph) : graph.num * graph.link[k].delay < Infinite
      BY <2>1, <3>1 DEF ReadFrom, Short
    <3> QED
      BY <2>1, <3>2, DelaysBelow
  <2>3. ASSUME NEW s \in Slices
        PROVE  Stranded(Trees(graph, ind.seg)[s], members[s]) =
                 {m \in ToSet(members[s]) : Distances(graph)[<<ind.seg[s][1], m>>] >= Infinite}
    <3>1. ind.seg \in Orders /\ ToSet(ind.seg[s]) = ToSet(members[s]) /\ ind.seg[s] \in Seq(NodesOf(graph))
      <4>1. ind.seg \in Orders
        BY DEF RunInv, Scored
      <4> QED
        BY <2>1, <4>1, OrderIs
    <3>2. PICK perm : perm = ind.seg[s]
      OBVIOUS
    <3>3. PICK t : t = DecodeSlice(graph, perm)
      OBVIOUS
    <3>4. Trees(graph, ind.seg)[s] = t
      BY <3>2, <3>3, SlicesAre DEF Trees, BySlice
    <3>5. CASE members[s] = <<>>
      <4>1. ToSet(members[s]) = {}
        BY <3>5 DEF ToSet
      <4> QED
        BY <4>1 DEF Stranded
    <3>6. CASE members[s] # <<>>
      <4>1. Decoded(graph, perm, t)
        BY <3>2, <3>3, <3>6, TreesAre
      <4>2. ASSUME NEW m \in ToSet(members[s])
            PROVE  (m # t.root /\ t.parent[m] = None) <=> Distances(graph)[<<perm[1], m>>] >= Infinite
        <5>1. PICK j \in DOMAIN perm : m = perm[j]
          BY <3>1, <3>2 DEF ToSet
        <5>2. j \in 1..Len(perm) /\ perm \in Seq(NodesOf(graph))
          BY <3>1, <3>2, <5>1, LenProperties
        <5> QED
          BY <2>1, <2>2, <4>1, <5>1, <5>2, StrandedAreCut
      <4> QED
        BY <3>2, <3>4, <4>2 DEF Stranded
    <3> QED
      BY <3>5, <3>6
  <2>4. ind.stranded = CutOff(Trees(graph, ind.seg), members)
    BY DEF RunInv, Scored
  <2> DEFINE cut(s) == {m \in ToSet(members[s]) : Distances(graph)[<<ind.seg[s][1], m>>] >= Infinite}
  <2>5. \A s \in Slices : Stranded(Trees(graph, ind.seg)[s], members[s]) = cut(s)
    BY <2>3
  <2> HIDE DEF cut
  <2>6. [s \in Slices |-> Cardinality(Stranded(Trees(graph, ind.seg)[s], members[s]))]
          = [s \in Slices |-> Cardinality(cut(s))]
    BY <2>5
  <2>7. ind.stranded = SumFunction([s \in Slices |-> Cardinality(cut(s))])
    BY <2>4, <2>6 DEF CutOff
  <2> QED
    BY <2>7 DEF cut
<1> QED
  BY <1>1, RunHolds, PTL

-----------------------------------------------------------------------------
(* More on sums.                                                           *)

LEMMA SumPart ==
  ASSUME NEW S, IsFiniteSet(S), NEW f, \A x \in S : f[x] \in Int, NEW T \in SUBSET S
  PROVE  SumFunctionOnSet(f, T) \in Int /\ IsFiniteSet(T) /\ Cardinality(T) \in Nat
<1>1. IsFiniteSet(T) /\ \A x \in T : f[x] \in Int
  BY FS_Subset
<1> QED
  BY <1>1, SumAdds, FS_CardinalityType

LEMMA SumUnion ==
  ASSUME NEW S, IsFiniteSet(S), NEW f, \A x \in S : f[x] \in Int,
         NEW A \in SUBSET S, NEW B \in SUBSET S, A \cap B = {}
  PROVE  SumFunctionOnSet(f, A \cup B) = SumFunctionOnSet(f, A) + SumFunctionOnSet(f, B)
<1> DEFINE G == {s \in SUBSET B :
                   SumFunctionOnSet(f, A \cup s) = SumFunctionOnSet(f, A) + SumFunctionOnSet(f, s)}
<1>1. IsFiniteSet(B)
  BY SumPart
<1>2. {} \in G
  <2>1. A \cup {} = A /\ SumFunctionOnSet(f, A) \in Int /\ SumFunctionOnSet(f, {}) = 0
    BY SumPart, SumAdds
  <2> QED
    BY <2>1
<1>3. ASSUME NEW s \in SUBSET B, NEW x \in B, s \in G, x \notin s PROVE s \cup {x} \in G
  <2>1. /\ A \cup (s \cup {x}) = (A \cup s) \cup {x} /\ x \notin A \cup s
        /\ A \cup s \in SUBSET S /\ s \in SUBSET S /\ x \in S
    BY <1>3
  <2>2. SumFunctionOnSet(f, A \cup (s \cup {x})) = SumFunctionOnSet(f, A \cup s) + f[x]
    <3>1. PICK u \in SUBSET S : u = A \cup s
      BY <2>1
    <3>2. SumFunctionOnSet(f, u \cup {x}) = SumFunctionOnSet(f, u) + f[x]
      BY <2>1, <3>1, SumAdds
    <3>3. A \cup (s \cup {x}) = u \cup {x}
      BY <2>1, <3>1
    <3> QED
      BY <3>1, <3>2, <3>3
  <2>3. SumFunctionOnSet(f, s \cup {x}) = SumFunctionOnSet(f, s) + f[x]
    BY <1>3, <2>1, SumAdds
  <2>4. SumFunctionOnSet(f, A) \in Int /\ SumFunctionOnSet(f, s) \in Int /\ f[x] \in Int
    BY <2>1, SumPart
  <2>5. SumFunctionOnSet(f, A \cup s) = SumFunctionOnSet(f, A) + SumFunctionOnSet(f, s)
    BY <1>3
  <2>6. SumFunctionOnSet(f, A \cup (s \cup {x})) = SumFunctionOnSet(f, A) + SumFunctionOnSet(f, s \cup {x})
    BY <2>2, <2>3, <2>4, <2>5
  <2> QED
    BY <1>3, <2>6
<1>4. B \in G
  <2> HIDE DEF G
  <2> QED
    BY <1>1, <1>2, <1>3, SetsGrow
<1> QED
  BY <1>4

LEMMA SumOfNats ==
  ASSUME NEW S, IsFiniteSet(S), NEW f, \A x \in S : f[x] \in Nat
  PROVE  SumFunctionOnSet(f, S) \in Nat
<1> DEFINE G == {s \in SUBSET S : SumFunctionOnSet(f, s) \in Nat}
<1>0. \A x \in S : f[x] \in Int
  OBVIOUS
<1>1. {} \in G
  BY <1>0, SumAdds
<1>2. ASSUME NEW s \in SUBSET S, NEW x \in S, s \in G, x \notin s PROVE s \cup {x} \in G
  <2>1. SumFunctionOnSet(f, s \cup {x}) = SumFunctionOnSet(f, s) + f[x]
    BY <1>0, <1>2, SumAdds
  <2> QED
    BY <1>2, <2>1
<1>3. S \in G
  <2> HIDE DEF G
  <2> QED
    BY <1>1, <1>2, SetsGrow
<1> QED
  BY <1>3

LEMMA SumOfSame ==
  ASSUME NEW S, IsFiniteSet(S), NEW f, \A x \in S : f[x] \in Int, NEW h, \A x \in S : h[x] = f[x]
  PROVE  SumFunctionOnSet(h, S) = SumFunctionOnSet(f, S)
<1> DEFINE G == {s \in SUBSET S : SumFunctionOnSet(h, s) = SumFunctionOnSet(f, s)}
<1>0. \A x \in S : h[x] \in Int
  OBVIOUS
<1>1. {} \in G
  <2>1. SumFunctionOnSet(h, {}) = 0 /\ SumFunctionOnSet(f, {}) = 0
    BY <1>0, SumAdds
  <2> QED
    BY <2>1
<1>2. ASSUME NEW s \in SUBSET S, NEW x \in S, s \in G, x \notin s PROVE s \cup {x} \in G
  <2>1. SumFunctionOnSet(f, s \cup {x}) = SumFunctionOnSet(f, s) + f[x]
    BY <1>2, SumAdds
  <2>2. SumFunctionOnSet(h, s \cup {x}) = SumFunctionOnSet(h, s) + h[x]
    BY <1>0, <1>2, SumAdds
  <2> QED
    BY <1>2, <2>1, <2>2
<1>3. S \in G
  <2> HIDE DEF G
  <2> QED
    BY <1>1, <1>2, SetsGrow
<1> QED
  BY <1>3

LEMMA SumOfConstant ==
  ASSUME NEW S, IsFiniteSet(S), NEW q \in Int, NEW f, \A x \in S : f[x] = q
  PROVE  SumFunctionOnSet(f, S) = Cardinality(S) * q
<1> DEFINE G == {s \in SUBSET S : SumFunctionOnSet(f, s) = Cardinality(s) * q}
<1>0. \A x \in S : f[x] \in Int
  OBVIOUS
<1>1. {} \in G
  <2>1. SumFunctionOnSet(f, {}) = 0 /\ Cardinality({}) = 0 /\ 0 * q = 0
    BY <1>0, SumAdds, FS_EmptySet
  <2> QED
    BY <2>1
<1>2. ASSUME NEW s \in SUBSET S, NEW x \in S, s \in G, x \notin s PROVE s \cup {x} \in G
  <2>1. SumFunctionOnSet(f, s \cup {x}) = SumFunctionOnSet(f, s) + f[x]
    BY <1>0, <1>2, SumAdds
  <2>2. PICK c \in Nat : c = Cardinality(s)
    BY <1>0, SumPart
  <2>3. Cardinality(s \cup {x}) = c + 1
    <3>1. IsFiniteSet(s)
      BY FS_Subset
    <3> QED
      BY <1>2, <2>2, <3>1, FS_AddElement
  <2>4. (c + 1) * q = c * q + q
    BY <2>2
  <2>5. SumFunctionOnSet(f, s) = c * q
    BY <1>2, <2>2
  <2>6. SumFunctionOnSet(f, s \cup {x}) = Cardinality(s \cup {x}) * q
    BY <2>1, <2>3, <2>4, <2>5
  <2> QED
    BY <2>6
<1>3. S \in G
  <2> HIDE DEF G
  <2> QED
    BY <1>1, <1>2, SetsGrow
<1> QED
  BY <1>3

(* What is so little each is little together. *)
LEMMA SumOfSmall ==
  ASSUME NEW S, IsFiniteSet(S), NEW f, \A x \in S : f[x] \in Int,
         NEW l \in Int, NEW r \in Int, \A x \in S : f[x] * l <= r
  PROVE  SumFunctionOnSet(f, S) * l <= Cardinality(S) * r
<1> DEFINE G == {s \in SUBSET S : SumFunctionOnSet(f, s) * l <= Cardinality(s) * r}
<1>1. {} \in G
  <2>1. SumFunctionOnSet(f, {}) = 0 /\ Cardinality({}) = 0 /\ 0 * r = 0 /\ 0 * l = 0 /\ 0 <= 0
    BY SumAdds, FS_EmptySet
  <2> QED
    BY <2>1
<1>2. ASSUME NEW s \in SUBSET S, NEW x \in S, s \in G, x \notin s PROVE s \cup {x} \in G
  <2>1. SumFunctionOnSet(f, s \cup {x}) = SumFunctionOnSet(f, s) + f[x]
    BY <1>2, SumAdds
  <2>2. PICK c \in Nat : c = Cardinality(s)
    BY SumPart
  <2>3. Cardinality(s \cup {x}) = c + 1
    <3>1. IsFiniteSet(s)
      BY FS_Subset
    <3> QED
      BY <1>2, <2>2, <3>1, FS_AddElement
  <2>4. PICK a \in Int, b \in Int : a = SumFunctionOnSet(f, s) /\ b = f[x]
    BY SumPart
  <2>5. a * l <= c * r /\ b * l <= r
    BY <1>2, <2>2, <2>4
  <2>6. (a + b) * l = a * l + b * l /\ (c + 1) * r = c * r + r
    BY <2>2, <2>4
  <2>7. a * l \in Int /\ b * l \in Int /\ c * r \in Int
    BY <2>2, <2>4
  <2>8. (a + b) * l <= (c + 1) * r
    BY <2>5, <2>6, <2>7
  <2>9. SumFunctionOnSet(f, s \cup {x}) * l <= Cardinality(s \cup {x}) * r
    BY <2>1, <2>3, <2>4, <2>8
  <2> QED
    BY <2>9
<1>3. S \in G
  <2> HIDE DEF G
  <2> QED
    BY <1>1, <1>2, SetsGrow
<1> QED
  BY <1>3

(* A sum is the same in another order. *)
LEMMA SumReordered ==
  ASSUME NEW S, IsFiniteSet(S), NEW f, \A x \in S : f[x] \in Int,
         NEW e, \A x, y \in S : e[x] = e[y] => x = y, NEW h, \A x \in S : h[e[x]] = f[x]
  PROVE  SumFunctionOnSet(h, {e[x] : x \in S}) = SumFunctionOnSet(f, S)
<1> DEFINE E(s) == {e[x] : x \in s}
           G == {s \in SUBSET S : SumFunctionOnSet(h, E(s)) = SumFunctionOnSet(f, s)}
<1>0. IsFiniteSet(E(S)) /\ \A y \in E(S) : h[y] \in Int
  <2>1. IsFiniteSet(E(S))
    <3> DEFINE k == [x \in S |-> e[x]]
    <3>1. DOMAIN k = S /\ E(S) = {k[x] : x \in S}
      OBVIOUS
    <3> HIDE DEF k, E
    <3> QED
      BY <3>1, Images
  <2> QED
    BY <2>1
<1>1. {} \in G
  <2>1. E({}) = {}
    OBVIOUS
  <2>2. SumFunctionOnSet(h, {}) = 0 /\ SumFunctionOnSet(f, {}) = 0
    <3> HIDE DEF E
    <3> QED
      BY <1>0, SumAdds
  <2> QED
    BY <2>1, <2>2
<1>2. ASSUME NEW s \in SUBSET S, NEW x \in S, s \in G, x \notin s PROVE s \cup {x} \in G
  <2>1. SumFunctionOnSet(f, s \cup {x}) = SumFunctionOnSet(f, s) + f[x]
    BY <1>2, SumAdds
  <2>2. /\ E(s \cup {x}) = E(s) \cup {e[x]} /\ e[x] \notin E(s)
        /\ E(s) \in SUBSET E(S) /\ e[x] \in E(S) /\ h[e[x]] = f[x]
    BY <1>2
  <2>3. SumFunctionOnSet(h, E(s)) = SumFunctionOnSet(f, s)
    BY <1>2
  <2> HIDE DEF E
  <2>4. SumFunctionOnSet(h, E(s) \cup {e[x]}) = SumFunctionOnSet(h, E(s)) + h[e[x]]
    BY <1>0, <2>2, SumAdds
  <2>5. SumFunctionOnSet(h, E(s \cup {x})) = SumFunctionOnSet(f, s \cup {x})
    BY <2>1, <2>2, <2>3, <2>4
  <2> QED
    BY <2>5
<1>3. S \in G
  <2> HIDE DEF G
  <2> QED
    BY <1>1, <1>2, SetsGrow
<1> QED
  BY <1>3

-----------------------------------------------------------------------------
(* Shares.                                                                 *)

Passes(d) == [demand : {d}, settled : SUBSET (1..Len(d)), remaining : Int]
Unmet(d, s) == Len(d) - Cardinality(s.settled)
Fits(d, s) == {i \in 1..Len(d) : i \notin s.settled /\ d[i] * Unmet(d, s) <= s.remaining}

(* What is left covers as much as was met for everybody who is left.       *)
Fair(capacity, d, s) ==
  /\ s \in Passes(d) /\ s.remaining >= 0
  /\ s.remaining = capacity - SumFunctionOnSet(d, s.settled)
  /\ \A x \in s.settled : d[x] * Unmet(d, s) <= s.remaining

LEMMA DemandsAre ==
  ASSUME NEW d \in Seq(Nat)
  PROVE  /\ Len(d) \in Nat /\ DOMAIN d = 1..Len(d) /\ \A i \in 1..Len(d) : d[i] \in Nat /\ d[i] \in Int
         /\ IsFiniteSet(1..Len(d)) /\ Cardinality(1..Len(d)) = Len(d)
<1>1. Len(d) \in Nat /\ DOMAIN d = 1..Len(d) /\ \A i \in 1..Len(d) : d[i] \in Nat
  BY LenProperties, ElementOfSeq
<1>2. IsFiniteSet(1..Len(d)) /\ Cardinality(1..Len(d)) = Len(d)
  BY <1>1, FS_Interval
<1> QED
  BY <1>1, <1>2

LEMMA SettleIs ==
  ASSUME NEW d \in Seq(Nat), NEW s \in Passes(d)
  PROVE  /\ Settle(s) \in Passes(d)
         /\ Settle(s).settled = s.settled \cup Fits(d, s)
         /\ Settle(s).remaining = s.remaining - SumFunctionOnSet(d, Fits(d, s))
         /\ Fits(d, s) = {} => Settle(s) = s
<1>1. /\ s.demand = d /\ s.settled \in SUBSET (1..Len(d)) /\ s.remaining \in Int
      /\ s = [demand |-> s.demand, settled |-> s.settled, remaining |-> s.remaining]
  BY DEF Passes
<1>2. PICK F : F = Fits(d, s)
  OBVIOUS
<1>3. F = {i \in DOMAIN s.demand : i \notin s.settled
             /\ s.demand[i] * (Len(s.demand) - Cardinality(s.settled)) <= s.remaining}
  BY <1>1, <1>2, DemandsAre DEF Fits, Unmet
<1>4. Settle(s) = [s EXCEPT !.settled = s.settled \cup F, !.remaining = s.remaining - SumFunctionOnSet(d, F)]
  BY <1>1, <1>3 DEF Settle
<1>5. Settle(s) = [demand |-> d, settled |-> s.settled \cup F, remaining |-> s.remaining - SumFunctionOnSet(d, F)]
  BY <1>1, <1>4
<1>6. F \in SUBSET (1..Len(d))
  BY <1>2 DEF Fits
<1>7. SumFunctionOnSet(d, F) \in Int /\ SumFunctionOnSet(d, {}) = 0
  <2>1. IsFiniteSet(1..Len(d)) /\ \A x \in 1..Len(d) : d[x] \in Int
    BY DemandsAre
  <2> QED
    BY <1>6, <2>1, SumPart, SumAdds
<1>8. Settle(s) \in Passes(d)
  <2>1. PICK r \in Int : r = s.remaining - SumFunctionOnSet(d, F)
    <3>1. PICK a \in Int, b \in Int : a = s.remaining /\ b = SumFunctionOnSet(d, F)
      BY <1>1, <1>7
    <3>2. a - b \in Int
      OBVIOUS
    <3> QED
      BY <3>1, <3>2
  <2>2. PICK e \in SUBSET (1..Len(d)) : e = s.settled \cup F
    BY <1>1, <1>6
  <2>3. Settle(s) = [demand |-> d, settled |-> e, remaining |-> r]
    BY <1>5, <2>1, <2>2
  <2> QED
    BY <2>3 DEF Passes
<1>9. ASSUME F = {} PROVE Settle(s) = s
  <2>1. s.settled \cup F = s.settled /\ s.remaining - SumFunctionOnSet(d, F) = s.remaining
    BY <1>1, <1>7, <1>9
  <2> QED
    BY <1>1, <1>5, <2>1
<1> QED
  BY <1>2, <1>5, <1>8, <1>9

LEMMA EnoughIsLeft ==
  ASSUME NEW l \in Nat, l # 0, NEW k \in Nat, k <= l, NEW r \in Nat, NEW m \in Nat, m * l <= k * r
  PROVE  /\ m <= r
         /\ \A v \in Nat : v * l <= r => v * (l - k) <= r - m
<1>1. PICK j \in Nat : l = k + j
  <2>1. l - k \in Nat /\ l = k + (l - k)
    OBVIOUS
  <2> QED
    BY <2>1
<1>2. (k + j) * r = k * r + j * r /\ k * r \in Nat /\ j * r \in Nat
  BY <1>1
<1>3. m * l <= l * r - j * r
  BY <1>1, <1>2
<1>4. m <= r
  <2>1. ASSUME m >= r + 1 PROVE FALSE
    <3>1. PICK e \in Nat : m = r + 1 + e
      <4>1. m - r - 1 \in Nat /\ m = r + 1 + (m - r - 1)
        BY <2>1
      <4> QED
        BY <4>1
    <3>2. (r + 1 + e) * l = r * l + l + e * l /\ e * l \in Nat /\ r * l \in Nat
      BY <3>1
    <3>3. l * r = r * l
      OBVIOUS
    <3> QED
      BY <1>2, <1>3, <3>1, <3>2, <3>3
  <2> QED
    BY <2>1
<1>5. ASSUME NEW v \in Nat, v * l <= r PROVE v * j <= r - m
  <2>1. (v * l) * j <= r * j
    <3>1. PICK a \in Nat : a = v * l
      OBVIOUS
    <3>2. PICK b \in Nat : r = a + b
      <4>1. r - a \in Nat /\ r = a + (r - a)
        BY <1>5, <3>1
      <4> QED
        BY <4>1
    <3>3. (a + b) * j = a * j + b * j /\ b * j \in Nat /\ a * j \in Nat
      BY <1>1, <3>1, <3>2
    <3> QED
      BY <3>1, <3>2, <3>3
  <2>2. PICK x \in Nat : x = v * j
    BY <1>1
  <2>3. (v * l) * j = x * l
    BY <1>1, <2>2
  <2>4. r * j = j * r /\ l * r = r * l
    BY <1>1
  <2>5. PICK y \in Nat : y = r - m
    BY <1>4
  <2>6. y * l = r * l - m * l
    BY <2>5
  <2>7. x * l <= y * l
    <3>1. m * l \in Nat /\ r * l \in Nat /\ x * l \in Nat /\ j * r \in Nat
      BY <1>1, <2>2
    <3> QED
      BY <1>3, <2>1, <2>3, <2>4, <2>6, <3>1
  <2>8. x <= y
    <3>1. ASSUME x >= y + 1 PROVE FALSE
      <4>1. PICK e \in Nat : x = y + 1 + e
        <5>1. x - y - 1 \in Nat /\ x = y + 1 + (x - y - 1)
          BY <2>2, <2>5, <3>1
        <5> QED
          BY <5>1
      <4>2. (y + 1 + e) * l = y * l + l + e * l /\ e * l \in Nat /\ y * l \in Nat
        BY <2>5, <4>1
      <4> QED
        BY <2>7, <4>1, <4>2
    <3> QED
      BY <2>2, <2>5, <3>1
  <2> QED
    BY <2>2, <2>5, <2>8
<1>6. l - k = j
  BY <1>1
<1> QED
  BY <1>4, <1>5, <1>6

LEMMA SettleIsFair ==
  ASSUME NEW d \in Seq(Nat), NEW capacity \in Nat, NEW s, Fair(capacity, d, s)
  PROVE  /\ Fair(capacity, d, Settle(s))
         /\ Fits(d, s) # {} => Cardinality(Settle(s).settled) >= Cardinality(s.settled) + 1
<1> DEFINE n == Len(d)
           D == 1..n
<1>1. s \in Passes(d) /\ s.remaining \in Nat /\ s.settled \in SUBSET D
      /\ s.remaining = capacity - SumFunctionOnSet(d, s.settled)
      /\ \A x \in s.settled : d[x] * Unmet(d, s) <= s.remaining
  BY DEF Fair, Passes
<1>2. n \in Nat /\ IsFiniteSet(D) /\ Cardinality(D) = n /\ \A i \in D : d[i] \in Nat /\ d[i] \in Int
  BY DemandsAre
<1>3. PICK F \in SUBSET D : F = Fits(d, s)
  BY DEF Fits
<1>4. PICK u : u = Settle(s)
  OBVIOUS
<1>5. u \in Passes(d) /\ u.settled = s.settled \cup F /\ u.remaining = s.remaining - SumFunctionOnSet(d, F)
  BY <1>1, <1>3, <1>4, SettleIs
<1> HIDE DEF D, n
<1>6. PICK c \in Nat, k \in Nat : c = Cardinality(s.settled) /\ k = Cardinality(F)
  BY <1>1, <1>2, SumPart
<1>7. IsFiniteSet(F) /\ IsFiniteSet(s.settled) /\ s.settled \cap F = {}
  BY <1>1, <1>2, <1>3, FS_Subset DEF Fits
<1>8. Cardinality(u.settled) = c + k /\ c + k <= n
  <2>1. Cardinality(s.settled \cup F) = c + k - Cardinality(s.settled \cap F)
    BY <1>6, <1>7, FS_Union
  <2>2. Cardinality(s.settled \cap F) = 0
    BY <1>7, FS_EmptySet
  <2>3. Cardinality(s.settled \cup F) <= Cardinality(D)
    <3>1. s.settled \cup F \in SUBSET D
      BY <1>1
    <3> QED
      BY <1>2, <3>1, FS_Subset
  <2> QED
    BY <1>2, <1>5, <1>6, <2>1, <2>2, <2>3
<1>9. PICK l \in Nat : l = n - c /\ k <= l
  <2>1. n - c \in Nat /\ k <= n - c
    BY <1>2, <1>6, <1>8
  <2> QED
    BY <2>1
<1>10. Unmet(d, s) = l /\ Unmet(d, u) = l - k
  <2>1. Unmet(d, s) = l
    BY <1>6, <1>9 DEF Unmet, n
  <2>2. Unmet(d, u) = n - (c + k)
    BY <1>8 DEF Unmet, n
  <2> QED
    BY <1>2, <1>6, <1>9, <2>1, <2>2
<1>11. \A x \in F : d[x] * l <= s.remaining
  BY <1>3, <1>10 DEF Fits
<1>12. PICK m \in Nat : m = SumFunctionOnSet(d, F)
  <2>1. \A x \in F : d[x] \in Nat
    BY <1>2
  <2> QED
    BY <1>7, <2>1, SumOfNats
<1>13. m * l <= k * s.remaining
  <2>1. SumFunctionOnSet(d, F) * l <= Cardinality(F) * s.remaining
    <3>1. \A x \in F : d[x] \in Int
      BY <1>2
    <3>2. l \in Int /\ s.remaining \in Int
      BY <1>1
    <3> QED
      BY <1>7, <1>11, <3>1, <3>2, SumOfSmall
  <2> QED
    BY <1>6, <1>12, <2>1
<1>14. u.remaining = s.remaining - m /\ u.remaining \in Int
  BY <1>1, <1>5, <1>12
<1>15. u.remaining = capacity - SumFunctionOnSet(d, u.settled)
  <2>1. SumFunctionOnSet(d, s.settled \cup F) = SumFunctionOnSet(d, s.settled) + SumFunctionOnSet(d, F)
    BY <1>1, <1>2, <1>7, SumUnion
  <2>2. SumFunctionOnSet(d, s.settled) \in Int
    BY <1>1, <1>2, SumPart
  <2> QED
    BY <1>1, <1>5, <1>12, <1>14, <2>1, <2>2
<1>16. \A x \in u.settled : d[x] * l <= s.remaining /\ d[x] \in Nat
  BY <1>1, <1>2, <1>5, <1>10, <1>11
<1>17. u.remaining >= 0 /\ \A x \in u.settled : d[x] * (l - k) <= u.remaining
  <2>1. CASE l = 0
    <3>1. k = 0
      BY <1>9, <2>1
    <3>2. F = {}
      BY <1>6, <1>7, <3>1, FS_EmptySet
    <3>3. m = 0
      <4>1. SumFunctionOnSet(d, {}) = 0
        BY <1>2, SumAdds
      <4> QED
        BY <1>12, <3>2, <4>1
    <3>4. u.remaining = s.remaining /\ l - k = l
      BY <1>1, <1>14, <2>1, <3>1, <3>3
    <3> QED
      BY <1>1, <1>16, <3>4
  <2>2. CASE l # 0
    <3>1. m <= s.remaining /\ \A v \in Nat : v * l <= s.remaining => v * (l - k) <= s.remaining - m
      BY <1>1, <1>9, <1>13, <2>2, EnoughIsLeft
    <3>2. s.remaining - m >= 0
      BY <1>1, <3>1
    <3>3. ASSUME NEW x \in u.settled PROVE d[x] * (l - k) <= s.remaining - m
      BY <1>16, <3>1, <3>3
    <3> QED
      BY <1>14, <3>2, <3>3
  <2> QED
    BY <2>1, <2>2
<1>18. Fair(capacity, d, u)
  BY <1>5, <1>10, <1>15, <1>17 DEF Fair
<1>19. F # {} => Cardinality(u.settled) >= c + 1
  <2>1. F # {} => k # 0
    BY <1>6, <1>7, FS_EmptySet
  <2> QED
    BY <1>6, <1>8, <2>1
<1> QED
  BY <1>3, <1>4, <1>6, <1>18, <1>19

(* What FairShare settles on. *)
LEMMA PassesAre ==
  ASSUME NEW d \in Seq(Nat), NEW capacity \in Nat
  PROVE  \E s : /\ Fair(capacity, d, s) /\ Fits(d, s) = {}
                /\ FairShare(capacity, d) =
                     [i \in 1..Len(d) |-> IF i \in s.settled THEN d[i] ELSE s.remaining \div Unmet(d, s)]
<1> DEFINE n == Len(d)
           S == Passes(d)
           b == [demand |-> d, settled |-> {}, remaining |-> capacity]
           F == [i \in 1..n |-> [s \in S |-> Settle(s)]]
           Is(pass) == pass = [i \in 0..n |-> IF i = 0 THEN b ELSE Settle(pass[i - 1])]
           pass == CHOOSE pass : Is(pass)
<1>1. /\ n \in Nat /\ DOMAIN d = 1..n /\ IsFiniteSet(1..n) /\ Cardinality(1..n) = n
      /\ \A x \in 1..n : d[x] \in Int
  BY DemandsAre
<1>2. FairShare(capacity, d) =
        [i \in 1..n |-> IF i \in pass[n].settled THEN d[i] ELSE pass[n].remaining \div Unmet(d, pass[n])]
  BY <1>1 DEF FairShare, Unmet
<1>3. b \in S /\ Fair(capacity, d, b) /\ Cardinality(b.settled) = 0
  <2>1. SumFunctionOnSet(d, {}) = 0
    BY <1>1, SumAdds
  <2>2. b \in S /\ b.settled = {} /\ b.remaining = capacity
    BY DEF Passes
  <2> HIDE DEF b
  <2> QED
    BY <2>1, <2>2, FS_EmptySet DEF Fair
<1>4. \A s \in S : Settle(s) \in S
  BY SettleIs
<1>5. F \in [1..n -> [S -> S]] /\ \A i \in 1..n, s \in S : F[i][s] = Settle(s)
  <2> HIDE DEF S
  <2> QED
    BY <1>4
<1> HIDE DEF S, F, b, n
<1>6. PICK h : Iteration(S, b, n, F, h)
  BY <1>1, <1>3, <1>5, Iterates
<1>7. h \in [0..n -> S] /\ \A i \in 0..n : h[i] = IF i = 0 THEN b ELSE F[i][h[i - 1]]
  BY <1>6 DEF Iteration
<1>8. \A i \in 0..n : h[i] = IF i = 0 THEN b ELSE Settle(h[i - 1])
  <2>1. ASSUME NEW i \in 0..n, i # 0 PROVE F[i][h[i - 1]] = Settle(h[i - 1])
    <3>1. i \in 1..n /\ i - 1 \in 0..n
      BY <1>1, <2>1
    <3> QED
      BY <1>5, <1>7, <3>1
  <2> QED
    BY <1>7, <2>1
<1>9. Is(h)
  BY <1>7, <1>8
<1>10. Is(pass)
  BY <1>9
<1>11. DOMAIN pass = 0..n /\ \A i \in 0..n : pass[i] = IF i = 0 THEN b ELSE Settle(pass[i - 1])
  <2> HIDE DEF pass
  <2> QED
    BY <1>10
<1> HIDE DEF pass, Is
<1> DEFINE G == {i \in 0..n : /\ Fair(capacity, d, pass[i])
                              /\ Fits(d, pass[i]) = {} \/ Cardinality(pass[i].settled) >= i}
<1>12. 0 \in G
  <2>1. 0 \in 0..n /\ pass[0] = b
    BY <1>1, <1>11
  <2>2. Cardinality(b.settled) >= 0
    BY <1>3
  <2> QED
    BY <1>3, <2>1, <2>2
<1>13. ASSUME NEW i \in 0..n, i # n, i \in G PROVE i + 1 \in G
  <2>1. i + 1 \in 0..n /\ i + 1 # 0 /\ i + 1 - 1 = i
    BY <1>1, <1>13
  <2>2. PICK s : s = pass[i]
    OBVIOUS
  <2>3. PICK u : u = pass[i + 1]
    OBVIOUS
  <2>4. u = Settle(s) /\ Fair(capacity, d, s) /\ (Fits(d, s) = {} \/ Cardinality(s.settled) >= i)
    BY <1>11, <1>13, <2>1, <2>2, <2>3
  <2>5. /\ Fair(capacity, d, u)
        /\ Fits(d, s) # {} => Cardinality(u.settled) >= Cardinality(s.settled) + 1
    BY <2>4, SettleIsFair
  <2>6. Fits(d, s) = {} => u = s
    BY <2>4, SettleIs DEF Fair
  <2>7. Fits(d, u) = {} \/ Cardinality(u.settled) >= i + 1
    <3>1. CASE Fits(d, s) = {}
      BY <2>6, <3>1
    <3>2. CASE Fits(d, s) # {}
      <4>1. Cardinality(s.settled) \in Nat /\ Cardinality(u.settled) \in Nat
        <5>1. s.settled \in SUBSET (1..n) /\ u.settled \in SUBSET (1..n)
          BY <2>4, <2>5 DEF Fair, Passes, n
        <5> QED
          BY <1>1, <5>1, SumPart
      <4> QED
        BY <2>1, <2>4, <2>5, <3>2, <4>1
    <3> QED
      BY <3>1, <3>2
  <2> QED
    BY <2>1, <2>3, <2>5, <2>7
<1>14. n \in G
  <2> HIDE DEF G
  <2>1. 0..n \subseteq G
    BY <1>1, <1>12, <1>13, UpTo
  <2> QED
    BY <1>1, <2>1
<1>15. PICK s : s = pass[n]
  OBVIOUS
<1>16. Fair(capacity, d, s) /\ (Fits(d, s) = {} \/ Cardinality(s.settled) >= n)
  BY <1>14, <1>15
<1>17. Fits(d, s) = {}
  <2>1. ASSUME Cardinality(s.settled) >= n PROVE Fits(d, s) = {}
    <3>1. s.settled \in SUBSET (1..n)
      BY <1>16 DEF Fair, Passes, n
    <3>2. s.settled = 1..n
      <4>1. Cardinality(s.settled) \in Nat /\ Cardinality(s.settled) <= Cardinality(1..n)
        BY <1>1, <3>1, FS_Subset, FS_CardinalityType
      <4>2. Cardinality(s.settled) = Cardinality(1..n)
        BY <1>1, <2>1, <4>1
      <4> QED
        BY <1>1, <3>1, <4>2, FS_Subset
    <3> QED
      BY <3>2 DEF Fits, n
  <2> QED
    BY <1>16, <2>1
<1> QED
  BY <1>2, <1>15, <1>16, <1>17 DEF n

LEMMA Quotient ==
  ASSUME NEW r \in Nat, NEW l \in Nat, l # 0
  PROVE  r \div l \in Nat /\ l * (r \div l) <= r /\ r < l * (r \div l) + l
OBVIOUS

(* What max-min fair means of the shares a of the demands d.               *)
MaxMin(capacity, d, D, a) ==
  /\ \A i \in D : a[i] \in Nat /\ a[i] <= d[i]
  /\ SumFunctionOnSet(a, D) \in Int /\ SumFunctionOnSet(a, D) <= capacity
  /\ \A i, x \in D : a[i] < d[i] => a[x] <= a[i]
  /\ LET short == {i \in D : a[i] < d[i]}
     IN  /\ IsFiniteSet(short)
         /\ short # {} => SumFunctionOnSet(a, D) + Cardinality(short) > capacity

LEMMA SharesAre ==
  ASSUME NEW d \in Seq(Nat), NEW capacity \in Nat
  PROVE  /\ DOMAIN FairShare(capacity, d) = 1..Len(d)
         /\ MaxMin(capacity, d, 1..Len(d), FairShare(capacity, d))
<1> DEFINE n == Len(d)
           D == 1..n
<1>1. PICK s : /\ Fair(capacity, d, s) /\ Fits(d, s) = {}
               /\ FairShare(capacity, d) =
                    [i \in 1..Len(d) |-> IF i \in s.settled THEN d[i] ELSE s.remaining \div Unmet(d, s)]
  BY PassesAre
<1>2. n \in Nat /\ IsFiniteSet(D) /\ Cardinality(D) = n /\ \A i \in D : d[i] \in Nat /\ d[i] \in Int
  BY DemandsAre
<1>3. PICK S \in SUBSET D : S = s.settled
  BY <1>1 DEF Fair, Passes
<1>4. PICK r \in Nat : r = s.remaining /\ r = capacity - SumFunctionOnSet(d, S)
  BY <1>1, <1>3 DEF Fair, Passes
<1>5. PICK a : a = FairShare(capacity, d)
  OBVIOUS
<1>6. PICK U \in SUBSET D : U = D \ S
  OBVIOUS
<1>7. PICK l : l = Unmet(d, s)
  OBVIOUS
<1>8. a = [i \in D |-> IF i \in S THEN d[i] ELSE r \div l]
  BY <1>1, <1>3, <1>4, <1>5, <1>7
<1>9. (\A x \in S : d[x] * l <= r) /\ \A i \in U : ~(d[i] * l <= r)
  <2>1. \A x \in S : d[x] * l <= r
    BY <1>1, <1>3, <1>4, <1>7 DEF Fair
  <2>2. \A i \in U : ~(d[i] * l <= r)
    BY <1>1, <1>3, <1>4, <1>6, <1>7 DEF Fits
  <2> QED
    BY <2>1, <2>2
<1>10. l \in Nat /\ l = Cardinality(U) /\ IsFiniteSet(U) /\ IsFiniteSet(S)
  <2>1. IsFiniteSet(U) /\ IsFiniteSet(S)
    BY <1>2, FS_Subset
  <2>2. l = n - Cardinality(S)
    BY <1>3, <1>7 DEF Unmet
  <2>3. Cardinality(U) = n - Cardinality(D \cap S)
    BY <1>2, <1>6, FS_Difference
  <2>4. D \cap S = S
    OBVIOUS
  <2> QED
    BY <2>1, <2>2, <2>3, <2>4, FS_CardinalityType
<1> HIDE DEF D, n
<1>11. (\A i \in S : a[i] = d[i]) /\ (\A i \in U : a[i] = r \div l) /\ DOMAIN a = D
  BY <1>6, <1>8
<1>12. PICK m \in Int : m = SumFunctionOnSet(d, S) /\ r = capacity - m
  BY <1>2, <1>4, SumPart
<1>13. SumFunctionOnSet(a, S) = m
  <2>1. \A x \in S : d[x] \in Int
    BY <1>2
  <2> QED
    BY <1>10, <1>11, <1>12, <2>1, SumOfSame
<1>14. CASE l = 0
  <2>1. U = {}
    BY <1>10, <1>14, FS_EmptySet
  <2>2. S = D
    BY <1>6, <2>1
  <2>3. \A i \in D : a[i] = d[i] /\ a[i] \in Nat
    BY <1>2, <1>11, <2>2
  <2>4. SumFunctionOnSet(a, D) = m /\ m <= capacity
    BY <1>12, <1>13, <2>2
  <2>5. {i \in D : a[i] < d[i]} = {}
    BY <1>2, <2>3
  <2>6. MaxMin(capacity, d, D, a)
    <3>1. \A i \in D : a[i] \in Nat /\ a[i] <= d[i]
      BY <2>3
    <3>2. \A i, x \in D : a[i] < d[i] => a[x] <= a[i]
      BY <2>5
    <3>3. IsFiniteSet({})
      BY FS_EmptySet
    <3> QED
      BY <2>4, <2>5, <3>1, <3>2, <3>3 DEF MaxMin
  <2> QED
    BY <1>5, <1>11, <2>6 DEF D, n
<1>15. CASE l # 0
  <2>1. PICK q \in Nat : q = r \div l /\ l * q <= r /\ r < l * q + l
    BY <1>10, <1>15, Quotient
  <2>2. ASSUME NEW x \in S PROVE d[x] <= q
    <3>1. PICK v \in Nat : v = d[x]
      BY <1>2
    <3>2. v * l <= r
      BY <1>9, <3>1
    <3>3. ASSUME v >= q + 1 PROVE FALSE
      <4>1. PICK e \in Nat : v = q + 1 + e
        <5>1. v - q - 1 \in Nat /\ v = q + 1 + (v - q - 1)
          BY <3>3
        <5> QED
          BY <5>1
      <4>2. (q + 1 + e) * l = l * q + l + e * l /\ e * l \in Nat /\ l * q \in Nat
        BY <1>10
      <4>3. PICK p \in Nat, b \in Nat : p = l * q /\ b = e * l /\ v * l = p + l + b
        BY <1>10, <4>1, <4>2
      <4>4. p + l + b <= r /\ r < p + l
        BY <2>1, <3>2, <4>3
      <4>5. p \in Nat /\ b \in Nat /\ l \in Nat /\ r \in Nat
        BY <1>10, <4>3
      <4> QED
        BY <4>4, <4>5
    <3> QED
      BY <3>1, <3>3
  <2>3. ASSUME NEW x \in U PROVE q < d[x]
    <3>1. PICK v \in Nat : v = d[x]
      BY <1>2
    <3>2. ~(v * l <= r)
      BY <1>9, <3>1
    <3>3. ASSUME v <= q PROVE FALSE
      <4>1. PICK e \in Nat : q = v + e
        <5>1. q - v \in Nat /\ q = v + (q - v)
          BY <3>3
        <5> QED
          BY <5>1
      <4>2. l * (v + e) = v * l + l * e /\ l * e \in Nat /\ v * l \in Nat
        BY <1>10
      <4>3. PICK p \in Nat, b \in Nat, o \in Nat : p = v * l /\ b = l * e /\ o = l * q /\ o = p + b
        BY <1>10, <4>1, <4>2
      <4> QED
        BY <2>1, <3>2, <4>3
    <3> QED
      BY <3>1, <3>3
  <2>4. /\ \A i \in S : a[i] = d[i] /\ a[i] <= q
        /\ \A i \in U : a[i] = q /\ q < d[i]
        /\ \A i \in D : i \in S \/ i \in U
    BY <1>6, <1>11, <2>1, <2>2, <2>3
  <2>5. \A i \in D : a[i] \in Nat /\ a[i] \in Int /\ a[i] <= d[i] /\ a[i] <= q
    BY <1>2, <2>4
  <2>6. {i \in D : a[i] < d[i]} = U
    <3>1. \A i \in S : ~(a[i] < d[i])
      BY <1>2, <2>4
    <3>2. \A i \in U : a[i] < d[i]
      BY <2>4
    <3> QED
      BY <2>4, <3>1, <3>2
  <2>7. SumFunctionOnSet(a, D) = m + l * q
    <3>1. S \cap U = {} /\ S \cup U = D
      BY <1>6
    <3>2. SumFunctionOnSet(a, S \cup U) = SumFunctionOnSet(a, S) + SumFunctionOnSet(a, U)
      BY <1>2, <2>5, <3>1, SumUnion
    <3>3. SumFunctionOnSet(a, U) = Cardinality(U) * q
      <4>1. \A x \in U : a[x] = q
        BY <2>4
      <4> QED
        BY <1>10, <4>1, SumOfConstant
    <3> QED
      BY <1>10, <1>13, <3>1, <3>2, <3>3
  <2>8. PICK p \in Nat : p = l * q /\ p <= r /\ r < p + l
    BY <1>10, <2>1
  <2>9. /\ SumFunctionOnSet(a, D) \in Int /\ SumFunctionOnSet(a, D) <= capacity
        /\ SumFunctionOnSet(a, D) + l > capacity
    <3>1. PICK t : t = SumFunctionOnSet(a, D)
      OBVIOUS
    <3>2. t = m + p
      BY <2>7, <2>8, <3>1
    <3>3. t \in Int /\ t <= capacity /\ t + l > capacity
      <4>1. r \in Nat /\ m \in Int /\ r = capacity - m /\ l \in Nat
        BY <1>10, <1>12
      <4>2. p \in Nat /\ p <= r /\ r < p + l
        BY <2>8
      <4> QED
        BY <3>2, <4>1, <4>2
    <3> QED
      BY <3>1, <3>3
  <2>10. MaxMin(capacity, d, D, a)
    <3>1. \A i, x \in D : a[i] < d[i] => a[x] <= a[i]
      <4>1. ASSUME NEW i \in D, a[i] < d[i], NEW x \in D PROVE a[x] <= a[i]
        <5>1. i \in U
          BY <2>6, <4>1
        <5> QED
          BY <2>4, <2>5, <5>1
      <4> QED
        BY <4>1
    <3>2. \A i \in D : a[i] \in Nat /\ a[i] <= d[i]
      BY <2>5
    <3> QED
      BY <1>10, <2>6, <2>9, <3>1, <3>2 DEF MaxMin
  <2> QED
    BY <1>5, <1>11, <2>10 DEF D, n
<1> QED
  BY <1>14, <1>15

LEMMA AirIs ==
  ASSUME NEW g, GraphOK(g), NEW pp, \A s \in Slices : \E S : pp[s] \in Seq(S),
         NEW air, air = SpreadAlong(g, pp)
  PROVE  /\ air.used \in SUBSET LinksOf(g)
         /\ \A e \in air.used : air.nbhd[e] \in [Slices -> Nat]
<1> DEFINE perPair(s) == IF pp[s] = <<>> THEN 0 ELSE Demand[s] \div Len(pp[s])
           crossing(e, s) == {i \in DOMAIN pp[s] : e \in ToSet(pp[s][i])}
           used == {e \in LinksOf(g) : \E s \in Slices : crossing(e, s) # {}}
           onLink == [e \in used |-> [s \in Slices |-> perPair(s) * Cardinality(crossing(e, s))]]
           near(e) == {f \in used : \E x \in ToSet(e), y \in ToSet(f) : Hears(g, x, y)}
<1>1. /\ air.used = used
      /\ air.nbhd = [e \in used |-> [s \in Slices |-> SumFunction([f \in near(e) |-> onLink[f][s]])]]
  BY DEF SpreadAlong
<1>2. used \in SUBSET LinksOf(g) /\ IsFiniteSet(LinksOf(g))
  BY DEF GraphOK
<1>3. \A e : near(e) \in SUBSET used
  OBVIOUS
<1>4. ASSUME NEW s \in Slices PROVE perPair(s) \in Nat /\ \A e : Cardinality(crossing(e, s)) \in Nat
  <2>1. PICK S : pp[s] \in Seq(S)
    OBVIOUS
  <2>2. PICK n \in Nat : n = Len(pp[s]) /\ DOMAIN pp[s] = 1..n
    BY <2>1, LenProperties
  <2>3. PICK m \in Nat : m = Demand[s]
    BY DemandAssumption
  <2>4. perPair(s) \in Nat
    <3>1. CASE n = 0
      <4>1. pp[s] = <<>>
        BY <2>1, <2>2, <3>1, EmptySeq
      <4> QED
        BY <4>1
    <3>2. CASE n # 0
      <4>1. m \div n \in Nat
        BY <3>2, Quotient
      <4>2. perPair(s) = IF pp[s] = <<>> THEN 0 ELSE m \div n
        BY <2>2, <2>3
      <4> HIDE DEF perPair
      <4> QED
        BY <4>1, <4>2
    <3> QED
      BY <3>1, <3>2
  <2>5. ASSUME NEW e PROVE Cardinality(crossing(e, s)) \in Nat
    <3>1. IsFiniteSet(1..n) /\ crossing(e, s) \in SUBSET (1..n)
      BY <2>2, FS_Interval
    <3> HIDE DEF crossing
    <3>2. IsFiniteSet(crossing(e, s))
      BY <3>1, FS_Subset
    <3> QED
      BY <3>2, FS_CardinalityType
  <2> QED
    BY <2>4, <2>5
<1> HIDE DEF perPair, crossing
<1>5. ASSUME NEW e \in used, NEW s \in Slices PROVE onLink[e][s] \in Nat
  <2>1. onLink[e][s] = perPair(s) * Cardinality(crossing(e, s))
    BY <1>5
  <2>2. PICK m \in Nat, n \in Nat : m = perPair(s) /\ n = Cardinality(crossing(e, s))
    BY <1>4
  <2>3. m * n \in Nat
    OBVIOUS
  <2> QED
    BY <2>1, <2>2, <2>3
<1> HIDE DEF onLink, used, near
<1>6. ASSUME NEW e \in used, NEW s \in Slices
      PROVE  SumFunction([f \in near(e) |-> onLink[f][s]]) \in Nat
  <2>1. IsFiniteSet(used)
    BY <1>2, FS_Subset
  <2>2. PICK N \in SUBSET used : N = near(e)
    BY <1>3
  <2>3. IsFiniteSet(N)
    BY <2>1, FS_Subset
  <2>4. PICK h : h = [f \in N |-> onLink[f][s]]
    OBVIOUS
  <2>5. DOMAIN h = N /\ \A f \in N : h[f] \in Nat
    BY <1>5, <2>4
  <2>6. SumFunctionOnSet(h, N) \in Nat
    BY <2>3, <2>5, SumOfNats
  <2> QED
    BY <2>2, <2>4, <2>5, <2>6 DEF SumFunction
<1> QED
  BY <1>1, <1>2, <1>6

LEMMA SlicesShare ==
  ASSUME NEW g, NEW air, NEW e, NEW n \in [Slices -> Nat], air.nbhd[e] = n,
         NEW capacity \in Nat, g.link[e].capacity = capacity
  PROVE  DOMAIN Alloc(g, air, e) = Slices /\ MaxMin(capacity, n, Slices, Alloc(g, air, e))
<1>1. PICK A : A = {s \in Slices : n[s] > 0}
  OBVIOUS
<1>2. A \in SUBSET Slices /\ IsFiniteSet(A) /\ IsFiniteSet(Slices) /\ A \in SUBSET Int
  BY <1>1, SlicesAre, FS_Subset
<1>3. PICK key : key = [s \in A |-> s]
  OBVIOUS
<1>4. key \in [A -> Int]
  BY <1>2, <1>3
<1>5. PICK k \in Nat : k = Cardinality(A)
  BY <1>2, FS_CardinalityType
<1>6. PICK o : o = StableOrder(key)
  OBVIOUS
<1>7. o \in [1..k -> A] /\ \A s \in A : \E i \in 1..k : o[i] = s
  BY <1>2, <1>4, <1>5, <1>6, OrderLists, OrderIsOnto
<1>8. \A i, j \in 1..k : o[i] = o[j] => i = j
  <2>1. PICK D : D = 1..k
    OBVIOUS
  <2>2. IsFiniteSet(D) /\ Cardinality(D) = Cardinality(A)
    BY <1>5, <2>1, FS_Interval
  <2>3. o \in [D -> A] /\ \A s \in A : \E i \in D : o[i] = s
    BY <1>7, <2>1
  <2>4. \A i, j \in D : o[i] = o[j] => i = j
    BY <2>2, <2>3, OntoIsOneToOne
  <2> QED
    BY <2>1, <2>4
<1>9. PICK d : d = [i \in 1..k |-> n[o[i]]]
  OBVIOUS
<1>10. d \in [1..k -> Nat]
  BY <1>2, <1>7, <1>9
<1>11. d \in Seq(Nat) /\ Len(d) = k
  BY <1>10
<1>12. PICK share : share = FairShare(capacity, d)
  OBVIOUS
<1>13. MaxMin(capacity, d, 1..k, share)
  BY <1>11, <1>12, SharesAre
<1>14. PICK a : a = Alloc(g, air, e)
  OBVIOUS
<1>15. o = Asking(air, e) /\ DOMAIN o = 1..k /\ ToSet(o) = A
  <2>1. Asking(air, e) = o
    BY <1>1, <1>3, <1>6 DEF Asking
  <2>2. ToSet(o) = A
    BY <1>7 DEF ToSet
  <2> QED
    BY <1>7, <2>1, <2>2
<1>16. a = [s \in Slices |-> IF s \in A THEN share[CHOOSE i \in 1..k : o[i] = s] ELSE 0]
  BY <1>9, <1>12, <1>14, <1>15 DEF Alloc
<1>17. ASSUME NEW i \in 1..k PROVE a[o[i]] = share[i] /\ o[i] \in A /\ n[o[i]] = d[i]
  <2>1. (CHOOSE j \in 1..k : o[j] = o[i]) = i
    BY <1>8
  <2> QED
    BY <1>2, <1>7, <1>9, <1>16, <2>1
<1>18. ASSUME NEW s \in Slices, s \notin A PROVE a[s] = 0 /\ n[s] = 0
  BY <1>1, <1>16, <1>18
<1>19. \A s \in Slices : s \notin A \/ \E i \in 1..k : s = o[i]
  BY <1>7
<1>20. \A i \in 1..k : share[i] \in Nat /\ share[i] <= d[i]
  BY <1>13 DEF MaxMin
<1>21. \A s \in Slices : a[s] \in Nat /\ a[s] <= n[s]
  BY <1>17, <1>18, <1>19, <1>20
<1>22. SumFunctionOnSet(a, Slices) = SumFunctionOnSet(share, 1..k)
  <2>1. A = {o[i] : i \in 1..k}
    BY <1>7
  <2>2. SumFunctionOnSet(a, A) = SumFunctionOnSet(share, 1..k)
    <3>1. IsFiniteSet(1..k) /\ \A i \in 1..k : share[i] \in Int
      BY <1>20, FS_Interval
    <3>2. \A i \in 1..k : a[o[i]] = share[i]
      BY <1>17
    <3>3. PICK D : D = 1..k
      OBVIOUS
    <3>4. /\ IsFiniteSet(D) /\ \A x \in D : share[x] \in Int
          /\ \A x, y \in D : o[x] = o[y] => x = y
          /\ \A x \in D : a[o[x]] = share[x]
      BY <1>8, <3>1, <3>2, <3>3
    <3>5. SumFunctionOnSet(a, {o[x] : x \in D}) = SumFunctionOnSet(share, D)
      BY <3>4, SumReordered
    <3> QED
      BY <2>1, <3>3, <3>5
  <2>3. PICK B \in SUBSET Slices : B = Slices \ A
    OBVIOUS
  <2>4. SumFunctionOnSet(a, B) = 0
    <3>1. IsFiniteSet(B) /\ \A s \in B : a[s] = 0
      BY <1>2, <1>18, <2>3, FS_Subset
    <3>2. SumFunctionOnSet(a, B) = Cardinality(B) * 0
      BY <3>1, SumOfConstant
    <3>3. Cardinality(B) \in Nat
      BY <3>1, FS_CardinalityType
    <3> QED
      BY <3>2, <3>3
  <2>5. SumFunctionOnSet(a, A \cup B) = SumFunctionOnSet(a, A) + SumFunctionOnSet(a, B)
    <3>1. \A s \in Slices : a[s] \in Int
      BY <1>21
    <3>2. A \cap B = {}
      BY <2>3
    <3>3. PICK C : C = Slices
      OBVIOUS
    <3>4. IsFiniteSet(C) /\ (\A x \in C : a[x] \in Int) /\ A \in SUBSET C /\ B \in SUBSET C
      BY <1>2, <3>1, <3>3
    <3> QED
      BY <3>2, <3>4, SumUnion
  <2>6. A \cup B = Slices
    BY <1>2, <2>3
  <2>7. SumFunctionOnSet(share, 1..k) \in Int
    BY <1>13 DEF MaxMin
  <2>8. PICK t \in Int : t = SumFunctionOnSet(share, 1..k)
    BY <2>7
  <2>9. SumFunctionOnSet(a, Slices) = t + 0
    BY <2>2, <2>4, <2>5, <2>6, <2>8
  <2> QED
    BY <2>8, <2>9
<1>23. PICK I : I = {i \in 1..k : share[i] < d[i]}
  OBVIOUS
<1>24. PICK short : short = {s \in Slices : a[s] < n[s]}
  OBVIOUS
<1>25. short = {o[i] : i \in I}
  <2>1. ASSUME NEW i \in I PROVE o[i] \in short
    BY <1>2, <1>17, <1>23, <1>24
  <2>2. ASSUME NEW s \in short PROVE \E i \in I : s = o[i]
    <3>1. s \in Slices /\ a[s] < n[s]
      BY <1>24
    <3>2. s \in A
      BY <1>18, <3>1
    <3>3. PICK i \in 1..k : s = o[i]
      BY <1>7, <3>2
    <3>4. i \in I
      BY <1>17, <1>23, <3>1, <3>3
    <3> QED
      BY <3>3, <3>4
  <2> QED
    BY <2>1, <2>2
<1>26. IsFiniteSet(short) /\ Cardinality(short) = Cardinality(I)
  <2>1. IsFiniteSet(I)
    BY <1>13, <1>23 DEF MaxMin
  <2>2. PICK f : f = [i \in I |-> o[i]]
    OBVIOUS
  <2>3. DOMAIN f = I /\ short = {f[i] : i \in I}
    BY <1>25, <2>2
  <2>4. \A i, j \in I : f[i] = f[j] => i = j
    BY <1>8, <1>23, <2>2
  <2>5. IsFiniteSet({f[i] : i \in I}) /\ Cardinality({f[i] : i \in I}) = Cardinality(I)
    BY <2>1, <2>3, <2>4, Images
  <2> QED
    BY <2>3, <2>5
<1>27. ASSUME NEW s \in Slices, NEW x \in Slices, a[s] < n[s] PROVE a[x] <= a[s]
  <2>1. s \in short
    BY <1>24, <1>27
  <2>2. PICK i \in I : s = o[i]
    BY <1>25, <2>1
  <2>3. i \in 1..k /\ share[i] < d[i]
    BY <1>23
  <2>4. \A j \in 1..k : share[j] <= share[i]
    BY <1>13, <2>3 DEF MaxMin
  <2>5. CASE x \notin A
    BY <1>18, <1>21, <2>5
  <2>6. CASE x \in A
    <3>1. PICK j \in 1..k : x = o[j]
      BY <1>7, <2>6
    <3> QED
      BY <1>17, <2>2, <2>3, <2>4, <3>1
  <2> QED
    BY <2>5, <2>6
<1>28. I # {} => SumFunctionOnSet(share, 1..k) + Cardinality(I) > capacity
  BY <1>13, <1>23 DEF MaxMin
<1>29. short # {} => SumFunctionOnSet(a, Slices) + Cardinality(short) > capacity
  BY <1>22, <1>25, <1>26, <1>28
<1>30. SumFunctionOnSet(a, Slices) \in Int /\ SumFunctionOnSet(a, Slices) <= capacity
  BY <1>13, <1>22 DEF MaxMin
<1>31. MaxMin(capacity, n, Slices, a)
  BY <1>21, <1>24, <1>26, <1>27, <1>29, <1>30 DEF MaxMin
<1>32. DOMAIN a = Slices
  BY <1>16
<1> QED
  BY <1>14, <1>31, <1>32

LEMMA PairPathsAre ==
  ASSUME NEW trees, NEW ms, NEW s \in Slices, NEW N, ms[s] \in Seq(N)
  PROVE  \E S : PairPaths(trees, ms)[s] \in Seq(S)
<1> DEFINE path(t, p) == TreePath(t, p[1], p[2])
           paths(x) == [i \in DOMAIN Pairs(ms[x]) |-> path(trees[x], Pairs(ms[x])[i])]
<1>1. PairPaths(trees, ms)[s] = paths(s)
  BY SlicesAre, BySliceIs DEF PairPaths
<1>2. PICK n \in Nat : n = Len(ms[s])
  BY LenProperties
<1>3. PICK k \in Nat : k = n \div 2
  OBVIOUS
<1>4. DOMAIN Pairs(ms[s]) = 1..k
  BY <1>2, <1>3 DEF Pairs
<1>5. PICK f : f = paths(s)
  OBVIOUS
<1>6. DOMAIN f = 1..k /\ f = [i \in 1..k |-> f[i]]
  BY <1>4, <1>5
<1>7. f \in [1..k -> {f[i] : i \in 1..k}]
  BY <1>6
<1>8. f \in Seq({f[i] : i \in 1..k})
  BY <1>7
<1> QED
  BY <1>1, <1>5, <1>8

(* States SharesAreMaxMin, the property of the run: FairShare of           *)
(* nsga/fitness.cc, whatever the slices ask for around a link and however  *)
(* often its loop goes round, gives nobody more than it asks, leaves       *)
(* nobody short while another has more, and then uses the capacity up.     *)
THEOREM SharesAreMaxMinHolds == Spec => []SharesAreMaxMin
<1>1. ASSUME RunInv PROVE SharesAreMaxMin
  <2>1. SUFFICES ASSUME phase = "scored", Measured(table) PROVE SharesAreMaxMin
    BY DEF SharesAreMaxMin, Measured
  <2>2. PICK air : air = SpreadDemand(graph, Trees(graph, ind.seg), members)
    OBVIOUS
  <2>3. GraphOK(graph) /\ \A k \in LinksOf(graph) : graph.link[k].capacity \in Nat
    <3>1. GraphOK(graph)
      <4>1. ReadFrom(graph, table)
        BY <1>1, GraphIs
      <4> QED
        BY <4>1 DEF ReadFrom
    <3>2. \A k \in LinksOf(graph) : graph.link[k].capacity > 0
      BY <1>1, <2>1, GraphIs
    <3>3. \A k \in LinksOf(graph) : graph.link[k].capacity \in Int
      BY <3>1 DEF GraphOK
    <3> QED
      BY <3>1, <3>2, <3>3
  <2>4. PICK pp : pp = PairPaths(Trees(graph, ind.seg), members)
    OBVIOUS
  <2>5. \A s \in Slices : \E S : pp[s] \in Seq(S)
    <3>1. ASSUME NEW s \in Slices PROVE \E S : pp[s] \in Seq(S)
      <4>1. ind.seg \in Orders
        BY <1>1, <2>1 DEF RunInv, Scored
      <4>2. members[s] \in Seq(MeshNodes)
        BY <1>1, <4>1, OrderIs
      <4> QED
        BY <2>4, <4>2, PairPathsAre
    <3> QED
      BY <3>1
  <2>6. air = SpreadAlong(graph, pp)
    BY <2>2, <2>4 DEF SpreadDemand
  <2>7. air.used \in SUBSET LinksOf(graph) /\ \A e \in air.used : air.nbhd[e] \in [Slices -> Nat]
    BY <2>3, <2>5, <2>6, AirIs
  <2>8. ASSUME NEW e \in air.used, NEW a, a = Alloc(graph, air, e), NEW short,
               short = {s \in Slices : a[s] < air.nbhd[e][s]}
        PROVE  /\ \A s \in Slices : a[s] <= air.nbhd[e][s]
               /\ SumFunction(a) <= graph.link[e].capacity
               /\ \A s \in short, x \in Slices : a[x] <= a[s]
               /\ short # {} => SumFunction(a) + Cardinality(short) > graph.link[e].capacity
    <3>1. PICK n \in [Slices -> Nat] : n = air.nbhd[e]
      BY <2>7
    <3>2. PICK c \in Nat : c = graph.link[e].capacity
      BY <2>3, <2>7
    <3>3. DOMAIN a = Slices /\ MaxMin(c, n, Slices, a)
      BY <2>8, <3>1, <3>2, SlicesShare
    <3>4. SumFunction(a) = SumFunctionOnSet(a, Slices)
      BY <3>3 DEF SumFunction
    <3>5. short = {s \in Slices : a[s] < n[s]}
      BY <2>8, <3>1
    <3> QED
      BY <3>1, <3>2, <3>3, <3>4, <3>5 DEF MaxMin
  <2> QED
    BY <2>2, <2>8 DEF SharesAreMaxMin
<1> QED
  BY <1>1, RunHolds, PTL

-----------------------------------------------------------------------------
(* Where a packet is in a tree.                                            *)

(* A node and what it hangs from, up to the root. *)
Ancestry(t, a) == ToSet(Up(t, a))

AncestryOf(g, t, a, A) ==
  /\ A \in SUBSET t.inSet /\ IsFiniteSet(A) /\ a \in A /\ t.root \in A
  /\ \A x \in A \ {t.root} : t.parent[x] \in A
  /\ \A x \in A \ {a} : \E c \in A \ {t.root} : t.parent[c] = x

LEMMA AncestryIs ==
  ASSUME NEW g, GraphOK(g), NEW t \in TreesOf(g), Rooted(g, t), NEW a \in t.inSet
  PROVE  /\ AncestryOf(g, t, a, Ancestry(t, a))
         /\ \A C : a \in C /\ (\A x \in C \cap (t.inSet \ {t.root}) : t.parent[x] \in C)
                     => Ancestry(t, a) \subseteq C
<1> DEFINE V == NodesOf(g)
<1>1. PICK w : w = Up(t, a)
  OBVIOUS
<1>2. Ascent(g, t, a, w)
  BY <1>1, UpIs
<1>3. Climb(g, t, a, w)
  BY <1>2 DEF Ascent
<1>4. PICK n \in Nat : n = Len(w) /\ DOMAIN w = 1..n /\ n >= 1
  BY <1>3, LenProperties DEF Climb
<1>5. /\ w[1] = a /\ w[n] = t.root /\ \A i \in 1..(n - 1) : t.parent[w[i]] = w[i + 1]
      /\ \A i \in 1..n : w[i] \in t.inSet
  BY <1>2, <1>3, <1>4 DEF Ascent, Climb
<1>6. PICK A : A = {w[i] : i \in 1..n}
  OBVIOUS
<1>7. Ancestry(t, a) = A
  BY <1>1, <1>4, <1>6 DEF Ancestry, ToSet
<1>8. A \in SUBSET t.inSet /\ a \in A /\ t.root \in A
  BY <1>4, <1>5, <1>6
<1>9. IsFiniteSet(A)
  <2>1. IsFiniteSet(1..n)
    BY FS_Interval
  <2> QED
    BY <1>4, <1>6, <2>1, Images
<1>10. ASSUME NEW i \in 1..n, w[i] # t.root PROVE i \in 1..(n - 1) /\ i + 1 \in 1..n
  <2>1. i # n
    BY <1>5, <1>10
  <2> QED
    BY <1>4, <2>1
<1>11. ASSUME NEW x \in A \ {t.root} PROVE t.parent[x] \in A
  <2>1. PICK i \in 1..n : x = w[i]
    BY <1>6
  <2>2. i \in 1..(n - 1) /\ i + 1 \in 1..n
    BY <1>10, <1>11, <2>1
  <2> QED
    BY <1>5, <1>6, <2>1, <2>2
<1>12. ASSUME NEW x \in A \ {a} PROVE \E c \in A \ {t.root} : t.parent[c] = x
  <2>1. PICK i \in 1..n : x = w[i]
    BY <1>6
  <2>2. i # 1
    BY <1>5, <1>12, <2>1
  <2>3. PICK j \in 1..(n - 1) : i = j + 1
    <3>1. i - 1 \in 1..(n - 1) /\ i = (i - 1) + 1
      BY <1>4, <2>2
    <3> QED
      BY <3>1
  <2>4. t.parent[w[j]] = x /\ j \in 1..n
    BY <1>4, <1>5, <2>1, <2>3
  <2>5. w[j] # t.root
    <3>1. x # None
      <4>1. x \in V /\ None \notin V
        BY <1>8, NodesAre DEF TreesOf
      <4> QED
        BY <4>1
    <3> QED
      BY <2>4, <3>1 DEF Rooted
  <2> QED
    BY <1>6, <2>4, <2>5
<1>13. ASSUME NEW C, a \in C, \A x \in C \cap (t.inSet \ {t.root}) : t.parent[x] \in C PROVE A \subseteq C
  <2> DEFINE G == {k \in 0..(n - 1) : w[k + 1] \in C}
  <2>1. n - 1 \in Nat /\ 0 \in 0..(n - 1) /\ 0 + 1 = 1
    BY <1>4
  <2>2. 0 \in G
    BY <1>5, <1>13, <2>1
  <2>3. ASSUME NEW k \in 0..(n - 1), k # n - 1, k \in G PROVE k + 1 \in G
    <3>1. k + 1 \in 0..(n - 1) /\ k + 1 \in 1..(n - 1) /\ k + 1 \in 1..n
      BY <1>4, <2>3
    <3>2. t.parent[w[k + 1]] = w[k + 1 + 1] /\ w[k + 1] \in t.inSet
      BY <1>5, <3>1
    <3>3. w[k + 1] # t.root
      <4>1. w[k + 1 + 1] # None
        <5>1. k + 1 + 1 \in 1..n
          BY <1>4, <3>1
        <5>2. w[k + 1 + 1] \in V /\ None \notin V
          BY <1>5, <5>1, NodesAre DEF TreesOf
        <5> QED
          BY <5>2
      <4> QED
        BY <3>2, <4>1 DEF Rooted
    <3>4. w[k + 1] \in C
      BY <2>3
    <3>5. w[k + 1 + 1] \in C
      BY <1>13, <3>2, <3>3, <3>4
    <3> QED
      BY <3>1, <3>5
  <2>4. 0..(n - 1) \subseteq G
    <3> HIDE DEF G
    <3> QED
      BY <2>1, <2>2, <2>3, UpTo
  <2>5. ASSUME NEW i \in 1..n PROVE w[i] \in C
    <3>1. i - 1 \in 0..(n - 1) /\ i - 1 + 1 = i
      BY <1>4
    <3>2. w[i - 1 + 1] \in C
      BY <2>4, <3>1
    <3> QED
      BY <3>1, <3>2
  <2> QED
    BY <1>6, <2>5
<1> QED
  BY <1>7, <1>8, <1>9, <1>11, <1>12, <1>13 DEF AncestryOf

LEMMA ParentsAncestry ==
  ASSUME NEW g, GraphOK(g), NEW t \in TreesOf(g), Rooted(g, t), NEW c \in t.inSet, c # t.root,
         NEW p, p = t.parent[c]
  PROVE  /\ p \in t.inSet /\ c \in Ancestry(t, c) /\ c \notin Ancestry(t, p)
         /\ Ancestry(t, c) = Ancestry(t, p) \cup {c}
<1>1. p \in t.inSet
  BY DEF Rooted
<1>2. PICK A : A = Ancestry(t, c)
  OBVIOUS
<1>3. PICK B : B = Ancestry(t, p)
  OBVIOUS
<1>4. /\ AncestryOf(g, t, c, A)
      /\ \A C : c \in C /\ (\A x \in C \cap (t.inSet \ {t.root}) : t.parent[x] \in C) => A \subseteq C
  BY <1>2, AncestryIs
<1>5. /\ AncestryOf(g, t, p, B)
      /\ \A C : p \in C /\ (\A x \in C \cap (t.inSet \ {t.root}) : t.parent[x] \in C) => B \subseteq C
  BY <1>1, <1>3, AncestryIs
<1>6. A \subseteq B \cup {c}
  <2>1. \A x \in (B \cup {c}) \cap (t.inSet \ {t.root}) : t.parent[x] \in B \cup {c}
    BY <1>5 DEF AncestryOf
  <2> QED
    BY <1>4, <2>1
<1>7. B \subseteq A /\ c \in A
  <2>1. c \in A /\ p \in A /\ \A x \in A \cap (t.inSet \ {t.root}) : t.parent[x] \in A
    BY <1>4 DEF AncestryOf
  <2> QED
    BY <1>5, <2>1
<1>8. c \notin B
  <2>1. PICK rank \in [NodesOf(g) -> Nat] : \A n \in t.inSet \ {t.root} : rank[t.parent[n]] < rank[n]
    BY DEF Rooted
  <2>2. PICK C : C = {x \in t.inSet : rank[x] <= rank[p]}
    OBVIOUS
  <2>3. t.inSet \in SUBSET NodesOf(g)
    BY DEF TreesOf
  <2>4. p \in C
    BY <1>1, <2>2, <2>3
  <2>5. ASSUME NEW x \in C \cap (t.inSet \ {t.root}) PROVE t.parent[x] \in C
    <3>1. PICK y \in t.inSet : y = t.parent[x]
      BY DEF Rooted
    <3>2. rank[y] < rank[x] /\ rank[x] <= rank[p]
      BY <2>1, <2>2, <3>1
    <3>3. rank[y] \in Nat /\ rank[x] \in Nat /\ rank[p] \in Nat
      BY <1>1, <2>1, <2>3, <3>1
    <3>4. rank[y] <= rank[p]
      BY <3>2, <3>3
    <3> QED
      BY <2>2, <3>1, <3>4
  <2>6. B \subseteq C
    BY <1>5, <2>4, <2>5
  <2>7. ASSUME c \in C PROVE FALSE
    <3>1. rank[p] < rank[c] /\ rank[c] <= rank[p]
      BY <2>1, <2>2, <2>7
    <3>2. rank[c] \in Nat /\ rank[p] \in Nat
      BY <1>1, <2>1, <2>3
    <3> QED
      BY <3>1, <3>2
  <2> QED
    BY <2>6, <2>7
<1> QED
  BY <1>1, <1>2, <1>3, <1>6, <1>7, <1>8

(* The nodes whose links lie between two nodes of a tree. *)
Between(t, a, d) ==
  (Ancestry(t, a) \ Ancestry(t, d)) \cup (Ancestry(t, d) \ Ancestry(t, a))
Far(t, a, d) == Cardinality(Between(t, a, d))

LEMMA BetweenIs ==
  ASSUME NEW g, GraphOK(g), NEW t \in TreesOf(g), Rooted(g, t), NEW a \in t.inSet, NEW d \in t.inSet
  PROVE  /\ Between(t, a, d) \in SUBSET (t.inSet \ {t.root}) /\ IsFiniteSet(Between(t, a, d))
         /\ Far(t, a, d) \in 0..g.num
         /\ Far(t, d, d) = 0 /\ Between(t, d, d) = {}
<1>1. AncestryOf(g, t, a, Ancestry(t, a)) /\ AncestryOf(g, t, d, Ancestry(t, d))
  BY AncestryIs
<1>2. Between(t, a, d) \in SUBSET (t.inSet \ {t.root}) /\ Between(t, d, d) = {}
  BY <1>1 DEF AncestryOf, Between
<1>3. PICK B : B = Between(t, a, d)
  OBVIOUS
<1>4. B \in SUBSET NodesOf(g)
  BY <1>2, <1>3 DEF TreesOf
<1>5. IsFiniteSet(NodesOf(g)) /\ Cardinality(NodesOf(g)) = g.num
  BY NodesAre
<1>6. IsFiniteSet(B) /\ Cardinality(B) <= g.num
  BY <1>4, <1>5, FS_Subset
<1>7. Cardinality(B) \in Nat /\ g.num \in Nat
  BY <1>6, FS_CardinalityType DEF GraphOK
<1>8. Cardinality({}) = 0
  BY FS_EmptySet
<1> QED
  BY <1>2, <1>3, <1>6, <1>7, <1>8 DEF Far

(* From v one link nearer to d, over the link that node c hangs by.        *)
Nearer(t, d, v, u, c) ==
  /\ v \in t.inSet /\ u \in t.inSet /\ c \in t.inSet \ {t.root}
  /\ Key(v, u) = Key(c, t.parent[c])
  /\ c \in Between(t, v, d) /\ c \notin Between(t, u, d)
  /\ Between(t, v, d) = Between(t, u, d) \cup {c}
  /\ Far(t, v, d) = Far(t, u, d) + 1

LEMMA LinkIsNearer ==
  ASSUME NEW g, GraphOK(g), NEW t \in TreesOf(g), Rooted(g, t), NEW c \in t.inSet, c # t.root,
         NEW d \in t.inSet, NEW p, p = t.parent[c]
  PROVE  IF c \in Ancestry(t, d) THEN Nearer(t, d, p, c, c) ELSE Nearer(t, d, c, p, c)
<1>1. /\ p \in t.inSet /\ c \in Ancestry(t, c) /\ c \notin Ancestry(t, p)
      /\ Ancestry(t, c) = Ancestry(t, p) \cup {c}
  BY ParentsAncestry
<1>2. Key(p, c) = Key(c, p)
  <2>1. p \in NodesOf(g) /\ c \in NodesOf(g)
    BY <1>1 DEF TreesOf
  <2> QED
    BY <2>1, KeyIs
<1>3. IsFiniteSet(Between(t, p, d)) /\ IsFiniteSet(Between(t, c, d))
  BY <1>1, BetweenIs
<1>4. CASE c \in Ancestry(t, d)
  <2>1. c \in Between(t, p, d) /\ c \notin Between(t, c, d) /\ Between(t, p, d) = Between(t, c, d) \cup {c}
    BY <1>1, <1>4 DEF Between
  <2>2. Far(t, p, d) = Far(t, c, d) + 1
    BY <1>3, <2>1, FS_AddElement DEF Far
  <2> QED
    BY <1>1, <1>2, <1>4, <2>1, <2>2 DEF Nearer
<1>5. CASE c \notin Ancestry(t, d)
  <2>1. c \in Between(t, c, d) /\ c \notin Between(t, p, d) /\ Between(t, c, d) = Between(t, p, d) \cup {c}
    BY <1>1, <1>5 DEF Between
  <2>2. Far(t, c, d) = Far(t, p, d) + 1
    BY <1>3, <2>1, FS_AddElement DEF Far
  <2> QED
    BY <1>1, <1>5, <2>1, <2>2 DEF Nearer
<1> QED
  BY <1>4, <1>5

(* A link of a tree leads nearer to d in one direction. *)
LEMMA LinksLead ==
  ASSUME NEW g, GraphOK(g), NEW t \in TreesOf(g), Rooted(g, t), NEW d \in t.inSet,
         NEW u \in NodesOf(g), NEW v \in NodesOf(g), Key(u, v) \in ToSet(t.links)
  PROVE  \E c : Nearer(t, d, u, v, c) \/ Nearer(t, d, v, u, c)
<1>1. PICK c \in t.inSet \ {t.root} : Key(u, v) = Key(c, t.parent[c])
  BY DEF Rooted
<1>2. PICK p \in t.inSet : p = t.parent[c]
  BY DEF Rooted
<1>3. (u = c /\ v = p) \/ (u = p /\ v = c)
  <2>1. c \in NodesOf(g) /\ p \in NodesOf(g)
    BY DEF TreesOf
  <2>2. Key(c, p) = Key(u, v)
    BY <1>1, <1>2
  <2>3. (u = c /\ v = p) \/ (u = p /\ v = c)
    BY <2>1, <2>2, KeyIs
  <2> QED
    BY <2>3
<1>4. Nearer(t, d, p, c, c) \/ Nearer(t, d, c, p, c)
  BY <1>2, LinkIsNearer
<1> QED
  BY <1>3, <1>4

(* From everywhere but d itself some link leads nearer to d. *)
LEMMA SomewhereNearer ==
  ASSUME NEW g, GraphOK(g), NEW t \in TreesOf(g), Rooted(g, t), NEW d \in t.inSet,
         NEW v \in t.inSet, v # d
  PROVE  \E u, c : u \in t.inSet /\ Nearer(t, d, v, u, c) /\ Key(v, u) \in ToSet(t.links)
<1>1. AncestryOf(g, t, d, Ancestry(t, d))
  BY AncestryIs
<1>2. ASSUME NEW c \in t.inSet \ {t.root}, NEW u, NEW w, Nearer(t, d, u, w, c)
      PROVE  Key(u, w) \in ToSet(t.links)
  BY <1>2 DEF Nearer, Rooted
<1>3. CASE v \in Ancestry(t, d)
  <2>1. PICK c \in Ancestry(t, d) \ {t.root} : t.parent[c] = v
    BY <1>1, <1>3 DEF AncestryOf
  <2>2. c \in t.inSet
    BY <1>1 DEF AncestryOf
  <2>3. Nearer(t, d, v, c, c)
    BY <2>1, <2>2, LinkIsNearer
  <2> QED
    BY <1>2, <2>1, <2>2, <2>3
<1>4. CASE v \notin Ancestry(t, d)
  <2>1. v # t.root
    BY <1>1, <1>4 DEF AncestryOf
  <2>2. PICK p \in t.inSet : p = t.parent[v]
    BY <2>1 DEF Rooted
  <2>3. Nearer(t, d, v, p, v)
    BY <1>4, <2>1, <2>2, LinkIsNearer
  <2> QED
    BY <1>2, <2>1, <2>3
<1> QED
  BY <1>3, <1>4

(* One more layer of NextHops. *)
Found(links, num, seen) ==
  {v \in 0..(num - 1) : v \notin DOMAIN seen /\ \E u \in DOMAIN seen : Key(u, v) \in links}
Wider(links, num, seen) ==
  [v \in DOMAIN seen \cup Found(links, num, seen) |->
     IF v \in Found(links, num, seen) THEN CHOOSE u \in DOMAIN seen : Key(u, v) \in links ELSE seen[v]]

HopsTo(V) == UNION {[D -> V] : D \in SUBSET V}

Widens(links, num, V, seen, w) ==
  /\ seen \in [DOMAIN seen -> V] /\ DOMAIN seen \in SUBSET V
  /\ w \in HopsTo(V)
  /\ DOMAIN w = DOMAIN seen \cup Found(links, num, seen)
  /\ \A v \in DOMAIN seen : w[v] = seen[v]
  /\ \A v \in Found(links, num, seen) : w[v] \in DOMAIN seen /\ Key(w[v], v) \in links

LEMMA WiderIs ==
  ASSUME NEW links, NEW num \in Nat, NEW V, V = 0..(num - 1), NEW seen \in HopsTo(V)
  PROVE  Widens(links, num, V, seen, Wider(links, num, seen))
<1>1. seen \in [DOMAIN seen -> V] /\ DOMAIN seen \in SUBSET V
  BY DEF HopsTo
<1>2. PICK F : F = Found(links, num, seen)
  OBVIOUS
<1>3. F \in SUBSET V /\ \A v \in F : v \notin DOMAIN seen /\ \E u \in DOMAIN seen : Key(u, v) \in links
  BY <1>2 DEF Found
<1>4. PICK w : w = Wider(links, num, seen)
  OBVIOUS
<1>5. w = [v \in DOMAIN seen \cup F |->
             IF v \in F THEN CHOOSE u \in DOMAIN seen : Key(u, v) \in links ELSE seen[v]]
  BY <1>2, <1>4 DEF Wider
<1>6. DOMAIN w = DOMAIN seen \cup F
  BY <1>5
<1>7. \A v \in DOMAIN seen : w[v] = seen[v]
  BY <1>3, <1>5
<1>8. ASSUME NEW v \in F PROVE w[v] \in DOMAIN seen /\ Key(w[v], v) \in links
  <2>1. \E u \in DOMAIN seen : Key(u, v) \in links
    BY <1>3
  <2>2. w[v] = CHOOSE u \in DOMAIN seen : Key(u, v) \in links
    BY <1>5
  <2> QED
    BY <2>1, <2>2
<1>9. w \in [DOMAIN seen \cup F -> V]
  <2>1. \A v \in DOMAIN seen \cup F : w[v] \in V
    BY <1>1, <1>7, <1>8
  <2> QED
    BY <1>5, <2>1
<1>10. DOMAIN seen \cup F \in SUBSET V
  BY <1>1, <1>3
<1>11. w \in HopsTo(V)
  BY <1>9, <1>10 DEF HopsTo
<1> QED
  BY <1>1, <1>2, <1>4, <1>6, <1>7, <1>8, <1>11 DEF Widens

Layers(links, num, dest, layer) ==
  /\ layer \in [0..num -> HopsTo(0..(num - 1))]
  /\ layer[0] = [v \in {dest} |-> dest] /\ layer[num] = NextHops(links, num, dest)
  /\ \A n \in 0..num : n # num => layer[n + 1] = Wider(links, num, layer[n])

LEMMA Layering ==
  ASSUME NEW links, NEW num \in Nat, NEW dest \in 0..(num - 1)
  PROVE  \E layer : Layers(links, num, dest, layer)
<1> DEFINE V == 0..(num - 1)
           S == HopsTo(V)
           b == [v \in {dest} |-> dest]
           F == [i \in 1..num |-> [s \in S |-> Wider(links, num, s)]]
           Is(layer) == layer = [n \in 0..num |-> IF n = 0 THEN b ELSE Wider(links, num, layer[n - 1])]
           layer == CHOOSE layer : Is(layer)
<1>1. NextHops(links, num, dest) = layer[num]
  BY DEF NextHops, Wider, Found
<1>2. b \in S
  <2>1. b \in [{dest} -> V] /\ {dest} \in SUBSET V
    OBVIOUS
  <2> HIDE DEF b, V
  <2> QED
    BY <2>1 DEF HopsTo
<1>3. \A s \in S : Wider(links, num, s) \in S
  <2>1. ASSUME NEW s \in S PROVE Wider(links, num, s) \in S
    <3>1. PICK W : W = V
      OBVIOUS
    <3>2. W = 0..(num - 1) /\ s \in HopsTo(W)
      BY <3>1
    <3> HIDE DEF V
    <3>3. Widens(links, num, W, s, Wider(links, num, s))
      BY <3>2, WiderIs
    <3> QED
      BY <3>1, <3>3 DEF Widens
  <2> QED
    BY <2>1
<1>4. F \in [1..num -> [S -> S]] /\ \A i \in 1..num, s \in S : F[i][s] = Wider(links, num, s)
  <2> HIDE DEF S
  <2> QED
    BY <1>3
<1> HIDE DEF S, F, b
<1>5. PICK h : Iteration(S, b, num, F, h)
  BY <1>2, <1>4, Iterates
<1>6. h \in [0..num -> S] /\ \A i \in 0..num : h[i] = IF i = 0 THEN b ELSE F[i][h[i - 1]]
  BY <1>5 DEF Iteration
<1>7. \A i \in 0..num : h[i] = IF i = 0 THEN b ELSE Wider(links, num, h[i - 1])
  <2>1. ASSUME NEW i \in 0..num, i # 0 PROVE F[i][h[i - 1]] = Wider(links, num, h[i - 1])
    <3>1. i \in 1..num /\ i - 1 \in 0..num
      BY <2>1
    <3> QED
      BY <1>4, <1>6, <3>1
  <2> QED
    BY <1>6, <2>1
<1>8. Is(h)
  BY <1>6, <1>7
<1>9. Is(layer)
  BY <1>8
<1>10. DOMAIN layer = 0..num /\ \A n \in 0..num : layer[n] = IF n = 0 THEN b ELSE Wider(links, num, layer[n - 1])
  <2> HIDE DEF layer
  <2> QED
    BY <1>9
<1>11. layer = h
  <2> DEFINE G == {n \in 0..num : layer[n] = h[n]}
  <2> HIDE DEF layer
  <2>1. 0 \in G
    BY <1>7, <1>10
  <2>2. ASSUME NEW n \in 0..num, n # num, n \in G PROVE n + 1 \in G
    <3>1. n + 1 \in 0..num /\ n + 1 # 0 /\ n + 1 - 1 = n
      BY <2>2
    <3> QED
      BY <1>7, <1>10, <2>2, <3>1
  <2>3. 0..num \subseteq G
    <3> HIDE DEF G
    <3> QED
      BY <2>1, <2>2, UpTo
  <2>4. \A n \in 0..num : layer[n] = h[n]
    BY <2>3
  <2> QED
    BY <1>6, <1>8, <1>9, <2>4
<1>12. PICK l : l = layer
  OBVIOUS
<1>13. l \in [0..num -> S] /\ l[0] = b /\ l[num] = NextHops(links, num, dest)
  <2>1. 0 \in 0..num
    OBVIOUS
  <2> HIDE DEF layer
  <2> QED
    BY <1>1, <1>6, <1>7, <1>11, <1>12, <2>1
<1>14. ASSUME NEW n \in 0..num, n # num PROVE l[n + 1] = Wider(links, num, l[n])
  <2>1. n + 1 \in 0..num /\ n + 1 # 0 /\ n + 1 - 1 = n
    BY <1>14
  <2> HIDE DEF layer
  <2> QED
    BY <1>10, <1>12, <2>1
<1>15. Layers(links, num, dest, l)
  BY <1>13, <1>14 DEF Layers, S, b
<1> QED
  BY <1>15

(* Within n links of d, everybody sends nearer to d. *)
Leads(t, d, n, seen) ==
  /\ DOMAIN seen = {v \in t.inSet : Far(t, v, d) <= n}
  /\ \A v \in DOMAIN seen \ {d} : \E c : Nearer(t, d, v, seen[v], c)

LEMMA WiderLeads ==
  ASSUME NEW g, GraphOK(g), NEW t \in TreesOf(g), Rooted(g, t), NEW d \in t.inSet,
         NEW n \in Nat, NEW seen \in HopsTo(NodesOf(g)), Leads(t, d, n, seen)
  PROVE  Leads(t, d, n + 1, Wider(ToSet(t.links), g.num, seen))
<1> DEFINE V == NodesOf(g)
           L == ToSet(t.links)
<1>1. PICK w : w = Wider(L, g.num, seen)
  OBVIOUS
<1>2. PICK F : F = Found(L, g.num, seen)
  OBVIOUS
<1>3. /\ DOMAIN seen \in SUBSET V /\ DOMAIN w = DOMAIN seen \cup F
      /\ \A v \in DOMAIN seen : w[v] = seen[v]
      /\ \A v \in F : w[v] \in DOMAIN seen /\ Key(w[v], v) \in L
  <2>1. g.num \in Nat /\ V = 0..(g.num - 1)
    BY DEF GraphOK, NodesOf
  <2> HIDE DEF V, L
  <2>2. seen \in HopsTo(V)
    BY DEF V
  <2>3. Widens(L, g.num, V, seen, Wider(L, g.num, seen))
    BY <2>1, <2>2, WiderIs
  <2> QED
    BY <1>1, <1>2, <2>3 DEF Widens
<1>4. F = {v \in V : v \notin DOMAIN seen /\ \E u \in DOMAIN seen : Key(u, v) \in L}
  BY <1>2 DEF Found, NodesOf
<1> HIDE DEF L
<1>5. DOMAIN seen = {v \in t.inSet : Far(t, v, d) <= n} /\ t.inSet \in SUBSET V
  BY DEF Leads, TreesOf
<1>6. \A v \in t.inSet : Far(t, v, d) \in Nat
  <2>1. ASSUME NEW v \in t.inSet PROVE Far(t, v, d) \in Nat
    <3>1. Far(t, v, d) \in 0..g.num /\ g.num \in Nat
      BY BetweenIs DEF GraphOK
    <3> QED
      BY <3>1
  <2> QED
    BY <2>1
<1>7. ASSUME NEW v \in F, NEW u \in DOMAIN seen, Key(u, v) \in L
      PROVE  v \in t.inSet /\ Far(t, v, d) = n + 1 /\ \E c : Nearer(t, d, v, u, c)
  <2>1. u \in V /\ v \in V /\ v \notin DOMAIN seen
    BY <1>3, <1>4
  <2>2. PICK c : Nearer(t, d, u, v, c) \/ Nearer(t, d, v, u, c)
    BY <1>7, <2>1, LinksLead DEF L
  <2>3. u \in t.inSet /\ v \in t.inSet
    BY <2>2 DEF Nearer
  <2>4. Far(t, u, d) <= n /\ ~(Far(t, v, d) <= n)
    BY <1>5, <2>1, <2>3
  <2>5. Far(t, u, d) = Far(t, v, d) + 1 \/ Far(t, v, d) = Far(t, u, d) + 1
    BY <2>2 DEF Nearer
  <2>6. Far(t, v, d) = n + 1 /\ Far(t, u, d) # Far(t, v, d) + 1
    BY <1>6, <2>3, <2>4, <2>5
  <2>7. Nearer(t, d, v, u, c)
    BY <2>2, <2>6 DEF Nearer
  <2> QED
    BY <2>3, <2>6, <2>7
<1>8. ASSUME NEW v \in t.inSet, Far(t, v, d) = n + 1 PROVE v \in F
  <2>1. v # d
    <3>1. Far(t, d, d) = 0
      BY BetweenIs
    <3> QED
      BY <1>8, <3>1
  <2>2. PICK u, c : u \in t.inSet /\ Nearer(t, d, v, u, c) /\ Key(v, u) \in L
    BY <2>1, SomewhereNearer DEF L
  <2>3. Far(t, v, d) = Far(t, u, d) + 1
    BY <2>2 DEF Nearer
  <2>4. Far(t, u, d) <= n
    BY <2>2, <1>6, <1>8, <2>3
  <2>5. u \in DOMAIN seen /\ v \notin DOMAIN seen
    BY <1>5, <1>8, <2>2, <2>4
  <2>6. Key(u, v) = Key(v, u)
    <3>1. u \in V /\ v \in V
      BY <1>5, <2>2
    <3> QED
      BY <3>1, KeyIs
  <2> QED
    BY <1>4, <1>5, <2>2, <2>5, <2>6
<1>9. DOMAIN w = {v \in t.inSet : Far(t, v, d) <= n + 1}
  <2>1. ASSUME NEW v \in DOMAIN w PROVE v \in t.inSet /\ Far(t, v, d) <= n + 1
    <3>1. CASE v \in DOMAIN seen
      BY <1>5, <1>6, <3>1
    <3>2. CASE v \in F
      <4>1. \E u \in DOMAIN seen : Key(u, v) \in L
        BY <1>4, <3>2
      <4> QED
        BY <1>7, <3>2, <4>1
    <3> QED
      BY <1>3, <3>1, <3>2
  <2>2. ASSUME NEW v \in t.inSet, Far(t, v, d) <= n + 1 PROVE v \in DOMAIN w
    <3>1. Far(t, v, d) <= n \/ Far(t, v, d) = n + 1
      BY <1>6, <2>2
    <3> QED
      BY <1>3, <1>5, <1>8, <3>1
  <2> QED
    BY <2>1, <2>2
<1>10. ASSUME NEW v \in DOMAIN w \ {d} PROVE \E c : Nearer(t, d, v, w[v], c)
  <2>1. CASE v \in DOMAIN seen
    BY <1>3, <2>1 DEF Leads
  <2>2. CASE v \in F
    BY <1>3, <1>7, <2>2
  <2> QED
    BY <1>3, <2>1, <2>2
<1> QED
  BY <1>1, <1>9, <1>10 DEF Leads, L

(* A destination in the tree is found from all of it, one that is not from *)
(* nowhere.                                                                *)
HopsLead(t, d, next) ==
  IF d \in t.inSet
    THEN DOMAIN next = t.inSet /\ \A v \in t.inSet \ {d} : \E c : Nearer(t, d, v, next[v], c)
    ELSE DOMAIN next = {d}

LEMMA NextHopsAre ==
  ASSUME NEW g, GraphOK(g), NEW t \in TreesOf(g), Rooted(g, t), NEW d \in NodesOf(g),
         NEW next, next = NextHops(ToSet(t.links), g.num, d)
  PROVE  HopsLead(t, d, next)
<1> DEFINE V == NodesOf(g)
           L == ToSet(t.links)
<1>1. PICK n \in Nat : n = g.num
  BY DEF GraphOK
<1>2. V = 0..(n - 1)
  BY <1>1 DEF NodesOf
<1>3. PICK layer : Layers(L, n, d, layer)
  BY <1>1, <1>2, Layering
<1>4. /\ layer \in [0..n -> HopsTo(V)] /\ layer[0] = [v \in {d} |-> d] /\ layer[n] = next
      /\ \A i \in 0..n : i # n => layer[i + 1] = Wider(L, n, layer[i])
  BY <1>1, <1>2, <1>3 DEF Layers
<1> HIDE DEF L, V
<1>5. CASE d \in t.inSet
  <2> DEFINE G == {i \in 0..n : Leads(t, d, i, layer[i])}
  <2>1. 0 \in G
    <3>1. DOMAIN layer[0] = {d} /\ 0 \in 0..n
      BY <1>4
    <3>2. \A v \in t.inSet : Far(t, v, d) <= 0 <=> v = d
      <4>1. Far(t, d, d) = 0
        BY <1>5, BetweenIs
      <4>2. ASSUME NEW v \in t.inSet, v # d PROVE ~(Far(t, v, d) <= 0)
        <5>1. PICK u, c : u \in t.inSet /\ Nearer(t, d, v, u, c)
          BY <1>5, <4>2, SomewhereNearer
        <5>2. Far(t, v, d) = Far(t, u, d) + 1
          BY <5>1 DEF Nearer
        <5>3. Far(t, u, d) \in 0..g.num
          BY <1>5, <5>1, BetweenIs
        <5> QED
          BY <1>1, <5>2, <5>3
      <4> QED
        BY <4>1, <4>2
    <3>3. DOMAIN layer[0] = {v \in t.inSet : Far(t, v, d) <= 0}
      BY <1>5, <3>1, <3>2
    <3>4. Leads(t, d, 0, layer[0])
      BY <3>1, <3>3 DEF Leads
    <3> QED
      BY <3>1, <3>4
  <2>2. ASSUME NEW i \in 0..n, i # n, i \in G PROVE i + 1 \in G
    <3>1. i + 1 \in 0..n /\ i \in Nat
      BY <2>2
    <3>2. PICK seen \in HopsTo(V) : seen = layer[i]
      BY <1>4
    <3>3. Leads(t, d, i, seen)
      BY <2>2, <3>2
    <3>4. Leads(t, d, i + 1, Wider(ToSet(t.links), g.num, seen))
      BY <1>5, <3>1, <3>3, WiderLeads DEF V
    <3>5. layer[i + 1] = Wider(ToSet(t.links), g.num, seen)
      BY <1>1, <1>4, <2>2, <3>2 DEF L
    <3> QED
      BY <3>1, <3>4, <3>5
  <2>3. n \in G
    <3>1. 0..n \subseteq G
      <4> HIDE DEF G
      <4> QED
        BY <2>1, <2>2, UpTo
    <3> QED
      BY <3>1
  <2>4. Leads(t, d, n, next)
    BY <1>4, <2>3
  <2>5. DOMAIN next = t.inSet
    <3>1. ASSUME NEW v \in t.inSet PROVE Far(t, v, d) <= n
      <4>1. Far(t, v, d) \in 0..g.num
        BY <1>5, BetweenIs
      <4> QED
        BY <1>1, <4>1
    <3> QED
      BY <2>4, <3>1 DEF Leads
  <2> QED
    BY <1>5, <2>4, <2>5 DEF Leads, HopsLead
<1>6. CASE d \notin t.inSet
  <2>1. \A v \in V : Key(d, v) \notin L
    <3>1. ASSUME NEW v \in V, Key(d, v) \in L PROVE FALSE
      <4>1. PICK c \in t.inSet \ {t.root} : Key(d, v) = Key(c, t.parent[c])
        BY <3>1 DEF Rooted, L
      <4>2. PICK p \in t.inSet : p = t.parent[c]
        BY DEF Rooted
      <4>3. c \in NodesOf(g) /\ p \in NodesOf(g) /\ v \in NodesOf(g)
        BY DEF TreesOf, V
      <4>4. Key(c, p) = Key(d, v)
        BY <4>1, <4>2
      <4>5. d = c \/ d = p
        BY <4>3, <4>4, KeyIs
      <4> QED
        BY <1>6, <4>5
    <3> QED
      BY <3>1
  <2> DEFINE G == {i \in 0..n : DOMAIN layer[i] = {d}}
  <2>2. 0 \in G
    <3>1. DOMAIN layer[0] = {d} /\ 0 \in 0..n
      BY <1>4
    <3> QED
      BY <3>1
  <2>3. ASSUME NEW i \in 0..n, i # n, i \in G PROVE i + 1 \in G
    <3>1. i + 1 \in 0..n
      BY <2>3
    <3>2. PICK seen \in HopsTo(V) : seen = layer[i]
      BY <1>4
    <3>3. Found(L, n, seen) = {}
      BY <1>2, <2>1, <2>3, <3>2 DEF Found
    <3>4. DOMAIN Wider(L, n, seen) = DOMAIN seen \cup Found(L, n, seen)
      <4>1. Widens(L, n, V, seen, Wider(L, n, seen))
        BY <1>2, WiderIs
      <4> QED
        BY <4>1 DEF Widens
    <3>5. layer[i + 1] = Wider(L, n, seen)
      BY <1>4, <2>3, <3>2
    <3> QED
      BY <2>3, <3>1, <3>2, <3>3, <3>4, <3>5
  <2>4. n \in G
    <3>1. 0..n \subseteq G
      <4> HIDE DEF G
      <4> QED
        BY <2>2, <2>3, UpTo
    <3> QED
      BY <3>1
  <2> QED
    BY <1>4, <1>6, <2>4 DEF HopsLead
<1> QED
  BY <1>5, <1>6

LEMMA ToSetOfBoth ==
  ASSUME NEW S, NEW a \in Seq(S), NEW b \in Seq(S)
  PROVE  /\ a \o b \in Seq(S) /\ Len(a \o b) = Len(a) + Len(b)
         /\ ToSet(a \o b) = ToSet(a) \cup ToSet(b)
<1>1. PICK m \in Nat, n \in Nat : m = Len(a) /\ n = Len(b)
  BY LenProperties
<1>2. PICK c : c = a \o b
  OBVIOUS
<1>3. /\ c \in Seq(S) /\ Len(c) = m + n
      /\ \A i \in 1..(m + n) : c[i] = IF i <= m THEN a[i] ELSE b[i - m]
  BY <1>1, <1>2
<1>4. /\ ToSet(c) = {c[i] : i \in 1..(m + n)} /\ ToSet(a) = {a[i] : i \in 1..m}
      /\ ToSet(b) = {b[i] : i \in 1..n}
  <2>1. DOMAIN c = 1..(m + n) /\ DOMAIN a = 1..m /\ DOMAIN b = 1..n
    BY <1>1, <1>3, LenProperties
  <2> QED
    BY <2>1 DEF ToSet
<1>5. ASSUME NEW i \in 1..m PROVE a[i] \in ToSet(c)
  <2>1. i \in 1..(m + n) /\ c[i] = a[i]
    BY <1>3
  <2> QED
    BY <1>4, <2>1
<1>6. ASSUME NEW i \in 1..n PROVE b[i] \in ToSet(c)
  <2>1. m + i \in 1..(m + n) /\ ~(m + i <= m) /\ m + i - m = i
    OBVIOUS
  <2>2. c[m + i] = b[i]
    BY <1>3, <2>1
  <2> QED
    BY <1>4, <2>1, <2>2
<1>7. ASSUME NEW i \in 1..(m + n) PROVE c[i] \in ToSet(a) \cup ToSet(b)
  <2>1. CASE i <= m
    BY <1>3, <1>4, <2>1
  <2>2. CASE ~(i <= m)
    <3>1. i - m \in 1..n
      BY <2>2
    <3> QED
      BY <1>3, <1>4, <2>2, <3>1
  <2> QED
    BY <2>1, <2>2
<1>8. ToSet(c) = ToSet(a) \cup ToSet(b)
  BY <1>4, <1>5, <1>6, <1>7
<1> QED
  BY <1>1, <1>2, <1>3, <1>8

HungBy(t, B) == {Key(c, t.parent[c]) : c \in B}

(* One side of a tree path: the links of a climb as far as it is not       *)
(* shared.                                                                 *)
OneSide(u, v) == [i \in 1..Cardinality(ToSet(u) \ ToSet(v)) |-> Key(u[i], u[i + 1])]

SideOf(g, t, A, side) ==
  side \in Seq(NodesOf(g) \X NodesOf(g)) /\ Len(side) = Cardinality(A) /\ ToSet(side) = HungBy(t, A)

LEMMA OneSideIs ==
  ASSUME NEW g, GraphOK(g), NEW t \in TreesOf(g), Rooted(g, t), NEW a \in t.inSet, NEW b \in t.inSet,
         NEW side, side = OneSide(Up(t, a), Up(t, b))
  PROVE  SideOf(g, t, Ancestry(t, a) \ Ancestry(t, b), side)
<1> DEFINE V == NodesOf(g)
<1>1. PICK w : w = Up(t, a)
  OBVIOUS
<1>2. Ascent(g, t, a, w)
  BY <1>1, UpIs
<1>3. Climb(g, t, a, w)
  BY <1>2 DEF Ascent
<1>4. PICK n \in Nat : n = Len(w) /\ DOMAIN w = 1..n /\ n >= 1
  BY <1>3, LenProperties DEF Climb
<1>5. /\ w[n] = t.root /\ \A i \in 1..(n - 1) : t.parent[w[i]] = w[i + 1]
      /\ \A i \in 1..n : w[i] \in t.inSet
      /\ \A i, j \in 1..n : i < j => w[i] # w[j]
  BY <1>2, <1>3, <1>4 DEF Ascent, Climb
<1>6. PICK A : A = Ancestry(t, a)
  OBVIOUS
<1>7. PICK B : B = Ancestry(t, b)
  OBVIOUS
<1>8. A = {w[i] : i \in 1..n} /\ A = ToSet(w) /\ B = ToSet(Up(t, b))
  BY <1>1, <1>4, <1>6, <1>7 DEF Ancestry, ToSet
<1>9. AncestryOf(g, t, b, B)
  BY <1>7, AncestryIs
<1>10. PICK m \in 1..n : w[m] \in B /\ \A i \in 1..n : w[i] \in B => m <= i
  <2>1. PICK S : S = {i \in 1..n : w[i] \in B}
    OBVIOUS
  <2>2. n \in S
    BY <1>4, <1>5, <1>9, <2>1 DEF AncestryOf
  <2>3. S \in SUBSET Nat /\ S # {}
    BY <2>1, <2>2
  <2>4. PICK m \in S : \A i \in S : m <= i
    BY <2>3, HasLeast
  <2> QED
    BY <2>1, <2>4
<1>11. \A i \in 1..n : m <= i => w[i] \in B
  <2> DEFINE G == {k \in 0..(n - m) : w[m + k] \in B}
  <2>1. n - m \in Nat /\ 0 \in 0..(n - m) /\ m + 0 = m
    OBVIOUS
  <2>2. 0 \in G
    BY <1>10, <2>1
  <2>3. ASSUME NEW k \in 0..(n - m), k # n - m, k \in G PROVE k + 1 \in G
    <3>1. k + 1 \in 0..(n - m) /\ m + k \in 1..(n - 1) /\ m + k + 1 = m + (k + 1) /\ m + k + 1 \in 1..n
      BY <2>3
    <3>2. t.parent[w[m + k]] = w[m + k + 1] /\ w[m + k] \in B
      BY <1>5, <2>3, <3>1
    <3>3. w[m + k] # t.root
      <4>1. w[m + k + 1] # None
        <5>1. w[m + k + 1] \in V /\ None \notin V
          BY <1>5, <3>1, NodesAre DEF TreesOf
        <5> QED
          BY <5>1
      <4> QED
        BY <3>2, <4>1 DEF Rooted
    <3>4. w[m + k + 1] \in B
      BY <1>9, <3>2, <3>3 DEF AncestryOf
    <3> QED
      BY <3>1, <3>4
  <2>4. 0..(n - m) \subseteq G
    <3> HIDE DEF G
    <3> QED
      BY <2>1, <2>2, <2>3, UpTo
  <2>5. ASSUME NEW i \in 1..n, m <= i PROVE w[i] \in B
    <3>1. i - m \in 0..(n - m) /\ m + (i - m) = i
      BY <2>5
    <3>2. w[m + (i - m)] \in B
      BY <2>4, <3>1
    <3> QED
      BY <3>1, <3>2
  <2> QED
    BY <2>5
<1>12. PICK k \in Nat : k = m - 1 /\ k + 1 <= n
  <2>1. m - 1 \in Nat /\ m - 1 + 1 <= n
    OBVIOUS
  <2> QED
    BY <2>1
<1>13. \A i \in 1..k : i \in 1..(n - 1) /\ i \in 1..n /\ i + 1 \in 1..n
  BY <1>12
<1>14. A \ B = {w[i] : i \in 1..k}
  <2>1. \A i \in 1..n : i \in 1..k <=> w[i] \notin B
    <3>1. \A i \in 1..n : i \in 1..k <=> ~(m <= i)
      BY <1>12
    <3> QED
      BY <1>10, <1>11, <3>1
  <2> QED
    BY <1>8, <1>13, <2>1
<1>15. Cardinality(A \ B) = k
  <2>1. PICK K : K = 1..k
    OBVIOUS
  <2>2. IsFiniteSet(K) /\ Cardinality(K) = k
    BY <2>1, FS_Interval
  <2>3. PICK f : f = [i \in K |-> w[i]]
    OBVIOUS
  <2>4. DOMAIN f = K /\ A \ B = {f[i] : i \in K}
    BY <1>14, <2>1, <2>3
  <2>5. \A i, j \in K : f[i] = f[j] => i = j
    <3>1. ASSUME NEW i \in 1..k, NEW j \in 1..k, w[i] = w[j] PROVE i = j
      BY <1>5, <1>13, <3>1
    <3> QED
      BY <2>1, <2>3, <3>1
  <2>6. Cardinality({f[i] : i \in K}) = Cardinality(K)
    BY <2>2, <2>4, <2>5, Images
  <2> QED
    BY <2>2, <2>4, <2>6
<1>16. side = [i \in 1..k |-> Key(w[i], w[i + 1])]
  BY <1>1, <1>8, <1>15 DEF OneSide
<1>17. ASSUME NEW i \in 1..k
       PROVE  side[i] = Key(w[i], t.parent[w[i]]) /\ side[i] \in V \X V
  <2>1. side[i] = Key(w[i], w[i + 1]) /\ t.parent[w[i]] = w[i + 1]
    BY <1>5, <1>13, <1>16
  <2>2. w[i] \in V /\ w[i + 1] \in V
    BY <1>5, <1>13 DEF TreesOf
  <2> QED
    BY <2>1, <2>2, KeyIs
<1>18. side \in [1..k -> V \X V]
  BY <1>16, <1>17
<1>19. side \in Seq(V \X V) /\ Len(side) = k /\ DOMAIN side = 1..k
  <2> HIDE DEF V
  <2> QED
    BY <1>18
<1>20. ToSet(side) = HungBy(t, A \ B)
  <2>1. ToSet(side) = {side[i] : i \in 1..k}
    BY <1>19 DEF ToSet
  <2>2. HungBy(t, A \ B) = {Key(w[i], t.parent[w[i]]) : i \in 1..k}
    BY <1>14 DEF HungBy
  <2> QED
    BY <1>17, <2>1, <2>2
<1> QED
  BY <1>6, <1>7, <1>15, <1>19, <1>20 DEF SideOf

PathOf(g, t, a, b, path) ==
  path \in Seq(NodesOf(g) \X NodesOf(g)) /\ Len(path) = Far(t, a, b) /\ ToSet(path) = HungBy(t, Between(t, a, b))

LEMMA TreePathIs ==
  ASSUME NEW g, GraphOK(g), NEW t \in TreesOf(g), Rooted(g, t), NEW a \in t.inSet, NEW b \in t.inSet
  PROVE  PathOf(g, t, a, b, TreePath(t, a, b))
<1> DEFINE L == NodesOf(g) \X NodesOf(g)
<1>1. PICK x : x = OneSide(Up(t, a), Up(t, b))
  OBVIOUS
<1>2. PICK y : y = OneSide(Up(t, b), Up(t, a))
  OBVIOUS
<1>3. Last(Up(t, a)) = Last(Up(t, b))
  <2>1. Ascent(g, t, a, Up(t, a)) /\ Ascent(g, t, b, Up(t, b))
    BY UpIs
  <2> QED
    BY <2>1 DEF Ascent, Last
<1>4. TreePath(t, a, b) = x \o y
  BY <1>1, <1>2, <1>3 DEF TreePath, OneSide
<1>5. PICK A : A = Ancestry(t, a) \ Ancestry(t, b)
  OBVIOUS
<1>6. PICK B : B = Ancestry(t, b) \ Ancestry(t, a)
  OBVIOUS
<1>7. /\ x \in Seq(L) /\ Len(x) = Cardinality(A) /\ ToSet(x) = HungBy(t, A)
      /\ y \in Seq(L) /\ Len(y) = Cardinality(B) /\ ToSet(y) = HungBy(t, B)
  <2>1. SideOf(g, t, A, x)
    BY <1>1, <1>5, OneSideIs
  <2>2. SideOf(g, t, B, y)
    BY <1>2, <1>6, OneSideIs
  <2> QED
    BY <2>1, <2>2 DEF SideOf
<1>8. Between(t, a, b) = A \cup B /\ A \cap B = {}
  BY <1>5, <1>6 DEF Between
<1>9. Far(t, a, b) = Cardinality(A) + Cardinality(B)
  <2>1. IsFiniteSet(A \cup B)
    BY <1>8, BetweenIs
  <2>2. IsFiniteSet(A) /\ IsFiniteSet(B)
    BY <2>1, FS_Subset
  <2>3. Cardinality(A \cup B) = Cardinality(A) + Cardinality(B) - Cardinality(A \cap B)
    BY <2>2, FS_Union
  <2>4. Cardinality(A \cap B) = 0 /\ Cardinality(A) \in Nat /\ Cardinality(B) \in Nat
    BY <1>8, <2>2, FS_EmptySet, FS_CardinalityType
  <2> QED
    BY <1>8, <2>3, <2>4 DEF Far
<1>10. HungBy(t, A \cup B) = HungBy(t, A) \cup HungBy(t, B)
  BY DEF HungBy
<1>11. /\ x \o y \in Seq(L) /\ Len(x \o y) = Len(x) + Len(y)
       /\ ToSet(x \o y) = ToSet(x) \cup ToSet(y)
  <2> HIDE DEF L
  <2>1. x \in Seq(L) /\ y \in Seq(L)
    BY <1>7
  <2> QED
    BY <2>1, ToSetOfBoth
<1> QED
  BY <1>4, <1>7, <1>8, <1>9, <1>10, <1>11 DEF PathOf

(* A packet that left from src for dst in tree t, M being the members of   *)
(* its slice.                                                              *)
OnWay(g, t, M, p) ==
  /\ p \in [slice : Slices, src : t.inSet, dst : t.inSet, at : t.inSet,
            crossed : Seq(NodesOf(g) \X NodesOf(g))]
  /\ p.dst \in M
  /\ Between(t, p.at, p.dst) \subseteq Between(t, p.src, p.dst)
  /\ Far(t, p.at, p.dst) + Len(p.crossed) = Far(t, p.src, p.dst)
  /\ ToSet(p.crossed) \subseteq HungBy(t, Between(t, p.src, p.dst))

OneHop(p, u, q) == q = [p EXCEPT !.at = u, !.crossed = Append(@, Key(p.at, u))]

LEMMA OneHopOn ==
  ASSUME NEW g, GraphOK(g), NEW t \in TreesOf(g), Rooted(g, t), NEW M, NEW p, OnWay(g, t, M, p),
         NEW u, NEW c, Nearer(t, p.dst, p.at, u, c),
         NEW q, OneHop(p, u, q)
  PROVE  OnWay(g, t, M, q)
<1> DEFINE L == NodesOf(g) \X NodesOf(g)
<1>1. /\ p.slice \in Slices /\ p.src \in t.inSet /\ p.dst \in t.inSet /\ p.at \in t.inSet
      /\ p.crossed \in Seq(L)
      /\ p = [slice |-> p.slice, src |-> p.src, dst |-> p.dst, at |-> p.at, crossed |-> p.crossed]
  BY DEF OnWay
<1>2. PICK k : k = Key(p.at, u)
  OBVIOUS
<1>3. PICK x : x = Append(p.crossed, k)
  OBVIOUS
<1>4. q = [slice |-> p.slice, src |-> p.src, dst |-> p.dst, at |-> u, crossed |-> x]
  BY <1>1, <1>2, <1>3 DEF OneHop
<1>5. u \in t.inSet /\ k \in L
  <2>1. u \in t.inSet
    BY DEF Nearer
  <2>2. u \in NodesOf(g) /\ p.at \in NodesOf(g)
    BY <1>1, <2>1 DEF TreesOf
  <2> QED
    BY <1>2, <2>1, <2>2, KeyIs
<1> HIDE DEF L
<1>6. x = p.crossed \o <<k>> /\ <<k>> \in Seq(L) /\ Len(<<k>>) = 1 /\ ToSet(<<k>>) = {k}
  <2>1. x = p.crossed \o <<k>> /\ <<k>> \in Seq(L) /\ Len(<<k>>) = 1
    BY <1>1, <1>3, <1>5
  <2>2. ToSet(<<k>>) = {k}
    <3>1. DOMAIN <<k>> = {1} /\ <<k>>[1] = k
      OBVIOUS
    <3> QED
      BY <3>1 DEF ToSet
  <2> QED
    BY <2>1, <2>2
<1>7. x \in Seq(L) /\ Len(x) = Len(p.crossed) + 1 /\ ToSet(x) = ToSet(p.crossed) \cup {k}
  <2>1. PICK y : y = <<k>>
    OBVIOUS
  <2>2. y \in Seq(L) /\ Len(y) = 1 /\ ToSet(y) = {k} /\ x = p.crossed \o y
    BY <1>6, <2>1
  <2>3. PICK z \in Seq(L) : z = p.crossed
    BY <1>1
  <2>4. z \o y \in Seq(L) /\ Len(z \o y) = Len(z) + Len(y) /\ ToSet(z \o y) = ToSet(z) \cup ToSet(y)
    <3>1. y \in Seq(L)
      BY <2>2
    <3> QED
      BY <3>1, ToSetOfBoth
  <2> QED
    BY <2>2, <2>3, <2>4
<1>8. /\ c \in Between(t, p.at, p.dst) /\ k = Key(c, t.parent[c])
      /\ Between(t, u, p.dst) \subseteq Between(t, p.at, p.dst)
      /\ Far(t, p.at, p.dst) = Far(t, u, p.dst) + 1
  BY <1>2 DEF Nearer
<1>9. k \in HungBy(t, Between(t, p.src, p.dst))
  BY <1>8 DEF OnWay, HungBy
<1>10. Far(t, u, p.dst) + Len(x) = Far(t, p.src, p.dst)
  <2>1. PICK a \in Int, b \in Nat : a = Far(t, u, p.dst) /\ b = Len(p.crossed)
    <3>1. Far(t, u, p.dst) \in 0..g.num
      BY <1>1, <1>5, BetweenIs
    <3>2. Len(p.crossed) \in Nat
      BY <1>1, LenProperties
    <3> QED
      BY <3>1, <3>2
  <2>2. (a + 1) + b = Far(t, p.src, p.dst)
    BY <1>8, <2>1 DEF OnWay
  <2>3. a + (b + 1) = (a + 1) + b
    BY <2>1
  <2> QED
    BY <1>7, <2>1, <2>2, <2>3
<1>11. /\ p.dst \in M /\ Between(t, p.at, p.dst) \subseteq Between(t, p.src, p.dst)
       /\ ToSet(p.crossed) \subseteq HungBy(t, Between(t, p.src, p.dst))
  BY DEF OnWay
<1>12. q \in [slice : Slices, src : t.inSet, dst : t.inSet, at : t.inSet, crossed : Seq(L)]
  BY <1>1, <1>4, <1>5, <1>7
<1>13. q.src = p.src /\ q.dst = p.dst /\ q.at = u /\ q.crossed = x
  <2>1. PICK a, b, e : a = p.slice /\ b = p.src /\ e = p.dst
    OBVIOUS
  <2>2. q = [slice |-> a, src |-> b, dst |-> e, at |-> u, crossed |-> x]
    BY <1>4, <2>1
  <2>3. q.src = b
    BY <2>2
  <2>4. q.dst = e
    BY <2>2
  <2>5. q.at = u
    BY <2>2
  <2>6. q.crossed = x
    BY <2>2
  <2> QED
    BY <2>1, <2>3, <2>4, <2>5, <2>6
<1>14. Between(t, u, p.dst) \subseteq Between(t, p.src, p.dst)
  BY <1>8, <1>11
<1>15. ToSet(x) \subseteq HungBy(t, Between(t, p.src, p.dst))
  BY <1>7, <1>9, <1>11
<1> QED
  BY <1>10, <1>11, <1>12, <1>13, <1>14, <1>15 DEF OnWay, L

LEMMA WayIsPath ==
  ASSUME NEW g, GraphOK(g), NEW t \in TreesOf(g), Rooted(g, t), NEW M, NEW p, OnWay(g, t, M, p),
         NEW path, path = TreePath(t, p.src, p.dst)
  PROVE  /\ ToSet(p.crossed) \subseteq ToSet(path) /\ Len(p.crossed) <= Len(path)
         /\ p.at = p.dst <=> Len(p.crossed) = Len(path)
<1>1. p.src \in t.inSet /\ p.dst \in t.inSet /\ p.at \in t.inSet /\ Len(p.crossed) \in Nat
  <2>1. p.src \in t.inSet /\ p.dst \in t.inSet /\ p.at \in t.inSet
        /\ p.crossed \in Seq(NodesOf(g) \X NodesOf(g))
    BY DEF OnWay
  <2> QED
    BY <2>1, LenProperties
<1>2. PathOf(g, t, p.src, p.dst, path)
  BY <1>1, TreePathIs
<1>3. ToSet(p.crossed) \subseteq ToSet(path)
  BY <1>2 DEF OnWay, PathOf
<1>4. PICK a \in Int, b \in Nat : a = Far(t, p.at, p.dst) /\ b = Len(p.crossed) /\ a >= 0
  <2>1. Far(t, p.at, p.dst) \in 0..g.num
    BY <1>1, BetweenIs
  <2>2. Far(t, p.at, p.dst) \in Int /\ Far(t, p.at, p.dst) >= 0
    BY <2>1
  <2> QED
    BY <1>1, <2>2
<1>5. Len(path) = a + b
  BY <1>2, <1>4 DEF OnWay, PathOf
<1>6. p.at = p.dst => a = 0
  BY <1>1, <1>4, BetweenIs
<1>7. ASSUME p.at # p.dst PROVE a # 0
  <2>1. PICK u, c : u \in t.inSet /\ Nearer(t, p.dst, p.at, u, c)
    BY <1>1, <1>7, SomewhereNearer
  <2>2. Far(t, p.at, p.dst) = Far(t, u, p.dst) + 1
    BY <2>1 DEF Nearer
  <2>3. Far(t, u, p.dst) \in 0..g.num
    BY <1>1, <2>1, BetweenIs
  <2>4. PICK m \in Nat : m = Far(t, u, p.dst)
    BY <2>3
  <2> QED
    BY <1>4, <2>2, <2>4
<1> QED
  BY <1>3, <1>4, <1>5, <1>6, <1>7

(* No node is a member of two slices. *)
LEMMA SlicesApart ==
  ASSUME RunInv, NEW s \in Slices, NEW x \in Slices, NEW n, n \in ToSet(members[s]), n \in ToSet(members[x])
  PROVE  s = x
<1>1. PICK request \in Requests, pool \in Pools : Accepted(request) /\ members = DrawMembers(request, pool)
  BY DEF RunInv, Drawn
<1>2. PICK c : c = Counts(request)
  OBVIOUS
<1>3. c \in [Slices -> Nat] /\ c[0] \in Nat /\ c[1] \in Nat /\ c[2] \in Nat
  BY <1>1, <1>2, CountsAre, SlicesAre
<1>4. Start(c, 0) = 0 /\ Start(c, 1) = c[0] /\ Start(c, 2) = c[0] + c[1]
  <2>1. c \in [Slices -> Int]
    BY <1>3
  <2> QED
    BY <2>1, SumOfSlices DEF Start
<1>5. ASSUME NEW y \in Slices, n \in ToSet(members[y])
      PROVE  \E i \in 1..c[y] : n = pool[Start(c, y) + i] /\ Start(c, y) + i \in 1..NumNodes
  <2>1. PICK w : w = DrawMembers(request, pool)[y]
    OBVIOUS
  <2>2. w \in Seq(MeshNodes) /\ Len(w) = c[y]
        /\ \A i \in 1..Len(w) : w[i] = pool[Start(c, y) + i] /\ Start(c, y) + i \in 1..NumNodes
    BY <1>1, <1>2, <2>1, MembersAre
  <2>3. ToSet(w) = {w[i] : i \in 1..Len(w)}
    BY <2>2, LenProperties DEF ToSet
  <2> QED
    BY <1>1, <1>5, <2>1, <2>2, <2>3
<1>6. PICK i \in 1..c[s] : n = pool[Start(c, s) + i] /\ Start(c, s) + i \in 1..NumNodes
  BY <1>5
<1>7. PICK j \in 1..c[x] : n = pool[Start(c, x) + j] /\ Start(c, x) + j \in 1..NumNodes
  BY <1>5
<1>8. \A a, b \in 1..NumNodes : pool[a] = pool[b] => a = b
  <2>1. pool \in Seq(MeshNodes) /\ ToSet(pool) = MeshNodes /\ Len(pool) = NumNodes
        /\ NumNodes \in Nat
    BY NodesAssumption
  <2>2. PICK D : D = 1..NumNodes
    OBVIOUS
  <2>3. pool \in [D -> MeshNodes] /\ \A m \in MeshNodes : \E a \in D : pool[a] = m
    <3>1. DOMAIN pool = D
      BY <2>1, <2>2, LenProperties
    <3>2. pool \in [D -> MeshNodes]
      BY <2>1, <2>2
    <3> QED
      BY <2>1, <3>1, <3>2 DEF ToSet
  <2>4. IsFiniteSet(D) /\ Cardinality(D) = NumNodes /\ Cardinality(MeshNodes) = NumNodes
    <3>1. IsFiniteSet(1..NumNodes) /\ Cardinality(1..NumNodes) = NumNodes
      BY <2>1, FS_Interval
    <3>2. Cardinality(0..(NumNodes - 1)) = NumNodes
      BY NodesAssumption, FS_Interval
    <3> QED
      BY <2>2, <3>1, <3>2 DEF MeshNodes
  <2>5. \A a, b \in D : pool[a] = pool[b] => a = b
    BY <2>3, <2>4, OntoIsOneToOne
  <2> QED
    BY <2>2, <2>5
<1>9. Start(c, s) + i = Start(c, x) + j
  BY <1>6, <1>7, <1>8
<1>10. s \in {0, 1, 2} /\ x \in {0, 1, 2}
  BY SlicesAre
<1> QED
  BY <1>3, <1>4, <1>6, <1>7, <1>9, <1>10

(* The next hops to d over the tree of slice s. *)
Toward(s, d) == NextHops(ToSet(DecodeSlice(graph, ind.seg[s]).links), graph.num, d)
RouteOf(s, d, v) == [node |-> v, dest |-> d, next |-> Toward(s, d)[v], slice |-> s]

Installed == phase = "routed" => routes = BuildRoutes(graph, ind.seg, members)

LEMMA RoutesAre ==
  ASSUME RunInv, Installed, phase = "routed", NEW s \in Slices, NEW d \in ToSet(members[s]), NEW v
  PROVE  RoutesAt(v, d) = IF v \in DOMAIN Toward(s, d) \ {d} THEN {RouteOf(s, d, v)} ELSE {}
<1>1. \A r : r \in routes <=>
        \E x \in Slices : \E e \in ToSet(members[x]) : \E w \in DOMAIN Toward(x, e) \ {e} : r = RouteOf(x, e, w)
  BY DEF Installed, BuildRoutes, Toward, RouteOf
<1>2. ASSUME NEW r \in RoutesAt(v, d) PROVE v \in DOMAIN Toward(s, d) \ {d} /\ r = RouteOf(s, d, v)
  <2>1. r \in routes /\ r.node = v /\ r.dest = d
    BY DEF RoutesAt
  <2>2. PICK x \in Slices : \E e \in ToSet(members[x]) : \E w \in DOMAIN Toward(x, e) \ {e} : r = RouteOf(x, e, w)
    BY <1>1, <2>1
  <2>3. PICK e \in ToSet(members[x]) : \E w \in DOMAIN Toward(x, e) \ {e} : r = RouteOf(x, e, w)
    BY <2>2
  <2>4. PICK w \in DOMAIN Toward(x, e) \ {e} : r = RouteOf(x, e, w)
    BY <2>3
  <2>5. e = d /\ w = v
    BY <2>1, <2>4 DEF RouteOf
  <2>6. x = s
    BY <2>5, SlicesApart
  <2> QED
    BY <2>4, <2>5, <2>6
<1>3. ASSUME v \in DOMAIN Toward(s, d) \ {d} PROVE RouteOf(s, d, v) \in RoutesAt(v, d)
  <2>1. RouteOf(s, d, v) \in routes
    BY <1>1, <1>3
  <2>2. RouteOf(s, d, v).node = v /\ RouteOf(s, d, v).dest = d
    BY DEF RouteOf
  <2> QED
    BY <2>1, <2>2 DEF RoutesAt
<1> QED
  BY <1>2, <1>3

(* What routes lead to in a slice's tree. *)
RoutesLead(s, d, t) ==
  /\ GraphOK(graph) /\ t \in TreesOf(graph) /\ Rooted(graph, t) /\ graph.num = NumNodes
  /\ d \in t.inSet =>
       \A v \in t.inSet \ {d} :
         /\ RoutesAt(v, d) # {}
         /\ \A r \in RoutesAt(v, d) : r.node = v /\ \E c : Nearer(t, d, v, r.next, c)
  /\ \A v : RoutesAt(v, d) # {} => d \in t.inSet /\ v \in t.inSet

LEMMA RoutesDo ==
  ASSUME RunInv, Installed, phase = "routed", NEW s \in Slices, NEW d \in ToSet(members[s]),
         NEW t, t = DecodeSlice(graph, ind.seg[s])
  PROVE  RoutesLead(s, d, t)
<1>1. members[s] # <<>> /\ d \in MeshNodes
  <2>1. ind.seg \in Orders
    BY DEF RunInv, Scored
  <2>2. members[s] \in Seq(MeshNodes)
    BY <2>1, OrderIs
  <2>3. ToSet(members[s]) = {members[s][i] : i \in 1..Len(members[s])}
    BY <2>2, LenProperties DEF ToSet
  <2>4. members[s] = <<>> => 1..Len(members[s]) = {}
    OBVIOUS
  <2> QED
    BY <2>2, <2>3, <2>4, ElementOfSeq
<1>2. GraphOK(graph) /\ NodesOf(graph) = MeshNodes /\ Decoded(graph, ind.seg[s], t)
  BY <1>1, TreesAre
<1>3. t \in TreesOf(graph) /\ Rooted(graph, t)
  BY <1>2 DEF Decoded
<1>4. graph.num = NumNodes
  <2>1. ReadFrom(graph, table)
    BY GraphIs
  <2> QED
    BY <2>1 DEF ReadFrom
<1>5. PICK next : next = Toward(s, d)
  OBVIOUS
<1>6. next = NextHops(ToSet(t.links), graph.num, d)
  BY <1>5 DEF Toward
<1>7. HopsLead(t, d, next)
  <2>1. d \in NodesOf(graph)
    BY <1>1, <1>2
  <2>2. GraphOK(graph)
    BY <1>2
  <2> QED
    BY <1>3, <1>6, <2>1, <2>2, NextHopsAre
<1>8. \A v : RoutesAt(v, d) = IF v \in DOMAIN next \ {d} THEN {RouteOf(s, d, v)} ELSE {}
  BY <1>5, RoutesAre
<1>9. \A v : RouteOf(s, d, v).node = v /\ RouteOf(s, d, v).next = next[v]
  BY <1>5 DEF RouteOf
<1>10. ASSUME d \in t.inSet, NEW v \in t.inSet \ {d}
       PROVE  /\ RoutesAt(v, d) # {}
              /\ \A r \in RoutesAt(v, d) : r.node = v /\ \E c : Nearer(t, d, v, r.next, c)
  <2>1. RoutesAt(v, d) = {RouteOf(s, d, v)}
    BY <1>7, <1>8, <1>10 DEF HopsLead
  <2>2. \E c : Nearer(t, d, v, next[v], c)
    BY <1>7, <1>10 DEF HopsLead
  <2> QED
    BY <1>9, <2>1, <2>2
<1>11. ASSUME NEW v, RoutesAt(v, d) # {} PROVE d \in t.inSet /\ v \in t.inSet
  <2>1. v \in DOMAIN next \ {d}
    BY <1>8, <1>11
  <2> QED
    BY <1>7, <2>1 DEF HopsLead
<1> QED
  BY <1>2, <1>3, <1>4, <1>10, <1>11 DEF RoutesLead

OnItsWay ==
  packet = NoPacket \/
    /\ phase = "routed" /\ packet.slice \in Slices
    /\ OnWay(graph, DecodeSlice(graph, ind.seg[packet.slice]), ToSet(members[packet.slice]), packet)
RouteInv == RunInv /\ Installed /\ OnItsWay

LEMMA RoutesStart == Init => RouteInv
BY RunStarts DEF Init, RouteInv, Installed, OnItsWay

LEMMA SentIsOnWay ==
  ASSUME RouteInv, NEW s \in Slices, Send(s)
  PROVE  OnItsWay'
<1>1. /\ phase = "routed" /\ phase' = phase /\ members' = members /\ graph' = graph /\ ind' = ind
      /\ RunInv /\ Installed
  BY DEF Send, RouteInv
<1>2. PICK i \in DOMAIN Pairs(members[s]), back \in BOOLEAN :
        LET p == Pairs(members[s])[i]
            src == IF back THEN p[2] ELSE p[1]
            dst == IF back THEN p[1] ELSE p[2]
        IN  /\ RoutesAt(src, dst) # {}
            /\ packet' = [slice |-> s, src |-> src, dst |-> dst, at |-> src, crossed |-> <<>>]
  BY DEF Send
<1>3. PICK p : p = Pairs(members[s])[i]
  OBVIOUS
<1>4. PICK src, dst : /\ src = (IF back THEN p[2] ELSE p[1]) /\ dst = (IF back THEN p[1] ELSE p[2])
                      /\ RoutesAt(src, dst) # {}
                      /\ packet' = [slice |-> s, src |-> src, dst |-> dst, at |-> src, crossed |-> <<>>]
  BY <1>2, <1>3
<1>5. p[1] \in ToSet(members[s]) /\ p[2] \in ToSet(members[s])
  <2>1. members[s] \in Seq(MeshNodes)
    <3>1. ind.seg \in Orders
      BY <1>1 DEF RunInv, Scored
    <3> QED
      BY <1>1, <3>1, OrderIs
  <2>2. PICK n \in Nat : n = Len(members[s]) /\ DOMAIN members[s] = 1..n
    BY <2>1, LenProperties
  <2>3. i \in 1..(n \div 2) /\ p = <<members[s][2 * i - 1], members[s][2 * i]>>
    BY <1>3, <2>2 DEF Pairs
  <2>4. 2 * i - 1 \in 1..n /\ 2 * i \in 1..n
    BY <2>3
  <2>5. p[1] = members[s][2 * i - 1] /\ p[2] = members[s][2 * i]
    BY <2>3
  <2> QED
    BY <2>2, <2>4, <2>5 DEF ToSet
<1>6. src \in ToSet(members[s]) /\ dst \in ToSet(members[s])
  BY <1>4, <1>5
<1>7. PICK t : t = DecodeSlice(graph, ind.seg[s])
  OBVIOUS
<1>8. RoutesLead(s, dst, t)
  BY <1>1, <1>6, <1>7, RoutesDo
<1>9. GraphOK(graph) /\ t \in TreesOf(graph) /\ Rooted(graph, t) /\ src \in t.inSet /\ dst \in t.inSet
  BY <1>4, <1>8 DEF RoutesLead
<1>10. PICK q : q = packet'
  OBVIOUS
<1>11. q = [slice |-> s, src |-> src, dst |-> dst, at |-> src, crossed |-> <<>>]
  BY <1>4, <1>10
<1>12. q.slice = s /\ q.src = src /\ q.dst = dst /\ q.at = src /\ q.crossed = <<>>
  BY <1>11
<1>13. q \in [slice : Slices, src : t.inSet, dst : t.inSet, at : t.inSet,
              crossed : Seq(NodesOf(graph) \X NodesOf(graph))]
  <2>1. <<>> \in Seq(NodesOf(graph) \X NodesOf(graph))
    OBVIOUS
  <2> QED
    BY <1>9, <1>11, <2>1
<1>14. Far(t, src, dst) + Len(<<>>) = Far(t, src, dst)
  <2>1. Far(t, src, dst) \in 0..graph.num /\ graph.num \in Nat
    BY <1>9, BetweenIs DEF GraphOK
  <2>2. PICK f \in Nat : f = Far(t, src, dst)
    BY <2>1
  <2> QED
    BY <2>2
<1>15. ToSet(<<>>) = {}
  BY DEF ToSet
<1>16. OnWay(graph, t, ToSet(members[s]), q)
  BY <1>6, <1>12, <1>13, <1>14, <1>15 DEF OnWay
<1>17. packet'.slice = s
  BY <1>10, <1>12
<1> QED
  BY <1>1, <1>7, <1>10, <1>16, <1>17 DEF OnItsWay

LEMMA ForwardedIsOnWay ==
  ASSUME RouteInv, Forward
  PROVE  OnItsWay'
<1>1. /\ phase' = phase /\ members' = members /\ graph' = graph /\ ind' = ind /\ packet.at # packet.dst
      /\ RunInv /\ Installed
  BY DEF Forward, RouteInv
<1>2. packet # NoPacket
  <2>1. NoPacket.at = None /\ NoPacket.dst = None
    BY DEF NoPacket
  <2> QED
    BY <1>1, <2>1
<1>3. PICK s \in Slices : s = packet.slice /\ phase = "routed"
  BY <1>2 DEF RouteInv, OnItsWay
<1>4. PICK t : t = DecodeSlice(graph, ind.seg[s])
  OBVIOUS
<1>5. PICK p : p = packet
  OBVIOUS
<1>6. OnWay(graph, t, ToSet(members[s]), p)
  BY <1>2, <1>3, <1>4, <1>5 DEF RouteInv, OnItsWay
<1>7. p.dst \in ToSet(members[s]) /\ p.dst \in t.inSet /\ p.at \in t.inSet /\ p.slice = s
  BY <1>3, <1>5, <1>6 DEF OnWay
<1>8. RoutesLead(s, p.dst, t)
  BY <1>1, <1>3, <1>4, <1>7, RoutesDo
<1>9. PICK r \in RoutesAt(p.at, p.dst) :
        packet' = [packet EXCEPT !.at = r.next, !.crossed = Append(@, Key(r.node, r.next))]
  BY <1>5 DEF Forward
<1>10. p.at # p.dst
  BY <1>1, <1>5
<1>11. r.node = p.at /\ \E c : Nearer(t, p.dst, p.at, r.next, c)
  BY <1>7, <1>8, <1>10 DEF RoutesLead
<1>12. PICK u, c : u = r.next /\ Nearer(t, p.dst, p.at, u, c)
  BY <1>11
<1>13. PICK q : q = packet'
  OBVIOUS
<1>14. OneHop(p, u, q)
  BY <1>5, <1>9, <1>11, <1>12, <1>13 DEF OneHop
<1>15. OnWay(graph, t, ToSet(members[s]), q)
  <2>1. GraphOK(graph) /\ t \in TreesOf(graph) /\ Rooted(graph, t)
    BY <1>8 DEF RoutesLead
  <2> QED
    BY <1>6, <1>12, <1>14, <2>1, OneHopOn
<1>16. packet'.slice = s
  BY <1>5, <1>7, <1>9
<1> QED
  BY <1>1, <1>3, <1>4, <1>13, <1>15, <1>16 DEF OnItsWay

LEMMA RoutesKeep == RouteInv /\ [Next]_vars => RouteInv'
<1> SUFFICES ASSUME RouteInv, [Next]_vars PROVE RouteInv'
  OBVIOUS
<1>1. RunInv /\ RunInv'
  BY RunKeeps DEF RouteInv
<1>2. Installed /\ OnItsWay
  BY DEF RouteInv
<1>3. ASSUME phase # "routed", packet' = packet, phase' # "routed" PROVE RouteInv'
  BY <1>1, <1>2, <1>3 DEF RouteInv, Installed, OnItsWay
<1>4. CASE ReadTable
  BY <1>3, <1>4 DEF ReadTable
<1>5. ASSUME NEW seg \in Orders, Score(seg) PROVE RouteInv'
  BY <1>3, <1>5 DEF Score
<1>6. CASE Rescore
  BY <1>3, <1>6 DEF Rescore
<1>7. CASE Install
  BY <1>1, <1>2, <1>7 DEF Install, RouteInv, Installed, OnItsWay
<1>8. ASSUME UNCHANGED <<phase, members, graph, ind, routes>> PROVE Installed'
  BY <1>2, <1>8 DEF Installed
<1>9. ASSUME NEW s \in Slices, Send(s) PROVE RouteInv'
  BY <1>1, <1>8, <1>9, SentIsOnWay DEF Send, RouteInv
<1>10. CASE Forward
  BY <1>1, <1>8, <1>10, ForwardedIsOnWay DEF Forward, RouteInv
<1>11. CASE UNCHANGED vars
  BY <1>1, <1>2, <1>8, <1>11 DEF vars, RouteInv, OnItsWay
<1> QED
  BY <1>4, <1>5, <1>6, <1>7, <1>9, <1>10, <1>11 DEF Next

LEMMA RoutesHold == Spec => []RouteInv
<1> QED
  BY RoutesStart, RoutesKeep, PTL DEF Spec

(* States FollowsScoredPath, the property of the run: whatever the table,  *)
(* the members and their order, and whatever the other slices installed    *)
(* (InjectStaticRoutes), a packet crosses links of the path its pair was   *)
(* scored on, as many as that has, and is never without a route onwards.   *)
THEOREM FollowsScoredPathHolds == Spec => []FollowsScoredPath
<1>1. RouteInv => FollowsScoredPath
  <2>1. SUFFICES ASSUME RouteInv, packet # NoPacket PROVE FollowsScoredPath
    BY DEF FollowsScoredPath
  <2>2. PICK s \in Slices : s = packet.slice /\ phase = "routed"
    BY <2>1 DEF RouteInv, OnItsWay
  <2>3. PICK t : t = DecodeSlice(graph, ind.seg[s])
    OBVIOUS
  <2>4. PICK p : p = packet
    OBVIOUS
  <2>5. OnWay(graph, t, ToSet(members[s]), p)
    BY <2>1, <2>2, <2>3, <2>4 DEF RouteInv, OnItsWay
  <2>6. p.dst \in ToSet(members[s]) /\ p.dst \in t.inSet /\ p.at \in t.inSet
    BY <2>5 DEF OnWay
  <2>7. RoutesLead(s, p.dst, t)
    <3>1. RunInv /\ Installed
      BY <2>1 DEF RouteInv
    <3> QED
      BY <2>2, <2>3, <2>6, <3>1, RoutesDo
  <2>8. p.at # p.dst => RoutesAt(p.at, p.dst) # {}
    BY <2>6, <2>7 DEF RoutesLead
  <2>9. PICK path : path = TreePath(t, p.src, p.dst)
    OBVIOUS
  <2>10. /\ ToSet(p.crossed) \subseteq ToSet(path) /\ Len(p.crossed) <= Len(path)
         /\ p.at = p.dst <=> Len(p.crossed) = Len(path)
    <3>1. GraphOK(graph) /\ t \in TreesOf(graph) /\ Rooted(graph, t)
      BY <2>7 DEF RoutesLead
    <3> QED
      BY <2>5, <2>9, <3>1, WayIsPath
  <2> QED
    BY <2>2, <2>3, <2>4, <2>8, <2>9, <2>10 DEF FollowsScoredPath
<1> QED
  BY <1>1, RoutesHold, PTL
=============================================================================
