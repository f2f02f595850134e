-------------------------- MODULE Selection_proofs --------------------------
(***************************************************************************)
(* Proofs about the route search, for every population, landscape and cut: *)
(* the scalar optimiser keeps its best, crossover gives orders, the fronts *)
(* of the peeling are the depths of dominance, the survivors of a          *)
(* generation are the top of it, and the unit of T0 changes nothing.       *)
(***************************************************************************)
EXTENDS Selection, RankingLemmas, SequenceTheorems

Individuals ==
  [seg : Chromosomes, obj : [Objectives -> Int], stranded : Nat, saturated : Nat,
   cost : Int, rank : Int, crowd : Int]

-----------------------------------------------------------------------------
(* Sequences by their places.                                              *)

LEMMA Places ==
  ASSUME NEW T, NEW q \in Seq(T)
  PROVE  /\ Len(q) \in Nat /\ DOMAIN q = 1..Len(q) /\ q \in [1..Len(q) -> T]
         /\ DOMAIN q \in SUBSET Int /\ IsFiniteSet(DOMAIN q) /\ Cardinality(DOMAIN q) = Len(q)
<1>1. Len(q) \in Nat /\ DOMAIN q = 1..Len(q) /\ q \in [1..Len(q) -> T]
  OBVIOUS
<1>2. IsFiniteSet(1..Len(q)) /\ Cardinality(1..Len(q)) = Len(q)
  BY <1>1, FS_Interval
<1> QED
  BY <1>1, <1>2

LEMMA FunctionIsSeq ==
  ASSUME NEW T, NEW n \in Nat, NEW f \in [1..n -> T]
  PROVE  f \in Seq(T) /\ Len(f) = n
OBVIOUS

(* Sorting keeps what is sorted, and its length.                           *)
LEMMA SortedKeeps ==
  ASSUME NEW T, NEW q \in Seq(T), NEW key \in [1..Len(q) -> Int]
  PROVE  /\ Sorted(q, key) \in Seq(T) /\ Len(Sorted(q, key)) = Len(q)
         /\ \A k \in 1..Len(q) : \E l \in 1..Len(q) : Sorted(q, key)[k] = q[l]
         /\ \A l \in 1..Len(q) : \E k \in 1..Len(q) : Sorted(q, key)[k] = q[l]
<1> DEFINE at == StableOrder(key)
           S == 1..Len(q)
<1>1. /\ Len(q) \in Nat /\ DOMAIN q = S /\ q \in [S -> T] /\ S \in SUBSET Int
      /\ IsFiniteSet(S) /\ Cardinality(S) = Len(q)
  BY Places
<1>2. at \in [S -> S]
  BY <1>1, OrderLists
<1>3. \A i \in S : \E k \in S : at[k] = i
  <2>1. key \in [S -> Int] /\ S = 1..Cardinality(S)
    BY <1>1
  <2> HIDE DEF S
  <2>2. \A i \in S : \E k \in 1..Cardinality(S) : StableOrder(key)[k] = i
    <3>1. S \in SUBSET Int /\ IsFiniteSet(S)
      BY <1>1
    <3> QED
      BY <2>1, <3>1, OrderIsOnto
  <2> QED
    BY <2>1, <2>2
<1>4. Sorted(q, key) = [k \in S |-> q[at[k]]]
  BY <1>1 DEF Sorted
<1> HIDE DEF at
<1>5. Sorted(q, key) \in [S -> T]
  BY <1>1, <1>2, <1>4
<1>6. Sorted(q, key) \in Seq(T) /\ Len(Sorted(q, key)) = Len(q)
  BY <1>1, <1>5, FunctionIsSeq
<1>7. \A k \in S : Sorted(q, key)[k] = q[at[k]] /\ at[k] \in S
  BY <1>2, <1>4
<1> HIDE DEF S
<1>8. \A k \in S : \E l \in S : Sorted(q, key)[k] = q[l]
  BY <1>7
<1>9. \A l \in S : \E k \in S : Sorted(q, key)[k] = q[l]
  BY <1>3, <1>7
<1> QED
  BY <1>6, <1>8, <1>9 DEF S

(* Places in order are those places, each once. *)
LEMMA InOrderLists ==
  ASSUME NEW S \in SUBSET Int, IsFiniteSet(S)
  PROVE  /\ Cardinality(S) \in Nat /\ InOrder(S) \in [1..Cardinality(S) -> S]
         /\ InOrder(S) \in Seq(S) /\ Len(InOrder(S)) = Cardinality(S)
         /\ \A i \in S : \E k \in 1..Cardinality(S) : InOrder(S)[k] = i
<1> DEFINE key == [k \in S |-> k]
<1>1. key \in [S -> Int]
  OBVIOUS
<1>2. InOrder(S) = StableOrder(key)
  BY DEF InOrder
<1> HIDE DEF key
<1>3. /\ Cardinality(S) \in Nat /\ InOrder(S) \in [1..Cardinality(S) -> S]
      /\ \A i \in S : \E k \in 1..Cardinality(S) : InOrder(S)[k] = i
  BY <1>1, <1>2, OrderLists, OrderIsOnto
<1> QED
  BY <1>3, FunctionIsSeq

-----------------------------------------------------------------------------
(* What is bred, scored and kept is typed. *)

LEMMA ScoredTyped ==
  ASSUME NEW seg \in Chromosomes, land \in DOMAIN Landscapes
  PROVE  Scored(seg) \in Individuals
<1>1. Landscapes[land][seg] \in Scores
  BY LandscapesAssumption
<1>2. /\ Landscapes[land][seg].obj \in [Objectives -> Int]
      /\ Landscapes[land][seg].stranded \in Nat /\ Landscapes[land][seg].saturated \in Nat
      /\ Landscapes[land][seg].cost \in Int
  BY <1>1 DEF Scores
<1> QED
  BY <1>2 DEF Scored, Individual, Individuals

LEMMA SegOfScored == ASSUME NEW seg PROVE Scored(seg).seg = seg
BY DEF Scored, Individual

(* The first of least cost is somebody, whom nobody undercuts. *)
LEMMA BestIsLeast ==
  ASSUME NEW p \in Seq(Individuals), Len(p) > 0
  PROVE  /\ Best(p) \in 1..Len(p) /\ p[Best(p)] \in Individuals /\ p[Best(p)].cost \in Int
         /\ \A i \in 1..Len(p) : p[Best(p)].cost <= p[i].cost
<1> DEFINE S == 1..Len(p)
           key == [i \in S |-> p[i].cost]
<1>1. /\ Len(p) \in Nat /\ DOMAIN p = S /\ p \in [S -> Individuals] /\ S \in SUBSET Int
      /\ IsFiniteSet(S) /\ S # {}
  BY Places
<1>2. \A i \in S : p[i].cost \in Int
  BY <1>1 DEF Individuals
<1>3. key \in [S -> Int]
  BY <1>2
<1>4. Best(p) = First(key)
  BY <1>1 DEF Best
<1>5. \A i \in S : key[i] = p[i].cost
  OBVIOUS
<1> HIDE DEF key, S
<1>6. First(key) \in S /\ \A i \in S : key[First(key)] < key[i] \/ key[First(key)] = key[i]
  BY <1>1, <1>3, FirstIsLeast
<1>7. \A i \in S : p[First(key)].cost <= p[i].cost
  BY <1>2, <1>5, <1>6
<1> QED
  BY <1>1, <1>2, <1>4, <1>6, <1>7 DEF S

-----------------------------------------------------------------------------
(* Crossover and mutation of orders give orders.                           *)

(* An order holds every member once. *)
LEMMA OrderFacts ==
  ASSUME NEW s \in Slices, NEW p \in Orders(s)
  PROVE  LET n == Len(Members[s])
             M == Range(Members[s])
         IN  /\ n \in Nat /\ IsFiniteSet(M) /\ Cardinality(M) = n
             /\ p \in [1..n -> M] /\ Len(p) = n /\ Range(p) = M
             /\ \A x \in M : \E k \in 1..n : p[k] = x
             /\ \A k, l \in 1..n : p[k] = p[l] => k = l
<1> DEFINE q == Members[s]
           n == Len(q)
           M == Range(q)
<1>1. q \in Seq(Nat) /\ \A k, l \in 1..n : q[k] = q[l] => k = l
  BY MembersAssumption
<1>2. /\ n \in Nat /\ DOMAIN q = 1..n /\ IsFiniteSet(1..n) /\ Cardinality(1..n) = n
      /\ q \in [1..n -> Nat]
  BY <1>1, Places
<1>3. q \in [1..n -> M] /\ \A x \in M : \E k \in 1..n : q[k] = x
  BY <1>2 DEF Range
<1>4. p \in [1..n -> M] /\ Range(p) = M
  BY DEF Orders
<1> HIDE DEF q
<1>5. Len(p) = n
  BY <1>2, <1>4
<1> HIDE DEF M, n
<1>6. IsFiniteSet(M) /\ Cardinality(M) = n
  <2>1. \A k, l \in 1..n : q[k] = q[l] => k = l
    BY <1>1
  <2> QED
    BY <1>2, <1>3, <2>1, SameSize
<1>7. \A x \in M : \E k \in 1..n : p[k] = x
  BY <1>4 DEF Range
<1>8. \A k, l \in 1..n : p[k] = p[l] => k = l
  <2> DEFINE S == 1..n
  <2>1. IsFiniteSet(S) /\ Cardinality(S) = Cardinality(M) /\ p \in [S -> M]
        /\ \A x \in M : \E k \in S : p[k] = x
    BY <1>2, <1>4, <1>6, <1>7
  <2> HIDE DEF S
  <2>2. \A k, l \in S : p[k] = p[l] => k = l
    BY <2>1, OntoIsOneToOne
  <2> QED
    BY <2>2 DEF S
<1> QED
  BY <1>2, <1>4, <1>5, <1>6, <1>7, <1>8 DEF M, n, q

(* What lists as many places as there are members, and everyone, is one. *)
LEMMA ListingIsOrder ==
  ASSUME NEW s \in Slices, NEW p \in [1..Len(Members[s]) -> Range(Members[s])],
         \A x \in Range(Members[s]) : \E k \in 1..Len(Members[s]) : p[k] = x
  PROVE  p \in Orders(s)
<1>1. Range(p) = Range(Members[s])
  BY DEF Range
<1> QED
  BY <1>1 DEF Orders

(* The k-th place after j, counted round. *)
Wrap(j, c, n) == 1 + ((j + c - 1) % n)

LEMMA Wraps ==
  ASSUME NEW n \in Nat, NEW j \in 1..n, NEW c \in 1..n
  PROVE  Wrap(j, c, n) = IF j + c - 1 < n THEN j + c ELSE j + c - n
<1> DEFINE a == j + c - 1
           q == a \div n
           m == q * n
<1>1. a \in Nat /\ n \in Nat \ {0} /\ a < 2 * n
  OBVIOUS
<1> HIDE DEF a
<1>2. q \in Int /\ a % n \in 0..(n - 1) /\ a = m + (a % n)
  BY <1>1
<1>3. m = 0 \/ m = n
  <2>1. q <= -1 => m <= -n
    BY <1>1, <1>2
  <2>2. q >= 2 => m >= 2 * n
    BY <1>1, <1>2
  <2>3. q = 0 => m = 0
    BY <1>1
  <2>4. q = 1 => m = n
    BY <1>1
  <2>5. q = 0 \/ q = 1 \/ q <= -1 \/ q >= 2
    BY <1>2
  <2>6. m \in Int
    BY <1>1, <1>2
  <2> HIDE DEF m, q
  <2> QED
    BY <1>1, <1>2, <2>1, <2>2, <2>3, <2>4, <2>5, <2>6
<1> HIDE DEF m
<1>4. a % n = IF a < n THEN a ELSE a - n
  BY <1>1, <1>2, <1>3
<1> QED
  BY <1>4 DEF a, Wrap

LEMMA RotatedListsAll ==
  ASSUME NEW s \in Slices, NEW p \in Orders(s), NEW j \in 1..Len(p)
  PROVE  Rotated(p, j) \in Orders(s)
<1> DEFINE n == Len(Members[s])
           M == Range(Members[s])
<1>1. /\ n \in Nat /\ p \in [1..n -> M] /\ Len(p) = n
      /\ \A x \in M : \E k \in 1..n : p[k] = x
  BY OrderFacts
<1>0. j \in 1..n
  BY <1>1
<1> HIDE DEF n, M
<1>2. ASSUME NEW c \in 1..n PROVE Wrap(j, c, n) \in 1..n
  <2>1. Wrap(j, c, n) = IF j + c - 1 < n THEN j + c ELSE j + c - n
    BY <1>0, <1>1, Wraps
  <2> QED
    BY <1>0, <1>1, <2>1
<1>3. Rotated(p, j) = [c \in 1..n |-> p[Wrap(j, c, n)]]
  BY <1>1 DEF Rotated, Wrap
<1>4. Rotated(p, j) \in [1..n -> M]
  BY <1>1, <1>2, <1>3
<1>5. ASSUME NEW x \in M PROVE \E c \in 1..n : Rotated(p, j)[c] = x
  <2>1. PICK k \in 1..n : p[k] = x
    BY <1>1
  <2> DEFINE c == IF k > j THEN k - j ELSE k + n - j
  <2>2. c \in 1..n /\ k = IF j + c - 1 < n THEN j + c ELSE j + c - n
    BY <1>0, <1>1
  <2> HIDE DEF c
  <2>3. Wrap(j, c, n) = k
    BY <1>0, <1>1, <2>2, Wraps
  <2>4. Rotated(p, j)[c] = x
    BY <1>3, <2>1, <2>2, <2>3
  <2> QED
    BY <2>2, <2>4
<1> QED
  BY <1>4, <1>5, ListingIsOrder DEF n, M

(* The places of the second order that crossover still has to use are as   *)
(* many as the first leaves open.                                          *)
LEMMA OpenPlaces ==
  ASSUME NEW s \in Slices, NEW p1 \in Orders(s), NEW w \in Orders(s),
         NEW i \in 1..Len(p1), NEW j \in 1..Len(p1), i <= j
  PROVE  LET outs == {c \in 1..Len(p1) : w[c] \notin {p1[k] : k \in i..j}}
         IN  IsFiniteSet(outs) /\ Cardinality(outs) = Len(p1) - (j - i + 1)
<1> DEFINE n == Len(Members[s])
           M == Range(Members[s])
           cut == i..j
           kept == {p1[k] : k \in cut}
           open == M \ kept
           outs == {c \in 1..n : w[c] \notin kept}
<1>1. /\ n \in Nat /\ IsFiniteSet(M) /\ Cardinality(M) = n
      /\ p1 \in [1..n -> M] /\ Len(p1) = n
      /\ \A k, l \in 1..n : p1[k] = p1[l] => k = l
  BY OrderFacts
<1>2. /\ w \in [1..n -> M]
      /\ \A x \in M : \E k \in 1..n : w[k] = x
      /\ \A k, l \in 1..n : w[k] = w[l] => k = l
  BY OrderFacts
<1> HIDE DEF n, M
<1>3. /\ i \in Int /\ j \in Int /\ cut \subseteq 1..n /\ j - i + 1 \in Nat
      /\ IsFiniteSet(cut) /\ Cardinality(cut) = j - i + 1
  <2>1. i \in 1..n /\ j \in 1..n
    BY <1>1
  <2>2. i \in Int /\ j \in Int /\ cut \subseteq 1..n /\ ~(i > j) /\ j - i + 1 \in Nat
    BY <1>1, <2>1
  <2> QED
    BY <2>2, FS_Interval
<1> HIDE DEF cut
<1>4. kept \subseteq M /\ IsFiniteSet(kept) /\ Cardinality(kept) = j - i + 1
  <2> DEFINE f == [k \in cut |-> p1[k]]
  <2>1. kept \subseteq M /\ f \in [cut -> kept]
    BY <1>1, <1>3
  <2>2. \A a, b \in cut : f[a] = f[b] => a = b
    BY <1>1, <1>3
  <2>3. \A t \in kept : \E a \in cut : f[a] = t
    OBVIOUS
  <2> HIDE DEF f, kept
  <2> QED
    BY <1>3, <2>1, <2>2, <2>3, SameSize
<1> HIDE DEF kept
<1>5. Cardinality(open) = n - (j - i + 1)
  <2>1. M \cap kept = kept
    BY <1>4
  <2>2. Cardinality(M \ kept) = Cardinality(M) - Cardinality(M \cap kept)
    BY <1>1, FS_Difference
  <2> QED
    BY <1>1, <1>4, <2>1, <2>2
<1>6. IsFiniteSet(outs)
  <2>1. IsFiniteSet(1..n) /\ outs \in SUBSET (1..n)
    BY <1>1, FS_Interval
  <2> HIDE DEF outs
  <2> QED
    BY <2>1, FS_Subset
<1>7. Cardinality(open) = Cardinality(outs)
  <2> DEFINE f == [c \in outs |-> w[c]]
  <2>1. f \in [outs -> open]
    BY <1>2
  <2>2. \A a, b \in outs : f[a] = f[b] => a = b
    BY <1>2
  <2>3. \A t \in open : \E a \in outs : f[a] = t
    <3> TAKE t \in open
    <3>1. PICK c \in 1..n : w[c] = t
      BY <1>2
    <3>2. c \in outs
      BY <3>1
    <3>3. f[c] = t
      BY <3>1, <3>2
    <3> QED
      BY <3>2, <3>3
  <2> HIDE DEF f, outs, open
  <2> QED
    BY <1>6, <2>1, <2>2, <2>3, SameSize
<1> QED
  BY <1>1, <1>5, <1>6, <1>7 DEF kept, cut

(* Order crossover of two orders is an order: what the cut keeps is kept   *)
(* once, and what it leaves out is filled in once, wherever the fill wraps *)
(* round and whichever end was drawn first.                                *)
LEMMA CrossoverIsOrder ==
  ASSUME NEW s \in Slices, NEW p1 \in Orders(s), NEW p2 \in Orders(s), NEW x, NEW y,
         Len(p1) < 2 \/ (x \in 1..Len(p1) /\ y \in 1..Len(p1))
  PROVE  OrderCrossover(p1, p2, x, y) \in Orders(s)
<1> DEFINE n == Len(Members[s])
           M == Range(Members[s])
           i == IF x > y THEN y ELSE x
           j == IF x > y THEN x ELSE y
           kept == {p1[k] : k \in i..j}
           w == Rotated(p2, j)
           outs == {c \in 1..n : w[c] \notin kept}
           fill == InOrder(outs)
           at(k) == IF k > j THEN k - j ELSE k + n - j
           child == [k \in 1..n |-> IF k \in i..j THEN p1[k] ELSE w[fill[at(k)]]]
<1>1. /\ n \in Nat /\ p1 \in [1..n -> M] /\ Len(p1) = n /\ Range(p1) = M
      /\ \A v \in M : \E k \in 1..n : p1[k] = v
  BY OrderFacts
<1>2. Len(p2) = n
  BY OrderFacts
<1>3. CASE Len(p1) < 2
  BY <1>3 DEF OrderCrossover
<1>4. CASE ~(Len(p1) < 2)
  <2>1. OrderCrossover(p1, p2, x, y) = child
    BY <1>1, <1>4 DEF OrderCrossover
  <2>2. i \in 1..n /\ j \in 1..n /\ i <= j
    BY <1>1, <1>4
  <2> HIDE DEF i, j, n, M
  <2>3. w \in Orders(s)
    BY <1>2, <2>2, RotatedListsAll
  <2>4. w \in [1..n -> M] /\ \A v \in M : \E c \in 1..n : w[c] = v
    BY <2>3, OrderFacts DEF n, M
  <2> HIDE DEF w
  <2>5. IsFiniteSet(outs) /\ Cardinality(outs) = n - (j - i + 1)
    <3> DEFINE o == {c \in 1..Len(p1) : w[c] \notin {p1[k] : k \in i..j}}
    <3>1. i \in 1..Len(p1) /\ j \in 1..Len(p1) /\ i <= j
      BY <1>1, <2>2
    <3>2. IsFiniteSet(o) /\ Cardinality(o) = Len(p1) - (j - i + 1)
      BY <2>3, <3>1, OpenPlaces
    <3>3. o = outs
      BY <1>1
    <3> HIDE DEF o, outs
    <3> QED
      BY <1>1, <3>2, <3>3
  <2>6. outs \in SUBSET Int /\ outs \subseteq 1..n
    OBVIOUS
  <2> HIDE DEF outs
  <2>7. /\ fill \in [1..(n - (j - i + 1)) -> outs]
        /\ \A c \in outs : \E k \in 1..(n - (j - i + 1)) : fill[k] = c
    BY <2>5, <2>6, InOrderLists
  <2> HIDE DEF fill
  <2>8. ASSUME NEW k \in 1..n, k \notin i..j PROVE at(k) \in 1..(n - (j - i + 1))
    BY <1>1, <2>2, <2>8
  <2>9. child \in [1..n -> M]
    <3>1. ASSUME NEW k \in 1..n, k \notin i..j PROVE w[fill[at(k)]] \in M
      <4>1. at(k) \in 1..(n - (j - i + 1))
        BY <2>8, <3>1
      <4> HIDE DEF at
      <4>2. fill[at(k)] \in 1..n
        BY <2>6, <2>7, <4>1
      <4> QED
        BY <2>4, <4>2
    <3>2. ASSUME NEW k \in 1..n PROVE p1[k] \in M
      BY <1>1
    <3> QED
      BY <3>1, <3>2
  <2>10. ASSUME NEW v \in M PROVE \E k \in 1..n : child[k] = v
    <3>1. CASE v \in kept
      <4>1. PICK k \in i..j : p1[k] = v
        BY <3>1
      <4>2. k \in 1..n
        BY <1>1, <2>2
      <4>3. child[k] = v
        BY <4>1, <4>2
      <4> QED
        BY <4>2, <4>3
    <3>2. CASE v \notin kept
      <4>1. PICK c \in 1..n : w[c] = v
        BY <2>4
      <4>2. c \in outs
        BY <3>2, <4>1 DEF outs
      <4>3. PICK l \in 1..(n - (j - i + 1)) : fill[l] = c
        BY <2>7, <4>2
      <4> DEFINE k == IF l + j <= n THEN l + j ELSE l + j - n
      <4>4. k \in 1..n /\ k \notin i..j /\ at(k) = l
        BY <1>1, <2>2
      <4> HIDE DEF k, at
      <4>5. child[k] = w[fill[at(k)]]
        BY <4>4
      <4> QED
        BY <4>1, <4>3, <4>4, <4>5
    <3> QED
      BY <3>1, <3>2
  <2> HIDE DEF child
  <2>11. child \in Orders(s)
    BY <2>9, <2>10, ListingIsOrder DEF n, M
  <2> QED
    BY <2>1, <2>11
<1> QED
  BY <1>3, <1>4

(* So does exchanging two of its places. *)
LEMMA MutationIsOrder ==
  ASSUME NEW s \in Slices, NEW p \in Orders(s), NEW x, NEW y,
         Len(p) < 2 \/ (x \in 1..Len(p) /\ y \in 1..Len(p))
  PROVE  SwapMutation(p, x, y) \in Orders(s)
<1> DEFINE n == Len(Members[s])
           M == Range(Members[s])
           r == [p EXCEPT ![x] = p[y], ![y] = p[x]]
<1>1. /\ n \in Nat /\ p \in [1..n -> M] /\ Len(p) = n
      /\ \A v \in M : \E k \in 1..n : p[k] = v
  BY OrderFacts
<1>2. CASE Len(p) < 2
  BY <1>2 DEF SwapMutation
<1>3. CASE ~(Len(p) < 2)
  <2>1. SwapMutation(p, x, y) = r /\ x \in 1..n /\ y \in 1..n
    BY <1>1, <1>3 DEF SwapMutation
  <2> HIDE DEF n, M
  <2>2. r \in [1..n -> M]
    BY <1>1, <2>1
  <2>3. ASSUME NEW k \in 1..n PROVE r[k] = IF k = y THEN p[x] ELSE IF k = x THEN p[y] ELSE p[k]
    BY <1>1, <2>1
  <2>4. ASSUME NEW v \in M PROVE \E k \in 1..n : r[k] = v
    <3>1. PICK k \in 1..n : p[k] = v
      BY <1>1
    <3> QED
      BY <2>1, <2>3, <3>1
  <2> HIDE DEF r
  <2>5. r \in Orders(s)
    BY <2>2, <2>4, ListingIsOrder DEF n, M
  <2> QED
    BY <2>1, <2>5
<1> QED
  BY <1>2, <1>3

LEMMA VariedAreOrders ==
  ASSUME NEW s \in Slices, NEW p1 \in Orders(s), NEW p2 \in Orders(s)
  PROVE  Varied(p1, p2) \subseteq Orders(s)
<1> SUFFICES ASSUME NEW cut \in Drawn(Cuts, p1), NEW swap \in Drawn(Swaps, p1)
             PROVE  SwapMutation(OrderCrossover(p1, p2, cut[1], cut[2]), swap[1], swap[2])
                      \in Orders(s)
  BY DEF Varied
<1>1. \A d \in Nat \X Nat : Range(d) = {d[1], d[2]}
  BY DEF Range
<1>2. cut \in Nat \X Nat /\ swap \in Nat \X Nat
  BY DrawsAssumption DEF Drawn
<1>3. /\ Len(p1) < 2 \/ (cut[1] \in 1..Len(p1) /\ cut[2] \in 1..Len(p1))
      /\ Len(p1) < 2 \/ (swap[1] \in 1..Len(p1) /\ swap[2] \in 1..Len(p1))
  BY <1>1, <1>2 DEF Drawn
<1> DEFINE c == OrderCrossover(p1, p2, cut[1], cut[2])
<1>4. c \in Orders(s)
  BY <1>3, CrossoverIsOrder
<1> HIDE DEF c
<1>5. Len(c) = Len(p1)
  BY <1>4, OrderFacts
<1>6. SwapMutation(c, swap[1], swap[2]) \in Orders(s)
  BY <1>3, <1>4, <1>5, MutationIsOrder
<1> QED
  BY <1>6 DEF c

-----------------------------------------------------------------------------
(* A finite set of integers has both extremes.                             *)
LEMMA Extremes ==
  ASSUME NEW S \in SUBSET Int, IsFiniteSet(S), S # {}
  PROVE  /\ Min(S) \in S /\ \A x \in S : Min(S) <= x
         /\ Max(S) \in S /\ \A x \in S : x <= Max(S)
<1> DEFINE up == [x \in S |-> x]
           down == [x \in S |-> -x]
<1>1. up \in [S -> Int] /\ down \in [S -> Int]
  OBVIOUS
<1>2. \E x \in S : \A y \in S : x <= y
  <2>1. First(up) \in S /\ \A i \in S : up[First(up)] < up[i] \/ up[First(up)] = up[i]
    <3> HIDE DEF up
    <3> QED
      BY <1>1, FirstIsLeast
  <2>2. \A i \in S : up[i] = i
    OBVIOUS
  <2> HIDE DEF up
  <2>3. \A i \in S : First(up) <= i
    <3> TAKE i \in S
    <3>1. up[First(up)] = First(up) /\ up[i] = i /\ i \in Int /\ First(up) \in Int
      BY <2>1, <2>2
    <3> QED
      BY <2>1, <3>1
  <2> QED
    BY <2>1, <2>3
<1>3. \E x \in S : \A y \in S : x >= y
  <2>1. First(down) \in S /\ \A i \in S : down[First(down)] < down[i] \/ down[First(down)] = down[i]
    <3> HIDE DEF down
    <3> QED
      BY <1>1, FirstIsLeast
  <2>2. \A i \in S : down[i] = -i
    OBVIOUS
  <2> HIDE DEF down
  <2>3. \A i \in S : First(down) >= i
    <3> TAKE i \in S
    <3>1. down[First(down)] = -First(down) /\ down[i] = -i /\ i \in Int /\ First(down) \in Int
      BY <2>1, <2>2
    <3> QED
      BY <2>1, <3>1
  <2> QED
    BY <2>1, <2>3
<1>4. Min(S) \in S /\ \A x \in S : Min(S) <= x
  BY <1>2 DEF Min
<1>5. Max(S) \in S /\ \A x \in S : Max(S) >= x
  BY <1>3 DEF Max
<1> QED
  BY <1>4, <1>5

-----------------------------------------------------------------------------
(* Constrained dominance is a strict order.                                *)
LEMMA SenseIsInt ==
  ASSUME NEW x \in Individuals, NEW m \in Objectives
  PROVE  x.obj[m] \in Int /\ Sense(x, m) \in Int
<1>1. x.obj \in [Objectives -> Int]
  BY DEF Individuals
<1>2. x.obj[m] \in Int
  BY <1>1
<1> QED
  BY <1>2 DEF Sense

LEMMA ViolationIsNat ==
  ASSUME NEW x \in Individuals
  PROVE  Violation(x) \in Nat
<1>1. x.stranded \in Nat /\ x.saturated \in Nat
  BY DEF Individuals
<1> QED
  BY <1>1 DEF Violation

LEMMA DominatesNotItself ==
  ASSUME NEW x \in Individuals
  PROVE  ~Dominates(x, x)
<1>1. Violation(x) \in Nat /\ \A m \in Objectives : Sense(x, m) \in Int
  BY ViolationIsNat, SenseIsInt
<1> QED
  BY <1>1 DEF Dominates

LEMMA DominatesOnwards ==
  ASSUME NEW x \in Individuals, NEW y \in Individuals, NEW z \in Individuals,
         Dominates(x, y), Dominates(y, z)
  PROVE  Dominates(x, z)
<1>1. /\ Violation(x) \in Nat /\ Violation(y) \in Nat /\ Violation(z) \in Nat
      /\ \A m \in Objectives : Sense(x, m) \in Int /\ Sense(y, m) \in Int /\ Sense(z, m) \in Int
  BY ViolationIsNat, SenseIsInt
<1>2. CASE Violation(x) < Violation(z)
  BY <1>2 DEF Dominates
<1>3. CASE ~(Violation(x) < Violation(z))
  <2>1. /\ Violation(x) = 0 /\ Violation(y) = 0 /\ Violation(z) = 0
        /\ \A m \in Objectives : Sense(x, m) >= Sense(y, m) /\ Sense(y, m) >= Sense(z, m)
        /\ \E m \in Objectives : Sense(x, m) > Sense(y, m)
    BY <1>1, <1>3 DEF Dominates
  <2>2. \A m \in Objectives : Sense(x, m) >= Sense(z, m)
    BY <1>1, <2>1
  <2>3. \E m \in Objectives : Sense(x, m) > Sense(z, m)
    BY <1>1, <2>1
  <2> QED
    BY <2>1, <2>2, <2>3 DEF Dominates
<1> QED
  BY <1>2, <1>3

-----------------------------------------------------------------------------
(* The peeling of fronts.                                                  *)

(* Those left whom none of those left dominates. *)
Free(p, left) == {i \in left : \A j \in left : ~Dominates(p[j], p[i])}

(* Wherever somebody is left somebody is free: one with the fewest         *)
(* dominators left has none, as a dominator of his would have fewer.       *)
LEMMA SomebodyIsFree ==
  ASSUME NEW p \in Seq(Individuals), NEW left \in SUBSET (1..Len(p)), left # {}
  PROVE  Free(p, left) # {}
<1> DEFINE over(i) == {j \in left : Dominates(p[j], p[i])}
           counts == {Cardinality(over(i)) : i \in left}
<1>1. IsFiniteSet(left) /\ \A i \in left : p[i] \in Individuals
  <2>1. IsFiniteSet(1..Len(p))
    BY Places
  <2>2. IsFiniteSet(left)
    BY <2>1, FS_Subset
  <2> QED
    BY <2>2
<1>2. ASSUME NEW i \in left
      PROVE  over(i) \in SUBSET left /\ IsFiniteSet(over(i)) /\ Cardinality(over(i)) \in Nat
  <2>1. over(i) \in SUBSET left
    OBVIOUS
  <2> HIDE DEF over
  <2> QED
    BY <1>1, <2>1, FS_Subset, FS_CardinalityType
<1>3. PICK i \in left : \A j \in left : Cardinality(over(i)) <= Cardinality(over(j))
  <2>1. counts \in SUBSET Nat /\ counts # {}
    BY <1>2
  <2>2. PICK m \in counts : \A n \in counts : m <= n
    <3> HIDE DEF counts
    <3> QED
      BY <2>1, HasLeast
  <2> QED
    BY <2>2
<1>4. ASSUME NEW j \in over(i) PROVE FALSE
  <2>1. j \in left /\ Dominates(p[j], p[i])
    BY <1>4
  <2>2. \A l \in over(j) : l \in over(i)
    BY <1>1, <2>1, DominatesOnwards
  <2>3. j \notin over(j)
    BY <1>1, <2>1, DominatesNotItself
  <2> HIDE DEF over
  <2>4. over(j) \in SUBSET over(i) /\ over(j) # over(i)
    BY <1>4, <2>2, <2>3
  <2>5. Cardinality(over(j)) <= Cardinality(over(i))
        /\ Cardinality(over(i)) # Cardinality(over(j))
    BY <1>2, <2>4, FS_Subset
  <2> QED
    BY <1>2, <1>3, <2>1, <2>5
<1>5. i \in Free(p, left)
  <2>1. \A j \in left : ~Dominates(p[j], p[i])
    BY <1>4
  <2> QED
    BY <2>1 DEF Free
<1> QED
  BY <1>5

(* A front lists the free, each once. *)
LEMMA UndominatedLists ==
  ASSUME NEW p \in Seq(Individuals), NEW left \in SUBSET (1..Len(p)),
         NEW previous \in Seq(1..Len(p))
  PROVE  /\ Undominated(p, left, previous) \in Seq(1..Len(p))
         /\ Range(Undominated(p, left, previous)) = Free(p, left)
         /\ \A k, l \in 1..Len(Undominated(p, left, previous)) :
              Undominated(p, left, previous)[k] = Undominated(p, left, previous)[l] => k = l
<1> DEFINE S == Free(p, left)
           held(i) == {0} \cup {k \in DOMAIN previous : Dominates(p[previous[k]], p[i])}
           key == [i \in S |-> Max(held(i))]
           u == Undominated(p, left, previous)
<1>1. u = StableOrder(key)
  BY DEF Undominated, Free
<1>2. S \in SUBSET Int /\ IsFiniteSet(S) /\ S \subseteq 1..Len(p)
  <2>1. IsFiniteSet(1..Len(p)) /\ S \in SUBSET (1..Len(p))
    BY Places DEF Free
  <2> QED
    BY <2>1, FS_Subset
<1>3. ASSUME NEW i \in S PROVE Max(held(i)) \in Int
  <2>1. held(i) \in SUBSET (0..Len(previous)) /\ held(i) # {} /\ Len(previous) \in Nat
    OBVIOUS
  <2>2. IsFiniteSet(0..Len(previous))
    BY <2>1, FS_Interval
  <2> HIDE DEF held
  <2>3. IsFiniteSet(held(i)) /\ held(i) \in SUBSET Int
    BY <2>1, <2>2, FS_Subset
  <2>4. Max(held(i)) \in held(i)
    BY <2>1, <2>3, Extremes
  <2> QED
    BY <2>3, <2>4
<1>4. key \in [S -> Int]
  BY <1>3
<1> HIDE DEF key, u
<1>5. /\ Cardinality(S) \in Nat /\ u \in [1..Cardinality(S) -> S]
      /\ \A k \in 1..Cardinality(S) : Cardinality(Before(key, u[k])) = k - 1
      /\ \A i \in S : \E k \in 1..Cardinality(S) : u[k] = i
  <2> HIDE DEF S
  <2>1. \A i \in S : \E k \in 1..Cardinality(S) : StableOrder(key)[k] = i
    BY <1>2, <1>4, OrderIsOnto
  <2> QED
    BY <1>1, <1>2, <1>4, <2>1, OrderLists
<1> HIDE DEF S
<1>6. u \in Seq(1..Len(p)) /\ Len(u) = Cardinality(S) /\ DOMAIN u = 1..Cardinality(S)
  BY <1>2, <1>5, FunctionIsSeq
<1>7. Range(u) = S
  BY <1>5, <1>6 DEF Range
<1>8. \A k, l \in 1..Len(u) : u[k] = u[l] => k = l
  BY <1>5, <1>6
<1> QED
  BY <1>6, <1>7, <1>8 DEF u, S

(* Those in none of the fronts before f. *)
Beyond(p, fronts, f) == {i \in 1..Len(p) : \A g \in 1..(f - 1) : i \notin Range(fronts[g])}

(* Fronts as the peeling makes them: each the free of those beyond the     *)
(* fronts before it, never nobody, and everybody once.                     *)
Layered(p, fronts) ==
  /\ fronts \in Seq(Seq(1..Len(p)))
  /\ \A f \in 1..Len(fronts) :
       /\ Range(fronts[f]) = Free(p, Beyond(p, fronts, f)) /\ Range(fronts[f]) # {}
       /\ \A k, l \in 1..Len(fronts[f]) : fronts[f][k] = fronts[f][l] => k = l

LEMMA LeftIsBeyond ==
  ASSUME NEW p \in Seq(Individuals), NEW fronts \in Seq(Seq(1..Len(p)))
  PROVE  /\ Left(p, fronts) = Beyond(p, fronts, Len(fronts) + 1)
         /\ Left(p, fronts) \in SUBSET (1..Len(p))
<1>1. DOMAIN p = 1..Len(p) /\ DOMAIN fronts = 1..Len(fronts) /\ Len(fronts) \in Nat
  OBVIOUS
<1>2. 1..(Len(fronts) + 1 - 1) = 1..Len(fronts)
  BY <1>1
<1>3. ASSUME NEW i PROVE i \in Left(p, fronts) <=> i \in Beyond(p, fronts, Len(fronts) + 1)
  <2>1. i \in Left(p, fronts) <=> i \in 1..Len(p) /\ \A g \in 1..Len(fronts) : i \notin Range(fronts[g])
    BY <1>1 DEF Left
  <2> QED
    BY <1>2, <2>1 DEF Beyond
<1>4. Beyond(p, fronts, Len(fronts) + 1) \in SUBSET (1..Len(p))
  BY DEF Beyond
<1> QED
  BY <1>3, <1>4

LEMMA PeeledTyped ==
  ASSUME NEW p \in Seq(Individuals), NEW fronts \in Seq(Seq(1..Len(p)))
  PROVE  /\ Left(p, fronts) = {} => Peeled(p, fronts) = fronts
         /\ Left(p, fronts) # {} =>
              \E u \in Seq(1..Len(p)) :
                /\ Peeled(p, fronts) = Append(fronts, u)
                /\ Range(u) = Free(p, Left(p, fronts))
                /\ \A k, l \in 1..Len(u) : u[k] = u[l] => k = l
         /\ Peeled(p, fronts) \in Seq(Seq(1..Len(p)))
<1> DEFINE previous == IF fronts = <<>> THEN <<>> ELSE fronts[Len(fronts)]
           u == Undominated(p, Left(p, fronts), previous)
<1>1. previous \in Seq(1..Len(p))
  <2>1. CASE fronts = <<>>
    BY <2>1
  <2>2. CASE fronts # <<>>
    <3>1. Len(fronts) \in 1..Len(fronts)
      BY <2>2
    <3> QED
      BY <2>2, <3>1
  <2> QED
    BY <2>1, <2>2
<1>2. Peeled(p, fronts) = IF Left(p, fronts) = {} THEN fronts ELSE Append(fronts, u)
  BY DEF Peeled
<1> HIDE DEF previous
<1>3. /\ u \in Seq(1..Len(p)) /\ Range(u) = Free(p, Left(p, fronts))
      /\ \A k, l \in 1..Len(u) : u[k] = u[l] => k = l
  BY <1>1, LeftIsBeyond, UndominatedLists
<1> HIDE DEF u
<1>4. Append(fronts, u) \in Seq(Seq(1..Len(p)))
  BY <1>3
<1>5. CASE Left(p, fronts) = {}
  BY <1>2, <1>5
<1>6. CASE Left(p, fronts) # {}
  <2>1. Peeled(p, fronts) = Append(fronts, u)
    BY <1>2, <1>6
  <2> QED
    BY <1>3, <1>4, <1>6, <2>1
<1> QED
  BY <1>5, <1>6

(* A turn of the peeling keeps the fronts layered, and leaves fewer. *)
LEMMA PeeledLayers ==
  ASSUME NEW p \in Seq(Individuals), NEW fronts, Layered(p, fronts)
  PROVE  /\ Layered(p, Peeled(p, fronts))
         /\ Left(p, fronts) # {} =>
              /\ Left(p, Peeled(p, fronts)) \in SUBSET Left(p, fronts)
              /\ Left(p, Peeled(p, fronts)) # Left(p, fronts)
<1>1. fronts \in Seq(Seq(1..Len(p))) /\ Len(fronts) \in Nat
  BY DEF Layered
<1>2. CASE Left(p, fronts) = {}
  BY <1>1, <1>2, PeeledTyped
<1>3. CASE Left(p, fronts) # {}
  <2> DEFINE n == Len(fronts)
             left == Left(p, fronts)
  <2>1. PICK u \in Seq(1..Len(p)) :
          /\ Peeled(p, fronts) = Append(fronts, u)
          /\ Range(u) = Free(p, left)
          /\ \A k, l \in 1..Len(u) : u[k] = u[l] => k = l
    BY <1>1, <1>3, PeeledTyped
  <2> DEFINE more == Append(fronts, u)
  <2>2. left = Beyond(p, fronts, n + 1) /\ left \in SUBSET (1..Len(p))
    BY <1>1, LeftIsBeyond
  <2>3. Free(p, left) # {}
    BY <1>3, <2>2, SomebodyIsFree
  <2>4. /\ more \in Seq(Seq(1..Len(p))) /\ Len(more) = n + 1
        /\ more[n + 1] = u /\ \A g \in 1..n : more[g] = fronts[g]
    BY <1>1
  <2> HIDE DEF more
  <2>5. ASSUME NEW f \in 1..(n + 1) PROVE Beyond(p, more, f) = Beyond(p, fronts, f)
    <3>1. \A g \in 1..(f - 1) : more[g] = fronts[g]
      <4> TAKE g \in 1..(f - 1)
      <4>1. g \in 1..n
        BY <1>1
      <4> QED
        BY <2>4, <4>1
    <3> QED
      BY <3>1 DEF Beyond
  <2>6. ASSUME NEW f \in 1..Len(more)
        PROVE  /\ Range(more[f]) = Free(p, Beyond(p, more, f)) /\ Range(more[f]) # {}
               /\ \A k, l \in 1..Len(more[f]) : more[f][k] = more[f][l] => k = l
    <3>1. Beyond(p, more, f) = Beyond(p, fronts, f)
      BY <2>4, <2>5
    <3>2. CASE f = n + 1
      BY <2>1, <2>2, <2>3, <2>4, <3>1, <3>2
    <3>3. CASE f # n + 1
      <4>1. f \in 1..n /\ more[f] = fronts[f]
        BY <1>1, <2>4, <3>3
      <4> QED
        BY <3>1, <4>1 DEF Layered
    <3> QED
      BY <3>2, <3>3
  <2>7. Layered(p, more)
    BY <2>4, <2>6 DEF Layered
  <2>8. Left(p, more) = left \ Range(u)
    <3>1. Left(p, more) = Beyond(p, more, n + 1 + 1)
      BY <2>4, LeftIsBeyond
    <3>2. Beyond(p, more, n + 1 + 1) = Beyond(p, more, n + 1) \ Range(more[n + 1])
      <4>1. \A g : g \in 1..(n + 1 + 1 - 1) <=> g \in 1..(n + 1 - 1) \/ g = n + 1
        BY <1>1
      <4> QED
        BY <4>1 DEF Beyond
    <3>3. Beyond(p, more, n + 1) = left
      <4>1. n + 1 \in 1..(n + 1)
        BY <1>1
      <4> QED
        BY <2>2, <2>5, <4>1
    <3> QED
      BY <2>4, <3>1, <3>2, <3>3
  <2>9. Range(u) \subseteq left
    BY <2>1 DEF Free
  <2> HIDE DEF left
  <2>10. Left(p, more) \in SUBSET left /\ Left(p, more) # left
    BY <2>1, <2>3, <2>8, <2>9
  <2> QED
    BY <2>1, <2>7, <2>10 DEF more, left
<1> QED
  BY <1>2, <1>3

(* What the sort peels, one turn after the other. *)
PeelsOf(p) ==
  [n \in 1..Len(p) |-> [fronts \in Seq(Seq(1..Len(p))) |-> Peeled(p, fronts)]]

LEMMA SortPeels ==
  ASSUME NEW p \in Seq(Individuals)
  PROVE  \E peel : /\ Iteration(Seq(Seq(1..Len(p))), <<>>, Len(p), PeelsOf(p), peel)
                   /\ FastNonDominatedSort(p) = peel[Len(p)]
<1>0. PICK N \in Nat : N = Len(p)
  OBVIOUS
<1> DEFINE S == Seq(Seq(1..N))
           F == PeelsOf(p)
           none == <<>>
           Is(peel) == peel = [n \in 0..N |-> IF n = 0 THEN <<>> ELSE Peeled(p, peel[n - 1])]
           peel == CHOOSE peel : Is(peel)
<1>1. FastNonDominatedSort(p) = peel[N]
  BY <1>0 DEF FastNonDominatedSort
<1>2. F \in [1..N -> [S -> S]] /\ \A n \in 1..N, x \in S : F[n][x] = Peeled(p, x)
  BY <1>0, PeeledTyped DEF PeelsOf
<1>3. none \in S
  OBVIOUS
<1> HIDE DEF F, S
<1>4. \E g : Iteration(S, none, N, F, g)
  <2> HIDE DEF none
  <2> QED
    BY <1>2, <1>3, Iterates
<1>5. PICK g : Iteration(S, none, N, F, g)
  BY <1>4
<1>6. ASSUME NEW h PROVE Iteration(S, none, N, F, h) => Is(h)
  <2> SUFFICES ASSUME Iteration(S, none, N, F, h) PROVE Is(h)
    OBVIOUS
  <2>1. h \in [0..N -> S] /\ \A n \in 0..N : h[n] = IF n = 0 THEN <<>> ELSE F[n][h[n - 1]]
    BY DEF Iteration
  <2>2. ASSUME NEW n \in 0..N PROVE h[n] = IF n = 0 THEN <<>> ELSE Peeled(p, h[n - 1])
    <3>1. n # 0 => n \in 1..N /\ n - 1 \in 0..N /\ h[n - 1] \in S
      BY <2>1
    <3> QED
      BY <1>2, <2>1, <3>1
  <2> QED
    BY <2>1, <2>2
<1>7. Is(peel)
  <2>1. Is(g)
    BY <1>5, <1>6
  <2> HIDE DEF Is
  <2> QED
    BY <2>1
<1> HIDE DEF peel
<1>8. peel[0] = none /\ \A n \in 0..N : n # N => peel[n + 1] = Peeled(p, peel[n])
  <2>1. ASSUME NEW n \in 0..N, n # N PROVE peel[n + 1] = Peeled(p, peel[n])
    <3>1. n + 1 \in 0..N /\ n + 1 # 0 /\ n + 1 - 1 = n
      BY <2>1
    <3> QED
      BY <1>7, <3>1
  <2> QED
    BY <1>7, <2>1
<1>9. DOMAIN peel = 0..N /\ peel = [n \in 0..N |-> peel[n]]
  BY <1>7
<1> HIDE DEF Is, none
<1> DEFINE G == {n \in 0..N : peel[n] \in S}
<1>10. 0..N \subseteq G
  <2>1. 0 \in G
    BY <1>3, <1>8
  <2>2. \A n \in 0..N : n # N /\ n \in G => n + 1 \in G
    <3> SUFFICES ASSUME NEW n \in 0..N, n # N, peel[n] \in S PROVE n + 1 \in G
      OBVIOUS
    <3>1. n + 1 \in 0..N /\ n + 1 \in 1..N
      OBVIOUS
    <3>2. Peeled(p, peel[n]) = F[n + 1][peel[n]] /\ F[n + 1] \in [S -> S]
      BY <1>2, <3>1
    <3> QED
      BY <1>8, <3>1, <3>2
  <2> HIDE DEF G
  <2> QED
    BY <2>1, <2>2, UpTo
<1>11. Iteration(S, none, N, F, peel)
  <2>1. peel \in [0..N -> S]
    BY <1>9, <1>10
  <2>2. ASSUME NEW n \in 0..N PROVE peel[n] = IF n = 0 THEN none ELSE F[n][peel[n - 1]]
    <3>1. n # 0 => n \in 1..N /\ n - 1 \in 0..N /\ n - 1 # N /\ n - 1 + 1 = n
      OBVIOUS
    <3>2. n # 0 => peel[n] = Peeled(p, peel[n - 1]) /\ peel[n - 1] \in S
      BY <1>8, <2>1, <3>1
    <3> QED
      BY <1>2, <1>8, <3>1, <3>2
  <2> QED
    BY <2>1, <2>2 DEF Iteration
<1> QED
  BY <1>0, <1>1, <1>11 DEF S, F, none

(* The whole sort: layered, and nobody is left.  Every turn leaves fewer,  *)
(* so as many turns as individuals are enough.                             *)
LEMMA FrontsAreLayered ==
  ASSUME NEW p \in Seq(Individuals)
  PROVE  Layered(p, FastNonDominatedSort(p)) /\ Left(p, FastNonDominatedSort(p)) = {}
<1>0. PICK N \in Nat : N = Len(p)
  OBVIOUS
<1>1. PICK peel : /\ Iteration(Seq(Seq(1..N)), <<>>, N, PeelsOf(p), peel)
                  /\ FastNonDominatedSort(p) = peel[N]
  BY <1>0, SortPeels
<1>4. /\ peel[0] = <<>>
      /\ \A n \in 0..N : n # N => peel[n + 1] = Peeled(p, peel[n])
  <2>1. peel[0] = <<>>
    BY <1>1 DEF Iteration
  <2>2. ASSUME NEW n \in 0..N, n # N PROVE peel[n + 1] = Peeled(p, peel[n])
    <3>1. n + 1 \in 0..N /\ n + 1 # 0 /\ n + 1 - 1 = n /\ n + 1 \in 1..N
      BY <2>2
    <3>2. peel[n + 1] = PeelsOf(p)[n + 1][peel[n]] /\ peel[n] \in Seq(Seq(1..N))
      BY <1>1, <3>1 DEF Iteration
    <3> QED
      BY <1>0, <3>1, <3>2 DEF PeelsOf
  <2> QED
    BY <2>1, <2>2
<1> DEFINE G == {n \in 0..N : /\ Layered(p, peel[n])
                              /\ \/ Left(p, peel[n]) = {}
                                 \/ n + Cardinality(Left(p, peel[n])) <= N}
<1>5. ASSUME NEW fronts, Layered(p, fronts)
      PROVE  IsFiniteSet(Left(p, fronts)) /\ Cardinality(Left(p, fronts)) \in Nat
  <2>1. Left(p, fronts) \in SUBSET (1..N)
    BY <1>0, <1>5, LeftIsBeyond DEF Layered
  <2>2. IsFiniteSet(1..N)
    BY FS_Interval
  <2>3. IsFiniteSet(Left(p, fronts))
    BY <2>1, <2>2, FS_Subset
  <2> QED
    BY <2>3, FS_CardinalityType
<1>6. 0 \in G
  <2>1. Layered(p, <<>>)
    BY DEF Layered
  <2>2. Left(p, <<>>) = DOMAIN p
    <3> DEFINE none == <<>>
    <3>1. {Range(none[f]) : f \in DOMAIN none} = {}
      OBVIOUS
    <3>2. Left(p, none) = DOMAIN p \ UNION {Range(none[f]) : f \in DOMAIN none}
      BY DEF Left
    <3> QED
      BY <3>1, <3>2
  <2>3. Cardinality(DOMAIN p) = N
    BY <1>0, Places
  <2> QED
    BY <1>1, <1>4, <2>1, <2>2, <2>3
<1>7. ASSUME NEW n \in 0..N, n # N, n \in G PROVE n + 1 \in G
  <2> DEFINE x == peel[n]
             y == Peeled(p, x)
  <2>1. peel[n + 1] = y /\ Layered(p, x) /\ n + 1 \in 0..N
        /\ (Left(p, x) = {} \/ n + Cardinality(Left(p, x)) <= N)
    BY <1>1, <1>4, <1>7
  <2> HIDE DEF x
  <2>2. Layered(p, y)
    BY <2>1, PeeledLayers
  <2>3. Left(p, y) = {} \/ n + 1 + Cardinality(Left(p, y)) <= N
    <3>1. CASE Left(p, x) = {}
      <4>1. y = x
        BY <2>1, <3>1, PeeledTyped DEF Layered
      <4> QED
        BY <3>1, <4>1
    <3>2. CASE Left(p, x) # {}
      <4>1. Left(p, y) \in SUBSET Left(p, x) /\ Left(p, y) # Left(p, x)
        BY <2>1, <3>2, PeeledLayers
      <4>2. /\ IsFiniteSet(Left(p, x)) /\ Cardinality(Left(p, x)) \in Nat
            /\ Cardinality(Left(p, y)) \in Nat
        BY <1>5, <2>1, <2>2
      <4> HIDE DEF y
      <4>3. /\ Cardinality(Left(p, y)) <= Cardinality(Left(p, x))
            /\ Cardinality(Left(p, x)) # Cardinality(Left(p, y))
        BY <4>1, <4>2, FS_Subset
      <4> QED
        BY <1>1, <2>1, <3>2, <4>2, <4>3
    <3> QED
      BY <3>1, <3>2
  <2> HIDE DEF y
  <2> QED
    BY <2>1, <2>2, <2>3
<1>8. N \in G
  <2> HIDE DEF G
  <2>1. 0..N \subseteq G
    BY <1>1, <1>6, <1>7, UpTo
  <2> QED
    BY <1>1, <2>1
<1>9. Layered(p, peel[N]) /\ (Left(p, peel[N]) = {} \/ N + Cardinality(Left(p, peel[N])) <= N)
  BY <1>8
<1>10. Left(p, peel[N]) = {}
  <2>1. IsFiniteSet(Left(p, peel[N])) /\ Cardinality(Left(p, peel[N])) \in Nat
    BY <1>5, <1>9
  <2>2. Cardinality(Left(p, peel[N])) = 0 => Left(p, peel[N]) = {}
    BY <2>1, FS_EmptySet
  <2> QED
    BY <1>1, <1>9, <2>1, <2>2
<1> QED
  BY <1>1, <1>9, <1>10

-----------------------------------------------------------------------------
(* Everybody has one front, later than those of all who dominate him, and  *)
(* the front just before it has one of these.                              *)

FrontOf(p, i) ==
  CHOOSE f \in DOMAIN FastNonDominatedSort(p) : i \in Range(FastNonDominatedSort(p)[f])

LEMMA FrontsTyped ==
  ASSUME NEW p \in Seq(Individuals)
  PROVE  /\ FastNonDominatedSort(p) \in Seq(Seq(1..Len(p)))
         /\ Len(FastNonDominatedSort(p)) \in Nat
         /\ DOMAIN FastNonDominatedSort(p) = 1..Len(FastNonDominatedSort(p))
         /\ \A f \in 1..Len(FastNonDominatedSort(p)) :
              /\ FastNonDominatedSort(p)[f] \in Seq(1..Len(p))
              /\ Range(FastNonDominatedSort(p)[f]) \subseteq 1..Len(p)
              /\ Len(FastNonDominatedSort(p)[f]) > 0
<1> DEFINE fronts == FastNonDominatedSort(p)
<1>1. Layered(p, fronts)
  BY FrontsAreLayered
<1> HIDE DEF fronts
<1>2. fronts \in Seq(Seq(1..Len(p))) /\ Len(fronts) \in Nat /\ DOMAIN fronts = 1..Len(fronts)
  BY <1>1 DEF Layered
<1>3. ASSUME NEW f \in 1..Len(fronts)
      PROVE  /\ fronts[f] \in Seq(1..Len(p)) /\ Range(fronts[f]) \subseteq 1..Len(p)
             /\ Len(fronts[f]) > 0
  <2>1. fronts[f] \in Seq(1..Len(p))
    BY <1>2
  <2> DEFINE q == fronts[f]
  <2>2. Range(q) # {}
    BY <1>1 DEF Layered
  <2> HIDE DEF q
  <2>3. q \in [1..Len(q) -> 1..Len(p)] /\ Len(q) \in Nat
    BY <2>1 DEF q
  <2>4. Range(q) \subseteq 1..Len(p)
    BY <2>3 DEF Range
  <2>5. Len(q) > 0
    BY <2>2, <2>3 DEF Range
  <2> QED
    BY <2>1, <2>4, <2>5 DEF q
<1> QED
  BY <1>2, <1>3 DEF fronts

LEMMA OneFrontEach ==
  ASSUME NEW p \in Seq(Individuals), NEW i \in 1..Len(p)
  PROVE  /\ FrontOf(p, i) \in 1..Len(FastNonDominatedSort(p))
         /\ i \in Range(FastNonDominatedSort(p)[FrontOf(p, i)])
         /\ \A f \in 1..Len(FastNonDominatedSort(p)) :
              i \in Range(FastNonDominatedSort(p)[f]) => f = FrontOf(p, i)
<1> DEFINE fronts == FastNonDominatedSort(p)
<1>1. Layered(p, fronts) /\ Left(p, fronts) = {}
  BY FrontsAreLayered
<1>2. /\ DOMAIN fronts = 1..Len(fronts) /\ Len(fronts) \in Nat
      /\ FrontOf(p, i) = CHOOSE f \in 1..Len(fronts) : i \in Range(fronts[f])
  BY FrontsTyped DEF FrontOf
<1> HIDE DEF fronts
<1>3. \E f \in 1..Len(fronts) : i \in Range(fronts[f])
  <2>1. DOMAIN p = 1..Len(p)
    OBVIOUS
  <2>2. i \in UNION {Range(fronts[f]) : f \in DOMAIN fronts}
    BY <1>1, <2>1 DEF Left
  <2> QED
    BY <1>2, <2>2
<1>4. ASSUME NEW f \in 1..Len(fronts), NEW g \in 1..Len(fronts), f < g,
             i \in Range(fronts[f]), i \in Range(fronts[g])
      PROVE  FALSE
  <2>1. i \in Beyond(p, fronts, g)
    BY <1>1, <1>4 DEF Layered, Free
  <2>2. f \in 1..(g - 1)
    BY <1>2, <1>4
  <2> QED
    BY <1>4, <2>1, <2>2 DEF Beyond
<1>5. FrontOf(p, i) \in 1..Len(fronts) /\ i \in Range(fronts[FrontOf(p, i)])
  BY <1>2, <1>3
<1>6. ASSUME NEW f \in 1..Len(fronts), i \in Range(fronts[f]) PROVE f = FrontOf(p, i)
  <2>1. f < FrontOf(p, i) \/ f > FrontOf(p, i) \/ f = FrontOf(p, i)
    BY <1>2, <1>5
  <2> QED
    BY <1>4, <1>5, <1>6, <2>1
<1> QED
  BY <1>5, <1>6 DEF fronts

LEMMA DominatorsBefore ==
  ASSUME NEW p \in Seq(Individuals), NEW i \in 1..Len(p)
  PROVE  /\ \A j \in 1..Len(p) : Dominates(p[j], p[i]) => FrontOf(p, j) < FrontOf(p, i)
         /\ FrontOf(p, i) # 1 => \E j \in 1..Len(p) : /\ Dominates(p[j], p[i])
                                                      /\ FrontOf(p, j) = FrontOf(p, i) - 1
<1> DEFINE fronts == FastNonDominatedSort(p)
           f == FrontOf(p, i)
<1>1. Layered(p, fronts)
  BY FrontsAreLayered
<1>2. f \in 1..Len(fronts) /\ Len(fronts) \in Nat /\ i \in Range(fronts[f])
  BY OneFrontEach, FrontsTyped
<1>3. i \in Free(p, Beyond(p, fronts, f))
  BY <1>1, <1>2 DEF Layered
<1>4. ASSUME NEW j \in 1..Len(p), NEW g \in 1..Len(fronts)
      PROVE  j \in Beyond(p, fronts, g) <=> FrontOf(p, j) >= g
  <2>1. FrontOf(p, j) \in 1..Len(fronts)
    BY OneFrontEach
  <2>2. CASE FrontOf(p, j) >= g
    <3>1. ASSUME NEW h \in 1..(g - 1) PROVE j \notin Range(fronts[h])
      <4>1. h \in 1..Len(fronts) /\ h # FrontOf(p, j)
        BY <1>2, <2>1, <2>2
      <4> QED
        BY <4>1, OneFrontEach
    <3> QED
      BY <2>2, <3>1 DEF Beyond
  <2>3. CASE FrontOf(p, j) < g
    <3>1. FrontOf(p, j) \in 1..(g - 1)
      BY <1>2, <2>1, <2>3
    <3>2. j \in Range(fronts[FrontOf(p, j)])
      BY OneFrontEach
    <3>3. ~(FrontOf(p, j) >= g)
      BY <1>2, <2>1, <2>3
    <3> QED
      BY <3>1, <3>2, <3>3 DEF Beyond
  <2> QED
    BY <1>2, <2>1, <2>2, <2>3
<1> HIDE DEF fronts, f
<1>5. ASSUME NEW j \in 1..Len(p), Dominates(p[j], p[i]) PROVE FrontOf(p, j) < f
  <2>1. j \notin Beyond(p, fronts, f)
    BY <1>3, <1>5 DEF Free
  <2>2. FrontOf(p, j) \in 1..Len(fronts)
    BY OneFrontEach DEF fronts
  <2> QED
    BY <1>2, <1>4, <2>1, <2>2
<1>6. ASSUME f # 1
      PROVE  \E j \in 1..Len(p) : Dominates(p[j], p[i]) /\ FrontOf(p, j) = f - 1
  <2>1. f - 1 \in 1..Len(fronts)
    BY <1>2, <1>6
  <2>2. i \notin Range(fronts[f - 1])
    <3>1. f - 1 # f
      BY <1>2
    <3> QED
      BY <2>1, <3>1, OneFrontEach DEF f, fronts
  <2>3. i \notin Free(p, Beyond(p, fronts, f - 1))
    BY <1>1, <2>1, <2>2 DEF Layered
  <2>4. i \in Beyond(p, fronts, f - 1)
    <3>1. f >= f - 1
      BY <1>2
    <3> QED
      BY <1>4, <2>1, <3>1 DEF f
  <2>5. PICK j \in Beyond(p, fronts, f - 1) : Dominates(p[j], p[i])
    BY <2>3, <2>4 DEF Free
  <2>6. j \in 1..Len(p)
    BY DEF Beyond
  <2>7. FrontOf(p, j) >= f - 1 /\ FrontOf(p, j) < f /\ FrontOf(p, j) \in 1..Len(fronts)
    <3>1. FrontOf(p, j) >= f - 1
      BY <1>4, <2>1, <2>6
    <3>2. FrontOf(p, j) \in 1..Len(fronts)
      BY <2>6, OneFrontEach DEF fronts
    <3> QED
      BY <1>5, <2>5, <2>6, <3>1, <3>2
  <2>8. FrontOf(p, j) = f - 1
    BY <1>2, <2>7
  <2> QED
    BY <2>5, <2>6, <2>8
<1> QED
  BY <1>5, <1>6 DEF f

-----------------------------------------------------------------------------
(* Crowding is a number, and ranking changes the rank and it alone.        *)

LEMMA GapIsInt ==
  ASSUME NEW gap \in Int, NEW span \in Int
  PROVE  Gap(gap, span) \in Int
<1>1. Unit * gap \in Int
  BY SearchAssumption
<1> DEFINE x == Unit * gap
<1> HIDE DEF x
<1>2. span > 0 => x \div span \in Int
  BY <1>1 DEF x
<1> QED
  BY <1>2 DEF Gap, x

LEMMA AlongLists ==
  ASSUME NEW p \in Seq(Individuals), NEW front \in Seq(1..Len(p)), NEW m \in Objectives
  PROVE  /\ Along(p, front, m) \in Seq(1..Len(p)) /\ Len(Along(p, front, m)) = Len(front)
         /\ \A k \in 1..Len(front) : p[Along(p, front, m)[k]].obj[m] \in Int
         /\ \A i \in Range(front) : \E k \in 1..Len(front) : Along(p, front, m)[k] = i
<1> DEFINE key == [k \in DOMAIN front |-> p[front[k]].obj[m]]
<1>1. DOMAIN front = 1..Len(front)
  OBVIOUS
<1>2. key \in [1..Len(front) -> Int]
  <2>1. ASSUME NEW k \in 1..Len(front) PROVE p[front[k]].obj[m] \in Int
    BY SenseIsInt
  <2> QED
    BY <1>1, <2>1
<1>3. Along(p, front, m) = Sorted(front, key)
  BY DEF Along
<1> HIDE DEF key
<1>4. /\ Along(p, front, m) \in Seq(1..Len(p)) /\ Len(Along(p, front, m)) = Len(front)
      /\ \A l \in 1..Len(front) : \E k \in 1..Len(front) : Along(p, front, m)[k] = front[l]
  <2> DEFINE T == 1..Len(p)
  <2>1. front \in Seq(T)
    OBVIOUS
  <2> HIDE DEF T
  <2>2. /\ Sorted(front, key) \in Seq(T) /\ Len(Sorted(front, key)) = Len(front)
        /\ \A l \in 1..Len(front) : \E k \in 1..Len(front) : Sorted(front, key)[k] = front[l]
    BY <1>2, <2>1, SortedKeeps
  <2> QED
    BY <1>3, <2>2 DEF T
<1>5. ASSUME NEW k \in 1..Len(front) PROVE p[Along(p, front, m)[k]].obj[m] \in Int
  <2>1. Along(p, front, m)[k] \in 1..Len(p)
    <3> DEFINE q == Along(p, front, m)
    <3>1. q \in Seq(1..Len(p)) /\ Len(q) = Len(front)
      BY <1>4
    <3> HIDE DEF q
    <3>2. q[k] \in 1..Len(p)
      BY <3>1
    <3> QED
      BY <3>2 DEF q
  <2>2. p[Along(p, front, m)[k]] \in Individuals
    BY <2>1
  <2> QED
    BY <2>2, SenseIsInt
<1>6. ASSUME NEW i \in Range(front) PROVE \E k \in 1..Len(front) : Along(p, front, m)[k] = i
  <2>1. PICK l \in 1..Len(front) : front[l] = i
    BY <1>1 DEF Range
  <2> QED
    BY <1>4, <2>1
<1> QED
  BY <1>4, <1>5, <1>6

LEMMA CrowdingIsInt ==
  ASSUME NEW p \in Seq(Individuals), NEW front \in Seq(1..Len(p)), NEW i \in Range(front)
  PROVE  Crowding(p, front)[i] \in Int
<1> DEFINE idx == <<Along(p, front, 1), Along(p, front, 2), Along(p, front, 3)>>
           at == [m \in Objectives |-> CHOOSE k \in DOMAIN front : idx[m][k] = i]
           obj(m, k) == p[idx[m][k]].obj[m]
           gap(m) == Gap(obj(m, at[m] + 1) - obj(m, at[m] - 1), obj(m, Len(front)) - obj(m, 1))
           edge == Len(front) <= 2 \/ \E m \in Objectives : at[m] \in {1, Len(front)}
<1>1. Crowding(p, front)[i] = IF edge THEN Boundless ELSE gap(1) + gap(2) + gap(3)
  BY DEF Crowding
<1>2. DOMAIN front = 1..Len(front) /\ Len(front) \in Nat
  OBVIOUS
<1>3. \A m \in Objectives : idx[m] = Along(p, front, m)
  BY DEF Objectives
<1> HIDE DEF idx
<1>4. ASSUME NEW m \in Objectives, ~edge PROVE gap(m) \in Int
  <2>1. \E k \in 1..Len(front) : idx[m][k] = i
    <3>1. \A j \in Range(front) : \E k \in 1..Len(front) : Along(p, front, m)[k] = j
      BY AlongLists
    <3> QED
      BY <1>3, <3>1
  <2>2. at[m] \in 1..Len(front)
    BY <1>2, <2>1
  <2>3. at[m] # 1 /\ at[m] # Len(front)
    BY <1>4
  <2> HIDE DEF at
  <2>4. /\ at[m] + 1 \in 1..Len(front) /\ at[m] - 1 \in 1..Len(front)
        /\ Len(front) \in 1..Len(front) /\ 1 \in 1..Len(front)
    BY <1>2, <2>2, <2>3
  <2>5. \A k \in 1..Len(front) : obj(m, k) \in Int
    BY <1>3, AlongLists
  <2> HIDE DEF obj
  <2>6. /\ obj(m, at[m] + 1) - obj(m, at[m] - 1) \in Int
        /\ obj(m, Len(front)) - obj(m, 1) \in Int
    <3>1. /\ obj(m, at[m] + 1) \in Int /\ obj(m, at[m] - 1) \in Int
          /\ obj(m, Len(front)) \in Int /\ obj(m, 1) \in Int
      BY <2>4, <2>5, Zenon
    <3>2. PICK a, b, c, d \in Int : /\ a = obj(m, at[m] + 1) /\ b = obj(m, at[m] - 1)
                                   /\ c = obj(m, Len(front)) /\ d = obj(m, 1)
      BY <3>1
    <3> QED
      BY <3>2
  <2> QED
    BY <2>6, GapIsInt
<1> HIDE DEF gap
<1>5. ~edge => gap(1) + gap(2) + gap(3) \in Int
  <2>1. ~edge => gap(1) \in Int /\ gap(2) \in Int /\ gap(3) \in Int
    BY <1>4 DEF Objectives
  <2> QED
    BY <2>1
<1> QED
  BY <1>1, <1>5 DEF Boundless

LEMMA RankedTyped ==
  ASSUME NEW p \in Seq(Individuals)
  PROVE  /\ Ranked(p) \in Seq(Individuals) /\ Len(Ranked(p)) = Len(p)
         /\ \A i \in 1..Len(p) :
              /\ Ranked(p)[i].seg = p[i].seg /\ Ranked(p)[i].obj = p[i].obj
              /\ Ranked(p)[i].stranded = p[i].stranded
              /\ Ranked(p)[i].saturated = p[i].saturated
              /\ Ranked(p)[i].cost = p[i].cost
              /\ Ranked(p)[i].rank = FrontOf(p, i) - 1
<1> DEFINE fronts == FastNonDominatedSort(p)
           crowd(i) == Crowding(p, fronts[FrontOf(p, i)])[i]
<1>1. DOMAIN p = 1..Len(p) /\ Len(p) \in Nat /\ DOMAIN fronts = 1..Len(fronts)
      /\ Len(fronts) \in Nat
  BY FrontsTyped
<1>2. \A i \in 1..Len(p) : FrontOf(p, i) \in 1..Len(fronts)
  BY OneFrontEach
<1>3. Ranked(p) = [i \in 1..Len(p) |-> [p[i] EXCEPT !.rank = FrontOf(p, i) - 1, !.crowd = crowd(i)]]
  <2>1. Ranked(p) = [i \in DOMAIN p |->
          [p[i] EXCEPT !.rank = FrontOf(p, i) - 1,
                       !.crowd = [f \in DOMAIN fronts |-> Crowding(p, fronts[f])][FrontOf(p, i)][i]]]
    BY DEF Ranked, FrontOf
  <2> HIDE DEF fronts
  <2> QED
    BY <1>1, <1>2, <2>1 DEF fronts
<1>4. ASSUME NEW i \in 1..Len(p) PROVE crowd(i) \in Int
  <2>1. fronts[FrontOf(p, i)] \in Seq(1..Len(p)) /\ i \in Range(fronts[FrontOf(p, i)])
    BY <1>2, FrontsTyped, OneFrontEach
  <2> QED
    BY <2>1, CrowdingIsInt
<1> HIDE DEF crowd
<1>5. ASSUME NEW i \in 1..Len(p)
      PROVE  /\ Ranked(p)[i] \in Individuals
             /\ Ranked(p)[i].seg = p[i].seg /\ Ranked(p)[i].obj = p[i].obj
             /\ Ranked(p)[i].stranded = p[i].stranded
             /\ Ranked(p)[i].saturated = p[i].saturated
             /\ Ranked(p)[i].cost = p[i].cost
             /\ Ranked(p)[i].rank = FrontOf(p, i) - 1
  <2>1. /\ Ranked(p)[i] = [p[i] EXCEPT !.rank = FrontOf(p, i) - 1, !.crowd = crowd(i)]
        /\ p[i] \in Individuals /\ FrontOf(p, i) - 1 \in Int /\ crowd(i) \in Int
    <3>1. p[i] \in Individuals
      OBVIOUS
    <3>2. FrontOf(p, i) \in Int
      BY <1>1, <1>2
    <3> QED
      <4>1. Ranked(p)[i] = [p[i] EXCEPT !.rank = FrontOf(p, i) - 1, !.crowd = crowd(i)]
        BY <1>3
      <4> QED
        BY <1>4, <3>1, <3>2, <4>1
  <2> QED
    BY <2>1 DEF Individuals
<1>6. Ranked(p) \in [1..Len(p) -> Individuals]
  BY <1>3, <1>5
<1>7. Ranked(p) \in Seq(Individuals) /\ Len(Ranked(p)) = Len(p)
  BY <1>1, <1>6, FunctionIsSeq
<1> QED
  BY <1>5, <1>7

LEMMA FiniteImage ==
  ASSUME NEW S, IsFiniteSet(S), NEW f, DOMAIN f = S, f = [x \in S |-> f[x]]
  PROVE  IsFiniteSet({f[x] : x \in S})
<1>1. f \in Surjection(S, {f[x] : x \in S})
  BY DEF Surjection
<1> QED
  BY <1>1, FS_Surjection

(* The rank is the depth in the dominance order. *)
Depths(p) ==
  LET rank(i) == Ranked(p)[i].rank
      over(i) == {j \in DOMAIN p : Dominates(p[j], p[i])}
  IN  \A i \in DOMAIN p :
        rank(i) = IF over(i) = {} THEN 0 ELSE 1 + Max({rank(j) : j \in over(i)})

LEMMA RanksAreDepths ==
  ASSUME NEW p \in Seq(Individuals)
  PROVE  Depths(p)
<1> DEFINE rank(i) == Ranked(p)[i].rank
           over(i) == {j \in DOMAIN p : Dominates(p[j], p[i])}
<1>1. DOMAIN p = 1..Len(p) /\ Len(p) \in Nat
  OBVIOUS
<1>2. \A i \in 1..Len(p) : rank(i) = FrontOf(p, i) - 1 /\ FrontOf(p, i) \in Nat \ {0}
  <2>1. \A i \in 1..Len(p) : FrontOf(p, i) \in 1..Len(FastNonDominatedSort(p))
    BY OneFrontEach
  <2> QED
    BY <2>1, RankedTyped
<1> HIDE DEF rank
<1>3. ASSUME NEW i \in 1..Len(p)
      PROVE  rank(i) = IF over(i) = {} THEN 0 ELSE 1 + Max({rank(j) : j \in over(i)})
  <2> DEFINE ranks == {rank(j) : j \in over(i)}
  <2>1. over(i) \in SUBSET (1..Len(p)) /\ IsFiniteSet(over(i))
    <3>1. over(i) \in SUBSET (1..Len(p)) /\ IsFiniteSet(1..Len(p))
      BY <1>1, FS_Interval
    <3> HIDE DEF over
    <3> QED
      BY <3>1, FS_Subset
  <2>2. CASE over(i) = {}
    <3>1. FrontOf(p, i) = 1
      BY <1>1, <2>2, DominatorsBefore
    <3> QED
      BY <1>2, <2>2, <3>1
  <2>3. CASE over(i) # {}
    <3>1. \A j \in over(i) : rank(j) \in Int /\ rank(j) <= rank(i) - 1
      <4>1. \A j \in over(i) : FrontOf(p, j) < FrontOf(p, i) /\ j \in 1..Len(p)
        BY <1>1, DominatorsBefore
      <4> QED
        BY <1>2, <4>1
    <3>2. FrontOf(p, i) # 1
      <4>1. PICK j \in over(i) : TRUE
        BY <2>3
      <4>2. rank(j) <= rank(i) - 1 /\ j \in 1..Len(p)
        BY <3>1, <4>1, <2>1
      <4> QED
        BY <1>2, <4>2
    <3>3. PICK last \in over(i) : rank(last) = rank(i) - 1
      <4>1. PICK j \in 1..Len(p) : Dominates(p[j], p[i]) /\ FrontOf(p, j) = FrontOf(p, i) - 1
        BY <3>2, DominatorsBefore
      <4>2. j \in over(i)
        BY <1>1, <4>1
      <4>3. rank(j) = rank(i) - 1
        BY <1>2, <4>1
      <4> QED
        BY <4>2, <4>3
    <3> HIDE DEF over
    <3>4. ranks \in SUBSET Int /\ IsFiniteSet(ranks) /\ ranks # {}
      <4>1. IsFiniteSet(ranks)
        <5> DEFINE f == [j \in over(i) |-> rank(j)]
        <5>1. IsFiniteSet({f[j] : j \in over(i)})
          <6>1. DOMAIN f = over(i) /\ f = [j \in over(i) |-> f[j]]
            OBVIOUS
          <6> HIDE DEF f
          <6> QED
            BY <2>1, <6>1, FiniteImage
        <5>2. {f[j] : j \in over(i)} = ranks
          OBVIOUS
        <5> QED
          BY <5>1, <5>2
      <4> QED
        BY <2>3, <3>1, <4>1
    <3>5. rank(i) - 1 \in ranks
      BY <3>3
    <3>6. \A x \in ranks : x <= rank(i) - 1
      BY <3>1
    <3> HIDE DEF ranks
    <3>7. Max(ranks) \in ranks /\ rank(i) - 1 <= Max(ranks)
      BY <3>4, <3>5, Extremes
    <3>8. Max(ranks) = rank(i) - 1
      <4>1. Max(ranks) \in Int /\ Max(ranks) <= rank(i) - 1
        BY <3>4, <3>6, <3>7
      <4>2. rank(i) \in Int
        BY <1>2
      <4> QED
        BY <3>7, <4>1, <4>2
    <3>9. rank(i) = 1 + Max(ranks)
      BY <1>2, <3>8
    <3> QED
      BY <2>3, <3>9 DEF ranks
  <2> QED
    BY <2>2, <2>3
<1>4. \A i \in DOMAIN p : rank(i) = IF over(i) = {} THEN 0 ELSE 1 + Max({rank(j) : j \in over(i)})
  BY <1>1, <1>3
<1> QED
  BY <1>4 DEF Depths, rank

-----------------------------------------------------------------------------
(* Survivors are whole fronts and a part of the next one.                  *)

LEMMA RangeOfConcat ==
  ASSUME NEW T, NEW s \in Seq(T), NEW t \in Seq(T)
  PROVE  /\ s \o t \in Seq(T) /\ Len(s \o t) = Len(s) + Len(t)
         /\ Range(s \o t) = Range(s) \cup Range(t)
<1> DEFINE st == s \o t
<1>1. /\ st \in Seq(T) /\ Len(st) = Len(s) + Len(t) /\ DOMAIN st = 1..(Len(s) + Len(t))
      /\ DOMAIN s = 1..Len(s) /\ DOMAIN t = 1..Len(t) /\ Len(s) \in Nat /\ Len(t) \in Nat
      /\ \A k \in 1..Len(s) : st[k] = s[k]
      /\ \A k \in 1..Len(t) : st[Len(s) + k] = t[k]
  OBVIOUS
<1> HIDE DEF st
<1>2. ASSUME NEW x, x \in Range(st) PROVE x \in Range(s) \cup Range(t)
  <2>1. PICK k \in 1..(Len(s) + Len(t)) : st[k] = x
    BY <1>1, <1>2 DEF Range
  <2>2. CASE k <= Len(s)
    <3>1. k \in 1..Len(s)
      BY <1>1, <2>2
    <3> QED
      BY <1>1, <2>1, <3>1 DEF Range
  <2>3. CASE k > Len(s)
    <3>1. k - Len(s) \in 1..Len(t) /\ Len(s) + (k - Len(s)) = k
      BY <1>1, <2>3
    <3> QED
      BY <1>1, <2>1, <3>1 DEF Range
  <2> QED
    BY <1>1, <2>2, <2>3
<1>3. ASSUME NEW x, x \in Range(s) PROVE x \in Range(st)
  <2>1. PICK k \in 1..Len(s) : s[k] = x
    BY <1>1, <1>3 DEF Range
  <2>2. k \in DOMAIN st /\ st[k] = x
    BY <1>1, <2>1
  <2> QED
    BY <2>2 DEF Range
<1>4. ASSUME NEW x, x \in Range(t) PROVE x \in Range(st)
  <2>1. PICK k \in 1..Len(t) : t[k] = x
    BY <1>1, <1>4 DEF Range
  <2>2. Len(s) + k \in DOMAIN st /\ st[Len(s) + k] = x
    BY <1>1, <2>1
  <2> QED
    BY <2>2 DEF Range
<1>5. Range(st) = Range(s) \cup Range(t)
  BY <1>2, <1>3, <1>4
<1> QED
  BY <1>1, <1>5 DEF st

LEMMA SpreadKeeps ==
  ASSUME NEW p \in Seq(Individuals), NEW front \in Seq(1..Len(p))
  PROVE  /\ Spread(p, front) \in Seq(1..Len(p)) /\ Len(Spread(p, front)) = Len(front)
         /\ Range(Spread(p, front)) \subseteq Range(front)
<1> DEFINE T == 1..Len(p)
           key == [k \in 1..Len(front) |-> -Crowding(p, front)[front[k]]]
<1>1. DOMAIN front = 1..Len(front) /\ Len(front) \in Nat
  OBVIOUS
<1>2. Spread(p, front) = Sorted(front, key)
  BY <1>1 DEF Spread
<1>3. key \in [1..Len(front) -> Int]
  <2>1. ASSUME NEW k \in 1..Len(front) PROVE Crowding(p, front)[front[k]] \in Int
    <3>1. front[k] \in Range(front)
      BY <1>1 DEF Range
    <3> QED
      BY <3>1, CrowdingIsInt
  <2> QED
    BY <2>1
<1>4. front \in Seq(T)
  OBVIOUS
<1> HIDE DEF T, key
<1> DEFINE spread == Spread(p, front)
<1>5. /\ spread \in Seq(T) /\ Len(spread) = Len(front)
      /\ \A k \in 1..Len(front) : \E l \in 1..Len(front) : spread[k] = front[l]
  BY <1>2, <1>3, <1>4, SortedKeeps
<1> HIDE DEF spread
<1>6. DOMAIN spread = 1..Len(front)
  BY <1>5
<1>7. Range(spread) \subseteq Range(front)
  BY <1>1, <1>5, <1>6 DEF Range
<1> QED
  BY <1>5, <1>7 DEF spread, T

(* The first so many of a sequence. *)
LEMMA StartOf ==
  ASSUME NEW T, NEW s \in Seq(T), NEW room \in Nat, room <= Len(s)
  PROVE  /\ SubSeq(s, 1, room) \in Seq(T) /\ Len(SubSeq(s, 1, room)) = room
         /\ Range(SubSeq(s, 1, room)) \subseteq Range(s)
<1> DEFINE u == SubSeq(s, 1, room)
<1>1. /\ u \in Seq(T) /\ Len(u) = room /\ DOMAIN u = 1..room /\ DOMAIN s = 1..Len(s)
      /\ Len(s) \in Nat /\ \A k \in 1..room : u[k] = s[k]
  BY SubSeqProperties
<1> HIDE DEF u
<1>2. \A k \in 1..room : k \in 1..Len(s)
  BY <1>1
<1>3. Range(u) \subseteq Range(s)
  BY <1>1, <1>2 DEF Range
<1> QED
  BY <1>1, <1>3 DEF u

LEMMA FilledTakes ==
  ASSUME NEW p \in Seq(Individuals), NEW taken \in Seq(1..Len(p)), NEW front \in Seq(1..Len(p)),
         size \in Nat, Len(taken) <= size
  PROVE  /\ Filled(p, taken, front) \in Seq(1..Len(p)) /\ Len(Filled(p, taken, front)) <= size
         /\ Range(taken) \subseteq Range(Filled(p, taken, front))
         /\ Range(Filled(p, taken, front)) \subseteq Range(taken) \cup Range(front)
         /\ Len(front) <= size - Len(taken) =>
              Range(Filled(p, taken, front)) = Range(taken) \cup Range(front)
         /\ Len(front) > size - Len(taken) => Len(Filled(p, taken, front)) = size
         /\ Len(front) > 0 /\ Len(taken) = size => Range(Filled(p, taken, front)) = Range(taken)
<1> DEFINE T == 1..Len(p)
           room == size - Len(taken)
           start == SubSeq(Spread(p, front), 1, room)
<1>1. Filled(p, taken, front) = taken \o IF Len(front) <= room THEN front ELSE start
  BY DEF Filled
<1>2. /\ taken \in Seq(T) /\ front \in Seq(T) /\ room \in Nat /\ Len(front) \in Nat
      /\ Len(taken) \in Nat
  OBVIOUS
<1>3. Len(front) > room =>
        start \in Seq(T) /\ Len(start) = room /\ Range(start) \subseteq Range(front)
  <2>1. Spread(p, front) \in Seq(T) /\ Len(Spread(p, front)) = Len(front)
        /\ Range(Spread(p, front)) \subseteq Range(front)
    BY SpreadKeeps
  <2> HIDE DEF T, room
  <2>2. Len(front) > room => start \in Seq(T) /\ Len(start) = room
                             /\ Range(start) \subseteq Range(Spread(p, front))
    BY <1>2, <2>1, StartOf
  <2> QED
    BY <2>1, <2>2
<1>4. room + Len(taken) = size /\ (Len(taken) = size => room = 0)
  BY <1>2
<1> HIDE DEF T, room, start
<1>5. CASE Len(front) <= room
  <2>1. Filled(p, taken, front) = taken \o front
    BY <1>1, <1>5
  <2>2. /\ taken \o front \in Seq(T) /\ Len(taken \o front) = Len(taken) + Len(front)
        /\ Range(taken \o front) = Range(taken) \cup Range(front)
    BY <1>2, RangeOfConcat
  <2>3. Len(taken) + Len(front) <= size
    BY <1>2, <1>4, <1>5
  <2>4. ~(Len(front) > room) /\ ~(Len(front) > 0 /\ Len(taken) = size)
    BY <1>2, <1>4, <1>5
  <2> QED
    BY <2>1, <2>2, <2>3, <2>4 DEF T, room
<1>6. CASE Len(front) > room
  <2>1. Filled(p, taken, front) = taken \o start
    BY <1>1, <1>2, <1>6
  <2>2. /\ taken \o start \in Seq(T) /\ Len(taken \o start) = Len(taken) + Len(start)
        /\ Range(taken \o start) = Range(taken) \cup Range(start)
    BY <1>2, <1>3, <1>6, RangeOfConcat
  <2>3. Len(taken) + Len(start) = size
    <3>1. Len(start) = room
      BY <1>3, <1>6
    <3> QED
      BY <1>2, <1>4, <3>1
  <2>4. Len(taken) = size => Range(start) = {}
    <3>1. Len(taken) = size => Len(start) = 0
      BY <1>3, <1>4, <1>6
    <3>2. Len(taken) = size => DOMAIN start = {}
      BY <1>3, <1>6, <3>1
    <3> QED
      BY <3>2 DEF Range
  <2>5. ~(Len(front) <= room)
    BY <1>2, <1>6
  <2> QED
    BY <1>3, <1>6, <2>1, <2>2, <2>3, <2>4, <2>5 DEF T, room
<1> QED
  BY <1>2, <1>5, <1>6

(* What of p is taken when the fronts up to n have been looked at: whole   *)
(* fronts up to some F and perhaps a part of the next; until size are      *)
(* taken, these are all the fronts so far.                                 *)
TakenUpTo(p, n, t) ==
  /\ t \in Seq(1..Len(p)) /\ Len(t) <= size
  /\ \E F \in 0..n :
       /\ \A i \in 1..Len(p) : FrontOf(p, i) <= F => i \in Range(t)
       /\ \A i \in 1..Len(p) : i \in Range(t) => FrontOf(p, i) <= F + 1
       /\ Len(t) = size \/ (F = n /\ \A i \in 1..Len(p) : i \in Range(t) => FrontOf(p, i) <= F)

LEMMA FilledKeepsWhole ==
  ASSUME NEW p \in Seq(Individuals), size \in Nat, NEW n \in Nat,
         n + 1 \in 1..Len(FastNonDominatedSort(p)), NEW t, TakenUpTo(p, n, t)
  PROVE  TakenUpTo(p, n + 1, Filled(p, t, FastNonDominatedSort(p)[n + 1]))
<1> DEFINE front == FastNonDominatedSort(p)[n + 1]
           r == Filled(p, t, front)
<1>1. /\ front \in Seq(1..Len(p)) /\ Len(front) > 0 /\ Range(front) \subseteq 1..Len(p)
      /\ Len(front) \in Nat
  <2>1. front \in Seq(1..Len(p)) /\ Len(front) > 0 /\ Range(front) \subseteq 1..Len(p)
    BY FrontsTyped
  <2> HIDE DEF front
  <2> QED
    BY <2>1
<1>2. \A i \in 1..Len(p) : i \in Range(front) <=> FrontOf(p, i) = n + 1
  BY OneFrontEach
<1>3. \A i \in 1..Len(p) : FrontOf(p, i) \in Int
  <2>1. \A i \in 1..Len(p) : FrontOf(p, i) \in 1..Len(FastNonDominatedSort(p))
    BY OneFrontEach
  <2> QED
    BY <2>1, FrontsTyped
<1>4. t \in Seq(1..Len(p)) /\ Len(t) <= size /\ Len(t) \in Nat
  BY DEF TakenUpTo
<1> HIDE DEF front
<1>5. /\ r \in Seq(1..Len(p)) /\ Len(r) <= size
      /\ Range(t) \subseteq Range(r) /\ Range(r) \subseteq Range(t) \cup Range(front)
      /\ Len(front) <= size - Len(t) => Range(r) = Range(t) \cup Range(front)
      /\ Len(front) > size - Len(t) => Len(r) = size
      /\ Len(front) > 0 /\ Len(t) = size => Range(r) = Range(t)
  BY <1>1, <1>4, FilledTakes
<1> HIDE DEF r
<1>6. PICK F \in 0..n :
        /\ \A i \in 1..Len(p) : FrontOf(p, i) <= F => i \in Range(t)
        /\ \A i \in 1..Len(p) : i \in Range(t) => FrontOf(p, i) <= F + 1
        /\ Len(t) = size \/ (F = n /\ \A i \in 1..Len(p) : i \in Range(t) => FrontOf(p, i) <= F)
  BY DEF TakenUpTo
<1>7. F \in 0..(n + 1) /\ n + 1 \in 0..(n + 1) /\ F \in Int
  OBVIOUS
<1>8. \E G \in 0..(n + 1) :
        /\ \A i \in 1..Len(p) : FrontOf(p, i) <= G => i \in Range(r)
        /\ \A i \in 1..Len(p) : i \in Range(r) => FrontOf(p, i) <= G + 1
        /\ \/ Len(r) = size
           \/ G = n + 1 /\ \A i \in 1..Len(p) : i \in Range(r) => FrontOf(p, i) <= G
  <2>1. CASE Len(t) = size
    <3>1. Range(r) = Range(t) /\ Len(r) = size
      <4>1. Len(front) > size - Len(t)
        BY <1>1, <1>4, <2>1
      <4> QED
        BY <1>1, <1>5, <2>1, <4>1
    <3> QED
      BY <1>6, <1>7, <3>1
  <2>2. CASE Len(t) # size /\ Len(front) <= size - Len(t)
    <3>1. Range(r) = Range(t) \cup Range(front) /\ F = n
          /\ \A i \in 1..Len(p) : i \in Range(t) => FrontOf(p, i) <= n
      BY <1>5, <1>6, <2>2
    <3>2. ASSUME NEW i \in 1..Len(p) PROVE i \in Range(r) <=> FrontOf(p, i) <= n + 1
      <4>1. FrontOf(p, i) <= n + 1 <=> FrontOf(p, i) <= n \/ FrontOf(p, i) = n + 1
        BY <1>3
      <4>2. i \in Range(t) <=> FrontOf(p, i) <= n
        BY <1>6, <3>1
      <4> QED
        BY <1>2, <3>1, <4>1, <4>2
    <3>3. \A i \in 1..Len(p) : FrontOf(p, i) <= n + 1 => FrontOf(p, i) <= n + 1 + 1
      BY <1>3
    <3> QED
      BY <1>7, <3>2, <3>3
  <2>3. CASE Len(t) # size /\ ~(Len(front) <= size - Len(t))
    <3>1. Len(r) = size /\ F = n
      <4>1. Len(front) > size - Len(t)
        BY <1>1, <1>4, <2>3
      <4> QED
        BY <1>5, <1>6, <2>3, <4>1
    <3>2. ASSUME NEW i \in 1..Len(p), i \in Range(r) PROVE FrontOf(p, i) <= n + 1
      <4>1. i \in Range(t) \/ i \in Range(front)
        BY <1>5, <3>2
      <4> QED
        BY <1>2, <1>3, <1>6, <3>1, <4>1
    <3>3. \A i \in 1..Len(p) : FrontOf(p, i) <= n => i \in Range(r)
      BY <1>5, <1>6, <3>1
    <3> QED
      BY <1>7, <3>1, <3>2, <3>3
  <2> QED
    BY <2>1, <2>2, <2>3
<1> QED
  BY <1>5, <1>8 DEF TakenUpTo, r, front

(* Who is taken in the end, by places of p.                                *)
Chosen(p) ==
  LET fronts == FastNonDominatedSort(p)
      taken[n \in 0..Len(fronts)] == IF n = 0 THEN <<>> ELSE Filled(p, taken[n - 1], fronts[n])
  IN  taken[Len(fronts)]

LEMMA SurvivorsAreChosen ==
  ASSUME NEW p
  PROVE  Survivors(p) = [k \in DOMAIN Chosen(p) |-> Ranked(p)[Chosen(p)[k]]]
BY DEF Survivors, Chosen

(* What is taken front by front. *)
FillsOf(p) ==
  [n \in 1..Len(FastNonDominatedSort(p)) |->
     [t \in {t \in Seq(1..Len(p)) : Len(t) <= size} |-> Filled(p, t, FastNonDominatedSort(p)[n])]]

LEMMA ChosenFills ==
  ASSUME NEW p \in Seq(Individuals), size \in Nat
  PROVE  \E taken :
           /\ Iteration({t \in Seq(1..Len(p)) : Len(t) <= size}, <<>>,
                        Len(FastNonDominatedSort(p)), FillsOf(p), taken)
           /\ Chosen(p) = taken[Len(FastNonDominatedSort(p))]
<1> DEFINE fronts == FastNonDominatedSort(p)
<1>0. PICK N \in Nat : N = Len(fronts)
  BY FrontsTyped
<1> DEFINE S == {t \in Seq(1..Len(p)) : Len(t) <= size}
           F == FillsOf(p)
           none == <<>>
           Is(taken) ==
             taken = [n \in 0..N |-> IF n = 0 THEN <<>> ELSE Filled(p, taken[n - 1], fronts[n])]
           taken == CHOOSE taken : Is(taken)
<1>1. Chosen(p) = taken[N]
  BY <1>0 DEF Chosen
<1>2. F \in [1..N -> [S -> S]] /\ \A n \in 1..N, x \in S : F[n][x] = Filled(p, x, fronts[n])
  <2>1. F = [n \in 1..N |-> [x \in S |-> Filled(p, x, fronts[n])]]
    BY <1>0 DEF FillsOf
  <2>2. ASSUME NEW n \in 1..N, NEW x \in S PROVE Filled(p, x, fronts[n]) \in S
    <3>1. fronts[n] \in Seq(1..Len(p))
      BY <1>0, FrontsTyped
    <3> HIDE DEF fronts
    <3> QED
      BY <3>1, FilledTakes
  <2> HIDE DEF F, S, fronts
  <2> QED
    BY <2>1, <2>2
<1>3. none \in S
  OBVIOUS
<1> HIDE DEF F, S, fronts
<1>4. \E g : Iteration(S, none, N, F, g)
  <2> HIDE DEF none
  <2> QED
    BY <1>2, <1>3, Iterates
<1>5. PICK g : Iteration(S, none, N, F, g)
  BY <1>4
<1>6. ASSUME NEW h PROVE Iteration(S, none, N, F, h) => Is(h)
  <2> SUFFICES ASSUME Iteration(S, none, N, F, h) PROVE Is(h)
    OBVIOUS
  <2>1. h \in [0..N -> S] /\ \A n \in 0..N : h[n] = IF n = 0 THEN <<>> ELSE F[n][h[n - 1]]
    BY DEF Iteration
  <2>2. ASSUME NEW n \in 0..N PROVE h[n] = IF n = 0 THEN <<>> ELSE Filled(p, h[n - 1], fronts[n])
    <3>1. n # 0 => n \in 1..N /\ n - 1 \in 0..N /\ h[n - 1] \in S
      BY <2>1
    <3> QED
      BY <1>2, <2>1, <3>1
  <2> QED
    BY <2>1, <2>2
<1>7. Is(taken)
  <2>1. Is(g)
    BY <1>5, <1>6
  <2> HIDE DEF Is
  <2> QED
    BY <2>1
<1> HIDE DEF taken
<1>8. taken[0] = none /\ \A n \in 0..N : n # N => taken[n + 1] = Filled(p, taken[n], fronts[n + 1])
  <2>1. ASSUME NEW n \in 0..N, n # N PROVE taken[n + 1] = Filled(p, taken[n], fronts[n + 1])
    <3>1. n + 1 \in 0..N /\ n + 1 # 0 /\ n + 1 - 1 = n
      BY <2>1
    <3> QED
      BY <1>7, <3>1
  <2> QED
    BY <1>7, <2>1
<1>9. DOMAIN taken = 0..N /\ taken = [n \in 0..N |-> taken[n]]
  BY <1>7
<1> HIDE DEF Is, none
<1> DEFINE G == {n \in 0..N : taken[n] \in S}
<1>10. 0..N \subseteq G
  <2>1. 0 \in G
    BY <1>3, <1>8
  <2>2. \A n \in 0..N : n # N /\ n \in G => n + 1 \in G
    <3> SUFFICES ASSUME NEW n \in 0..N, n # N, taken[n] \in S PROVE n + 1 \in G
      OBVIOUS
    <3>1. n + 1 \in 0..N /\ n + 1 \in 1..N
      OBVIOUS
    <3>2. Filled(p, taken[n], fronts[n + 1]) = F[n + 1][taken[n]] /\ F[n + 1] \in [S -> S]
      BY <1>2, <3>1
    <3> QED
      BY <1>8, <3>1, <3>2
  <2> HIDE DEF G
  <2> QED
    BY <2>1, <2>2, UpTo
<1>11. Iteration(S, none, N, F, taken)
  <2>1. taken \in [0..N -> S]
    BY <1>9, <1>10
  <2>2. ASSUME NEW n \in 0..N PROVE taken[n] = IF n = 0 THEN none ELSE F[n][taken[n - 1]]
    <3>1. n # 0 => n \in 1..N /\ n - 1 \in 0..N /\ n - 1 # N /\ n - 1 + 1 = n
      OBVIOUS
    <3>2. n # 0 => taken[n] = Filled(p, taken[n - 1], fronts[n]) /\ taken[n - 1] \in S
      BY <1>8, <2>1, <3>1
    <3> QED
      BY <1>2, <1>8, <3>1, <3>2
  <2> QED
    BY <2>1, <2>2 DEF Iteration
<1> QED
  BY <1>0, <1>1, <1>11 DEF S, F, none, fronts

LEMMA ChosenUpTo ==
  ASSUME NEW p \in Seq(Individuals), size \in Nat
  PROVE  TakenUpTo(p, Len(FastNonDominatedSort(p)), Chosen(p))
<1> DEFINE fronts == FastNonDominatedSort(p)
<1>0. PICK N \in Nat : N = Len(fronts)
  BY FrontsTyped
<1>1. PICK taken : /\ Iteration({t \in Seq(1..Len(p)) : Len(t) <= size}, <<>>, N, FillsOf(p), taken)
                   /\ Chosen(p) = taken[N]
  BY <1>0, ChosenFills
<1>5. /\ taken[0] = <<>>
      /\ \A n \in 0..N : n # N => taken[n + 1] = Filled(p, taken[n], fronts[n + 1])
  <2>1. taken[0] = <<>>
    <3>1. 0 \in 0..N
      OBVIOUS
    <3>2. \A n \in 0..N : taken[n] = IF n = 0 THEN <<>> ELSE FillsOf(p)[n][taken[n - 1]]
      BY <1>1 DEF Iteration
    <3> QED
      BY <3>1, <3>2
  <2>2. ASSUME NEW n \in 0..N, n # N PROVE taken[n + 1] = Filled(p, taken[n], fronts[n + 1])
    <3>1. n + 1 \in 0..N /\ n + 1 # 0 /\ n + 1 - 1 = n /\ n + 1 \in 1..N
      BY <2>2
    <3>2. /\ taken[n + 1] = FillsOf(p)[n + 1][taken[n]]
          /\ taken[n] \in {t \in Seq(1..Len(p)) : Len(t) <= size}
      BY <1>1, <3>1 DEF Iteration
    <3> QED
      BY <1>0, <3>1, <3>2 DEF FillsOf
  <2> QED
    BY <2>1, <2>2
<1> HIDE DEF fronts
<1> DEFINE G == {n \in 0..N : TakenUpTo(p, n, taken[n])}
<1>6. 0 \in G
  <2> DEFINE none == <<>>
  <2>1. none \in Seq(1..Len(p)) /\ Len(none) = 0 /\ Range(none) = {}
    BY DEF Range
  <2>2. \A i \in 1..Len(p) : ~(FrontOf(p, i) <= 0)
    <3>1. \A i \in 1..Len(p) : FrontOf(p, i) \in 1..Len(FastNonDominatedSort(p))
      BY OneFrontEach
    <3> QED
      BY <3>1, FrontsTyped
  <2>3. taken[0] = none
    BY <1>5
  <2> HIDE DEF none
  <2>4. 0 \in 0..0 /\ Len(none) <= size
    BY <2>1
  <2>5. TakenUpTo(p, 0, none)
    BY <2>1, <2>2, <2>4 DEF TakenUpTo
  <2> QED
    BY <2>3, <2>5
<1>7. ASSUME NEW n \in 0..N, n # N, n \in G PROVE n + 1 \in G
  <2>1. n \in Nat /\ n + 1 \in 0..N /\ n + 1 \in 1..Len(FastNonDominatedSort(p))
    BY <1>0, <1>7 DEF fronts
  <2>2. TakenUpTo(p, n, taken[n])
    BY <1>7
  <2>3. TakenUpTo(p, n + 1, Filled(p, taken[n], FastNonDominatedSort(p)[n + 1]))
    BY <2>1, <2>2, FilledKeepsWhole
  <2>4. taken[n + 1] = Filled(p, taken[n], FastNonDominatedSort(p)[n + 1])
    BY <1>5, <1>7 DEF fronts
  <2> QED
    BY <2>1, <2>3, <2>4
<1>8. TakenUpTo(p, N, taken[N])
  <2> HIDE DEF G
  <2>1. 0..N \subseteq G
    BY <1>6, <1>7, UpTo
  <2>2. N \in G
    BY <2>1
  <2> QED
    BY <2>2 DEF G
<1> QED
  BY <1>0, <1>1, <1>8 DEF fronts

(* Enough are taken, nobody taken stands behind anybody left out, and      *)
(* somebody of the first front is.                                         *)
LEMMA ChosenAreTop ==
  ASSUME NEW p \in Seq(Individuals), size \in Nat \ {0}, Len(p) >= size
  PROVE  /\ Chosen(p) \in Seq(1..Len(p)) /\ Len(Chosen(p)) = size
         /\ \A i \in 1..Len(p), k \in 1..size :
              i \in Range(Chosen(p)) \/ FrontOf(p, Chosen(p)[k]) <= FrontOf(p, i)
         /\ \E k \in 1..size : FrontOf(p, Chosen(p)[k]) = 1
<1> DEFINE N == Len(FastNonDominatedSort(p))
           t == Chosen(p)
<1>1. TakenUpTo(p, N, t) /\ N \in Nat
  BY ChosenUpTo, FrontsTyped
<1>2. \A i \in 1..Len(p) : FrontOf(p, i) \in 1..N
  BY OneFrontEach
<1> HIDE DEF N, t
<1>3. t \in Seq(1..Len(p)) /\ Len(t) <= size /\ Len(t) \in Nat /\ t \in [1..Len(t) -> 1..Len(p)]
  BY <1>1 DEF TakenUpTo
<1>4. PICK F \in 0..N :
        /\ \A i \in 1..Len(p) : FrontOf(p, i) <= F => i \in Range(t)
        /\ \A i \in 1..Len(p) : i \in Range(t) => FrontOf(p, i) <= F + 1
        /\ Len(t) = size \/ (F = N /\ \A i \in 1..Len(p) : i \in Range(t) => FrontOf(p, i) <= F)
  BY <1>1 DEF TakenUpTo
<1>5. Len(t) = size
  <2>1. SUFFICES ASSUME Len(t) # size PROVE FALSE
    OBVIOUS
  <2>2. \A i \in 1..Len(p) : i \in Range(t)
    <3>1. F = N
      BY <1>4, <2>1
    <3> QED
      BY <1>1, <1>2, <1>4, <3>1
  <2>3. t \in Surjection(1..Len(t), 1..Len(p))
    BY <1>3, <2>2 DEF Surjection, Range
  <2>4. /\ IsFiniteSet(1..Len(t)) /\ Cardinality(1..Len(t)) = Len(t) /\ Len(p) \in Nat
        /\ Cardinality(1..Len(p)) = Len(p)
    <3>1. DOMAIN t = 1..Len(t) /\ DOMAIN p = 1..Len(p)
      BY <1>3
    <3> QED
      BY <1>3, <3>1, Places
  <2>5. Len(p) <= Len(t)
    BY <2>3, <2>4, FS_Surjection
  <2>6. Len(t) < size
    <3> DEFINE n == Len(t)
    <3>1. n \in Nat /\ n <= size /\ n # size
      BY <1>3, <2>1
    <3> HIDE DEF n
    <3>2. n < size
      BY <3>1
    <3> QED
      BY <3>2 DEF n
  <2>7. Len(p) < size
    BY <2>4, <2>5, <2>6, <1>3
  <2> QED
    BY <2>4, <2>7
<1>6. ASSUME NEW i \in 1..Len(p), NEW k \in 1..size, i \notin Range(t)
      PROVE  FrontOf(p, t[k]) <= FrontOf(p, i)
  <2>1. t[k] \in 1..Len(p) /\ t[k] \in Range(t)
    BY <1>3, <1>5 DEF Range
  <2>2. FrontOf(p, t[k]) <= F + 1 /\ ~(FrontOf(p, i) <= F)
    BY <1>4, <1>6, <2>1
  <2> QED
    BY <1>1, <1>2, <2>1, <2>2
<1>7. \E k \in 1..size : FrontOf(p, t[k]) = 1
  <2>1. 1 \in 1..size /\ t[1] \in 1..Len(p)
    BY <1>3, <1>5
  <2>2. CASE F = 0
    <3>1. FrontOf(p, t[1]) <= 0 + 1
      <4>1. t[1] \in Range(t)
        BY <1>3, <1>5, <2>1 DEF Range
      <4> QED
        BY <1>4, <2>1, <2>2, <4>1
    <3>2. FrontOf(p, t[1]) = 1
      BY <1>1, <1>2, <2>1, <3>1
    <3> QED
      BY <2>1, <3>2
  <2>3. CASE F # 0
    <3>1. F >= 1 /\ 1 \in 1..N
      BY <1>1, <2>3
    <3>2. PICK i \in 1..Len(p) : FrontOf(p, i) = 1
      <4> DEFINE front == FastNonDominatedSort(p)[1]
      <4>1. front \in Seq(1..Len(p)) /\ Len(front) > 0
        BY <3>1, FrontsTyped DEF N
      <4>2. front[1] \in 1..Len(p) /\ front[1] \in Range(front)
        <5> HIDE DEF front
        <5> QED
          BY <4>1 DEF Range
      <4>3. FrontOf(p, front[1]) = 1
        BY <3>1, <4>2, OneFrontEach DEF N
      <4> HIDE DEF front
      <4> QED
        BY <4>2, <4>3
    <3>3. i \in Range(t)
      BY <1>4, <3>1, <3>2
    <3>4. PICK k \in 1..size : t[k] = i
      BY <1>3, <1>5, <3>3 DEF Range
    <3> QED
      BY <3>2, <3>4
  <2> QED
    BY <2>2, <2>3
<1> QED
  BY <1>3, <1>5, <1>6, <1>7 DEF t

-----------------------------------------------------------------------------
(* The least violation, and who has it.                                    *)

LEMMA LeastOf ==
  ASSUME NEW p \in Seq(Individuals), Len(p) > 0
  PROVE  /\ LeastViolation(p) \in Nat
         /\ \E i \in 1..Len(p) : Violation(p[i]) = LeastViolation(p)
         /\ \A i \in 1..Len(p) : LeastViolation(p) <= Violation(p[i])
<1> DEFINE v == [i \in 1..Len(p) |-> Violation(p[i])]
           S == {v[i] : i \in 1..Len(p)}
<1>1. DOMAIN p = 1..Len(p) /\ Len(p) \in Nat /\ IsFiniteSet(1..Len(p)) /\ 1 \in 1..Len(p)
  BY Places
<1>2. \A i \in 1..Len(p) : v[i] \in Nat /\ v[i] = Violation(p[i])
  <2>1. ASSUME NEW i \in 1..Len(p) PROVE Violation(p[i]) \in Nat
    <3>1. p[i] \in Individuals
      OBVIOUS
    <3> QED
      BY <3>1, ViolationIsNat
  <2> QED
    BY <2>1
<1>3. LeastViolation(p) = Min(S)
  BY <1>1 DEF LeastViolation
<1>4. DOMAIN v = 1..Len(p) /\ v = [i \in 1..Len(p) |-> v[i]]
  OBVIOUS
<1> HIDE DEF v
<1>5. S \in SUBSET Int /\ S # {} /\ IsFiniteSet(S)
  <2>1. IsFiniteSet(S)
    BY <1>1, <1>4, FiniteImage
  <2> QED
    BY <1>1, <1>2, <2>1
<1>6. Min(S) \in S /\ \A x \in S : Min(S) <= x
  BY <1>5, Extremes
<1> QED
  BY <1>2, <1>3, <1>6

LEMMA FirstFrontIsLeast ==
  ASSUME NEW p \in Seq(Individuals), NEW i \in 1..Len(p), FrontOf(p, i) = 1
  PROVE  Violation(p[i]) = LeastViolation(p)
<1>1. Len(p) > 0 /\ \A j \in 1..Len(p) : p[j] \in Individuals
  OBVIOUS
<1>2. PICK j \in 1..Len(p) : Violation(p[j]) = LeastViolation(p)
  BY <1>1, LeastOf
<1>3. /\ Violation(p[i]) \in Nat /\ Violation(p[j]) \in Nat
      /\ LeastViolation(p) <= Violation(p[i])
  BY <1>1, LeastOf, ViolationIsNat
<1>4. SUFFICES ASSUME Violation(p[j]) < Violation(p[i]) PROVE FALSE
  BY <1>2, <1>3
<1>5. Dominates(p[j], p[i])
  BY <1>4 DEF Dominates
<1>6. FrontOf(p, j) < 1 /\ FrontOf(p, j) \in 1..Len(FastNonDominatedSort(p))
  BY <1>5, DominatorsBefore, OneFrontEach
<1> QED
  BY <1>6, FrontsTyped

(* One individual is another but for rank and crowding. *)
Alike(x, y) ==
  /\ x.seg = y.seg /\ x.obj = y.obj /\ x.cost = y.cost
  /\ x.stranded = y.stranded /\ x.saturated = y.saturated

LEMMA AlikeDominate ==
  ASSUME NEW x, NEW y, NEW v, NEW w, Alike(x, v), Alike(y, w)
  PROVE  (Dominates(x, y) <=> Dominates(v, w)) /\ Violation(x) = Violation(v)
BY DEF Alike, Dominates, Violation, Sense

LEMMA SurvivorsTyped ==
  ASSUME NEW p \in Seq(Individuals), size \in Nat \ {0}, Len(p) >= size
  PROVE  /\ Survivors(p) \in Seq(Individuals) /\ Len(Survivors(p)) = size
         /\ \A k \in 1..size : /\ Chosen(p)[k] \in 1..Len(p)
                               /\ Alike(Survivors(p)[k], p[Chosen(p)[k]])
                               /\ Survivors(p)[k].rank = FrontOf(p, Chosen(p)[k]) - 1
<1> DEFINE t == Chosen(p)
           q == Ranked(p)
<1>1. t \in Seq(1..Len(p)) /\ Len(t) = size
  BY ChosenAreTop
<1>2. /\ q \in Seq(Individuals) /\ Len(q) = Len(p)
      /\ \A i \in 1..Len(p) : Alike(q[i], p[i]) /\ q[i].rank = FrontOf(p, i) - 1
  BY RankedTyped DEF Alike
<1>3. Survivors(p) = [k \in DOMAIN t |-> q[t[k]]]
  BY SurvivorsAreChosen
<1> HIDE DEF t, q
<1>4. DOMAIN t = 1..size /\ \A k \in 1..size : t[k] \in 1..Len(p)
  BY <1>1
<1>5. \A i \in 1..Len(p) : q[i] \in Individuals
  BY <1>2
<1>6. Survivors(p) \in [1..size -> Individuals]
  BY <1>3, <1>4, <1>5
<1>7. Survivors(p) \in Seq(Individuals) /\ Len(Survivors(p)) = size
  BY <1>6, FunctionIsSeq
<1>8. \A k \in 1..size : Survivors(p)[k] = q[t[k]]
  BY <1>3, <1>4
<1> QED
  BY <1>2, <1>4, <1>7, <1>8 DEF t

(* Selection keeps the least violation and drops nobody who dominates one  *)
(* it keeps.                                                               *)
LEMMA SurvivorsAreTop ==
  ASSUME NEW p \in Seq(Individuals), size \in Nat \ {0}, Len(p) >= size
  PROVE  /\ LeastViolation(Survivors(p)) = LeastViolation(p)
         /\ \A i \in 1..Len(p), k \in 1..size :
              \/ \E l \in 1..size : Survivors(p)[l].seg = p[i].seg
              \/ ~Dominates(p[i], Survivors(p)[k])
<1> DEFINE t == Chosen(p)
           r == Survivors(p)
<1>1. /\ t \in Seq(1..Len(p)) /\ Len(t) = size
      /\ \A i \in 1..Len(p), k \in 1..size :
              i \in Range(t) \/ FrontOf(p, t[k]) <= FrontOf(p, i)
      /\ \E k \in 1..size : FrontOf(p, t[k]) = 1
  BY ChosenAreTop
<1>2. /\ r \in Seq(Individuals) /\ Len(r) = size
      /\ \A k \in 1..size : t[k] \in 1..Len(p) /\ Alike(r[k], p[t[k]])
  BY SurvivorsTyped
<1> HIDE DEF t, r
<1>3. Len(p) > 0 /\ Len(r) > 0 /\ \A i \in 1..Len(p) : p[i] \in Individuals
  BY <1>2
<1>4. LeastViolation(r) = LeastViolation(p)
  <2>1. PICK k \in 1..size : FrontOf(p, t[k]) = 1
    BY <1>1
  <2>2. Violation(r[k]) = LeastViolation(p)
    <3>1. Violation(p[t[k]]) = LeastViolation(p)
      BY <1>2, <2>1, FirstFrontIsLeast
    <3> QED
      BY <1>2, <3>1, AlikeDominate
  <2>3. PICK l \in 1..size : Violation(r[l]) = LeastViolation(r)
    BY <1>2, <1>3, LeastOf
  <2>4. LeastViolation(r) \in Nat /\ LeastViolation(r) <= Violation(r[k])
    BY <1>2, <1>3, LeastOf
  <2>5. Violation(r[l]) = Violation(p[t[l]])
    BY <1>2, AlikeDominate
  <2>6. LeastViolation(p) \in Nat /\ LeastViolation(p) <= Violation(p[t[l]])
    BY <1>2, <1>3, LeastOf
  <2> QED
    BY <2>2, <2>3, <2>4, <2>5, <2>6
<1>5. ASSUME NEW i \in 1..Len(p), NEW k \in 1..size, Dominates(p[i], r[k])
      PROVE  \E l \in 1..size : r[l].seg = p[i].seg
  <2>1. Alike(p[i], p[i])
    BY DEF Alike
  <2>2. Dominates(p[i], p[t[k]])
    BY <1>2, <1>5, <2>1, AlikeDominate
  <2>3. FrontOf(p, i) < FrontOf(p, t[k])
    BY <1>2, <2>2, DominatorsBefore
  <2>4. FrontOf(p, i) \in Int /\ FrontOf(p, t[k]) \in Int
    <3>1. \A j \in 1..Len(p) : FrontOf(p, j) \in 1..Len(FastNonDominatedSort(p))
      BY OneFrontEach
    <3> QED
      BY <1>2, <3>1, FrontsTyped
  <2>5. i \in Range(t)
    BY <1>1, <2>3, <2>4
  <2>6. PICK l \in 1..size : t[l] = i
    BY <1>1, <2>5 DEF Range
  <2> QED
    BY <1>2, <2>6 DEF Alike
<1> QED
  BY <1>4, <1>5 DEF r

-----------------------------------------------------------------------------
(* What is picked at the end is of the first front.                        *)

LEMMA KneeIsThere ==
  ASSUME NEW front \in Seq(Individuals), Len(front) > 0
  PROVE  KneePoint(front) \in 1..Len(front)
<1> DEFINE D == 1..Len(front)
           value(m) == {front[i].obj[m] : i \in DOMAIN front}
           off(i, m) == IF Maximize[m] THEN Max(value(m)) - front[i].obj[m]
                                       ELSE front[i].obj[m] - Min(value(m))
           norm(i, m) == Gap(off(i, m), Max(value(m)) - Min(value(m)))
           square(x) == x * x
           far(i) == square(norm(i, 1)) + square(norm(i, 2)) + square(norm(i, 3))
           key == [i \in D |-> far(i)]
<1>1. DOMAIN front = D /\ IsFiniteSet(D) /\ D \in SUBSET Int /\ 1 \in D
  BY Places
<1>2. KneePoint(front) = First(key)
  BY <1>1 DEF KneePoint
<1>3. \A i \in D, m \in Objectives : front[i].obj[m] \in Int
  <2>1. \A i \in D : front[i] \in Individuals
    OBVIOUS
  <2> QED
    BY <2>1, SenseIsInt
<1> HIDE DEF D
<1>4. ASSUME NEW m \in Objectives PROVE Max(value(m)) \in Int /\ Min(value(m)) \in Int
  <2> DEFINE v == [i \in D |-> front[i].obj[m]]
             S == {v[i] : i \in D}
  <2>1. value(m) = S
    BY <1>1
  <2>2. DOMAIN v = D /\ v = [i \in D |-> v[i]] /\ \A i \in D : v[i] \in Int
    BY <1>3
  <2> HIDE DEF v
  <2>3. IsFiniteSet(S)
    BY <1>1, <2>2, FiniteImage
  <2>4. S \in SUBSET Int /\ S # {}
    BY <1>1, <2>2
  <2>5. Max(S) \in S /\ Min(S) \in S
    BY <2>3, <2>4, Extremes
  <2> QED
    BY <2>1, <2>4, <2>5
<1>5. ASSUME NEW i \in D, NEW m \in Objectives PROVE square(norm(i, m)) \in Int
  <2> HIDE DEF value
  <2>1. off(i, m) \in Int /\ Max(value(m)) - Min(value(m)) \in Int
    BY <1>3, <1>4
  <2> HIDE DEF off
  <2>2. norm(i, m) \in Int
    BY <2>1, GapIsInt
  <2> HIDE DEF norm
  <2> QED
    BY <2>2
<1> HIDE DEF norm
<1>6. key \in [D -> Int]
  <2>1. ASSUME NEW i \in D PROVE far(i) \in Int
    <3>1. /\ square(norm(i, 1)) \in Int /\ square(norm(i, 2)) \in Int
          /\ square(norm(i, 3)) \in Int
      BY <1>5 DEF Objectives
    <3> HIDE DEF square
    <3> QED
      BY <3>1
  <2> HIDE DEF far
  <2> QED
    BY <2>1
<1> HIDE DEF key
<1> QED
  BY <1>1, <1>2, <1>6, FirstIsLeast DEF D

LEMMA ParetoIsFirst ==
  ASSUME NEW p \in Seq(Individuals), Len(p) > 0
  PROVE  /\ Pareto(p) \in Seq(Individuals) /\ Len(Pareto(p)) > 0
         /\ \A k \in 1..Len(Pareto(p)) :
              \E i \in 1..Len(p) : Pareto(p)[k] = p[i] /\ FrontOf(p, i) = 1
<1> DEFINE first == FastNonDominatedSort(p)[1]
<1>1. 1 \in 1..Len(p)
  OBVIOUS
<1>2. 1 \in 1..Len(FastNonDominatedSort(p))
  <2>1. FrontOf(p, 1) \in 1..Len(FastNonDominatedSort(p))
    BY <1>1, OneFrontEach
  <2> QED
    BY <2>1, FrontsTyped
<1>3. first \in Seq(1..Len(p)) /\ Len(first) > 0
  BY <1>2, FrontsTyped
<1>4. \A i \in 1..Len(p) : i \in Range(first) => FrontOf(p, i) = 1
  BY <1>2, OneFrontEach
<1>5. Pareto(p) = [k \in DOMAIN first |-> p[first[k]]]
  BY DEF Pareto
<1> HIDE DEF first
<1>6. DOMAIN first = 1..Len(first) /\ Len(first) \in Nat
      /\ \A k \in 1..Len(first) : first[k] \in 1..Len(p) /\ p[first[k]] \in Individuals
  BY <1>3
<1>7. Pareto(p) \in [1..Len(first) -> Individuals]
  BY <1>5, <1>6
<1>8. Pareto(p) \in Seq(Individuals) /\ Len(Pareto(p)) = Len(first)
  BY <1>6, <1>7, FunctionIsSeq
<1>9. ASSUME NEW k \in 1..Len(first)
      PROVE  Pareto(p)[k] = p[first[k]] /\ FrontOf(p, first[k]) = 1
  <2>1. first[k] \in Range(first)
    BY <1>6 DEF Range
  <2> QED
    BY <1>4, <1>5, <1>6, <2>1
<1> QED
  BY <1>3, <1>6, <1>8, <1>9

LEMMA DistinctAreOfFront ==
  ASSUME NEW front \in Seq(Individuals), Len(front) > 0
  PROVE  /\ Distinct(front) \in Seq(Individuals) /\ Len(Distinct(front)) > 0
         /\ \A k \in 1..Len(Distinct(front)) : \E l \in 1..Len(front) : Distinct(front)[k] = front[l]
<1> DEFINE before(a, b) ==
             \E m \in Objectives :
               Sense(a, m) > Sense(b, m) /\ \A n \in 1..(m - 1) : a.obj[n] = b.obj[n]
           ahead(k) == {l \in DOMAIN front : before(front[l], front[k])}
           key == [k \in DOMAIN front |-> Cardinality(ahead(k))]
           sorted == Sorted(front, key)
           places == {k \in DOMAIN sorted : k = 1 \/ sorted[k].obj # sorted[k - 1].obj}
           at == InOrder(places)
<1>1. Distinct(front) = [k \in DOMAIN at |-> sorted[at[k]]]
  BY DEF Distinct
<1>2. DOMAIN front = 1..Len(front) /\ IsFiniteSet(DOMAIN front) /\ Len(front) \in Nat
  BY Places
<1>3. key \in [1..Len(front) -> Int]
  <2>1. ASSUME NEW k \in DOMAIN front PROVE Cardinality(ahead(k)) \in Int
    <3>1. ahead(k) \in SUBSET DOMAIN front
      OBVIOUS
    <3> HIDE DEF ahead
    <3>2. Cardinality(ahead(k)) \in Nat
      BY <1>2, <3>1, FS_Subset, FS_CardinalityType
    <3> QED
      BY <3>2
  <2> HIDE DEF ahead
  <2> QED
    BY <1>2, <2>1
<1> HIDE DEF key
<1>4. /\ sorted \in Seq(Individuals) /\ Len(sorted) = Len(front)
      /\ \A k \in 1..Len(front) : \E l \in 1..Len(front) : sorted[k] = front[l]
  BY <1>3, SortedKeeps
<1> HIDE DEF sorted
<1>5. places \in SUBSET (1..Len(front)) /\ 1 \in places
  BY <1>2, <1>4
<1> HIDE DEF places
<1>6. /\ places \in SUBSET Int /\ IsFiniteSet(places) /\ Cardinality(places) \in Nat
      /\ Cardinality(places) > 0
  <2>1. IsFiniteSet(places)
    BY <1>2, <1>5, FS_Subset
  <2>2. Cardinality(places) \in Nat /\ (Cardinality(places) = 0 <=> places = {})
    BY <2>1, FS_CardinalityType, FS_EmptySet
  <2> QED
    BY <1>5, <2>1, <2>2
<1>7. at \in [1..Cardinality(places) -> places]
  BY <1>6, InOrderLists
<1> HIDE DEF at
<1>8. DOMAIN at = 1..Cardinality(places) /\ \A k \in DOMAIN at : at[k] \in 1..Len(front)
  BY <1>5, <1>7
<1>9. Distinct(front) \in [1..Cardinality(places) -> Individuals]
  <2>1. \A k \in 1..Len(front) : sorted[k] \in Individuals
    BY <1>4
  <2> QED
    BY <1>1, <1>8, <2>1
<1>10. Distinct(front) \in Seq(Individuals) /\ Len(Distinct(front)) = Cardinality(places)
  BY <1>6, <1>9, FunctionIsSeq
<1>11. ASSUME NEW k \in 1..Cardinality(places)
       PROVE  \E l \in 1..Len(front) : Distinct(front)[k] = front[l]
  <2>1. Distinct(front)[k] = sorted[at[k]] /\ at[k] \in 1..Len(front)
    BY <1>1, <1>8
  <2> QED
    BY <1>4, <2>1
<1> QED
  BY <1>6, <1>10, <1>11

-----------------------------------------------------------------------------
(* The states of the search.                                               *)

LEMMA SegsAreOrders ==
  ASSUME NEW seg \in Chromosomes
  PROVE  seg[0] \in Orders(0) /\ seg[1] \in Orders(1) /\ seg[2] \in Orders(2)
<1>1. PICK e \in Orders(0), u \in Orders(1), m \in Orders(2) : seg = BySlice(e, u, m)
  BY DEF Chromosomes
<1>2. BySlice(e, u, m)[0] = e /\ BySlice(e, u, m)[1] = u /\ BySlice(e, u, m)[2] = m
  BY DEF BySlice, Slices
<1> QED
  BY <1>1, <1>2

LEMMA ChildrenTyped ==
  ASSUME NEW a \in Individuals, NEW b \in Individuals, land \in DOMAIN Landscapes
  PROVE  Children(a, b) \subseteq Individuals
<1>1. a.seg \in Chromosomes /\ b.seg \in Chromosomes
  BY DEF Individuals
<1>2. ASSUME NEW e \in Varied(a.seg[0], b.seg[0]), NEW u \in Varied(a.seg[1], b.seg[1]),
             NEW m \in Varied(a.seg[2], b.seg[2])
      PROVE  Scored(BySlice(e, u, m)) \in Individuals
  <2>1. 0 \in Slices /\ 1 \in Slices /\ 2 \in Slices
    BY DEF Slices
  <2>2. /\ Varied(a.seg[0], b.seg[0]) \subseteq Orders(0)
        /\ Varied(a.seg[1], b.seg[1]) \subseteq Orders(1)
        /\ Varied(a.seg[2], b.seg[2]) \subseteq Orders(2)
    BY <1>1, <2>1, SegsAreOrders, VariedAreOrders
  <2>3. BySlice(e, u, m) \in Chromosomes
    BY <2>2 DEF Chromosomes
  <2> QED
    BY <2>3, ScoredTyped
<1> QED
  BY <1>2 DEF Children

(* The type of every state, with the length of what is bred.               *)
Count == IF router = "nsga" THEN size ELSE size - 1
TypeOK ==
  /\ router \in {"nsga", "seng"} /\ land \in DOMAIN Landscapes /\ size \in Nat \ {0}
  /\ phase \in {"parents", "bred", "picked"} /\ gen \in Nat
  /\ pop \in Seq(Individuals) /\ Len(pop) = size
  /\ offspring \in Seq(Individuals) /\ Len(offspring) = IF phase = "bred" THEN Count ELSE 0
  /\ phase # "picked" => pick = <<>>

LEMMA ParentsAreThere ==
  ASSUME TypeOK
  PROVE  \A a \in Parents : a \in 1..size /\ pop[a] \in Individuals
<1>1. /\ size \in Nat \ {0} /\ router \in {"nsga", "seng"}
      /\ \A a \in 1..size : pop[a] \in Individuals /\ pop[a].cost \in Int
  <2>1. \A a \in 1..size : pop[a] \in Individuals
    BY DEF TypeOK
  <2> QED
    BY <2>1 DEF TypeOK, Individuals
<1>2. CASE router = "nsga"
  <2>1. \A a \in 1..size, b \in 1..size : Tournament(a, b) \in 1..size
    BY DEF Tournament
  <2>2. Parents = {Tournament(a, b) : a \in 1..size, b \in 1..size}
    BY <1>2 DEF Parents
  <2>3. Parents \subseteq 1..size
    BY <2>1, <2>2
  <2> QED
    BY <1>1, <2>3
<1>3. CASE router = "seng"
  <2>1. ASSUME NEW picks \in [1..4 -> 1..size] PROVE TournamentOfFour(picks) \in 1..size
    <3> DEFINE key == [k \in 1..4 |-> pop[picks[k]].cost]
               S == 1..4
    <3>1. key \in [S -> Int] /\ S \in SUBSET Int /\ S # {} /\ IsFiniteSet(S)
      <4>1. IsFiniteSet(S)
        <5>1. 1 \in Int /\ 4 \in Int
          OBVIOUS
        <5> QED
          BY <5>1, FS_Interval
      <4>2. \A k \in S : picks[k] \in 1..size /\ pop[picks[k]].cost \in Int
        BY <1>1
      <4> QED
        BY <4>1, <4>2
    <3>2. TournamentOfFour(picks) = picks[First(key)]
      BY DEF TournamentOfFour
    <3> HIDE DEF key, S
    <3>3. First(key) \in S
      BY <3>1, FirstIsLeast
    <3> QED
      BY <3>2, <3>3 DEF S
  <2>2. Parents = {TournamentOfFour(picks) : picks \in [1..4 -> 1..size]}
    BY <1>3 DEF Parents
  <2>3. Parents \subseteq 1..size
    BY <2>1, <2>2
  <2> QED
    BY <1>1, <2>3
<1> QED
  BY <1>1, <1>2, <1>3

LEMMA InitTyped == Init => TypeOK
<1> SUFFICES ASSUME Init PROVE TypeOK
  OBVIOUS
<1>1. PICK drawn \in Populations :
        LET p == [k \in DOMAIN drawn |-> Scored(drawn[k])] IN
        /\ size = Len(drawn)
        /\ pop = IF router = "nsga" THEN Ranked(p) ELSE p
  BY DEF Init
<1> DEFINE p == [k \in DOMAIN drawn |-> Scored(drawn[k])]
<1>2. land \in DOMAIN Landscapes /\ drawn \in Seq(Chromosomes) /\ drawn # <<>>
  BY PopulationAssumption DEF Init
<1>3. DOMAIN drawn = 1..Len(drawn) /\ Len(drawn) \in Nat \ {0}
      /\ \A k \in 1..Len(drawn) : drawn[k] \in Chromosomes
  BY <1>2
<1>4. p \in [1..Len(drawn) -> Individuals]
  <2>1. \A k \in 1..Len(drawn) : Scored(drawn[k]) \in Individuals
    BY <1>2, <1>3, ScoredTyped
  <2> QED
    BY <1>3, <2>1
<1>5. size = Len(drawn) /\ pop = IF router = "nsga" THEN Ranked(p) ELSE p
  BY <1>1
<1> HIDE DEF p
<1>6. p \in Seq(Individuals) /\ Len(p) = Len(drawn)
  BY <1>3, <1>4, FunctionIsSeq
<1>7. Ranked(p) \in Seq(Individuals) /\ Len(Ranked(p)) = Len(p)
  BY <1>6, RankedTyped
<1>8. pop \in Seq(Individuals) /\ Len(pop) = size /\ size \in Nat \ {0}
  BY <1>3, <1>5, <1>6, <1>7
<1> DEFINE none == <<>>
<1>9. offspring = none /\ none \in Seq(Individuals) /\ Len(none) = 0
  BY DEF Init
<1> HIDE DEF none
<1> QED
  BY <1>2, <1>8, <1>9, SearchAssumption DEF Init, TypeOK

LEMMA BreedTyped == ASSUME TypeOK, Breed PROVE TypeOK'
<1> DEFINE bred == UNION {Children(pop[a], pop[b]) : a \in Parents, b \in Parents}
<1>1. PICK children \in [1..Count -> bred] : offspring' = children
  BY DEF Breed, Count
<1>2. Count \in Nat
  BY DEF TypeOK, Count
<1>3. bred \subseteq Individuals
  <2>1. \A a \in Parents, b \in Parents : Children(pop[a], pop[b]) \subseteq Individuals
    <3>1. land \in DOMAIN Landscapes
      BY DEF TypeOK
    <3> QED
      BY <3>1, ParentsAreThere, ChildrenTyped
  <2> QED
    BY <2>1
<1> HIDE DEF bred
<1>4. offspring' \in [1..Count -> Individuals]
  BY <1>1, <1>3
<1>5. offspring' \in Seq(Individuals) /\ Len(offspring') = Count
  BY <1>2, <1>4, FunctionIsSeq
<1>6. Count' = Count
  BY DEF Breed, Count
<1> QED
  BY <1>5, <1>6 DEF Breed, TypeOK

(* Parents and children together. *)
LEMMA AllTyped ==
  ASSUME TypeOK
  PROVE  /\ pop \o offspring \in Seq(Individuals) /\ Len(pop \o offspring) >= size
         /\ Len(pop \o offspring) = size + Len(offspring)
         /\ \A i \in 1..size : i \in 1..Len(pop \o offspring) /\ (pop \o offspring)[i] = pop[i]
BY DEF TypeOK

LEMMA SelectNsgaTyped == ASSUME TypeOK, SelectNsga PROVE TypeOK'
<1> DEFINE all == pop \o offspring
           none == <<>>
<1>1. all \in Seq(Individuals) /\ Len(all) >= size /\ size \in Nat \ {0}
  BY AllTyped DEF TypeOK
<1>2. pop' = Survivors(all) /\ offspring' = none
  BY DEF SelectNsga
<1> HIDE DEF all
<1>3. pop' \in Seq(Individuals) /\ Len(pop') = size
  BY <1>1, <1>2, SurvivorsTyped
<1>4. none \in Seq(Individuals) /\ Len(none) = 0
  OBVIOUS
<1> HIDE DEF none
<1>5. /\ phase' = "parents" /\ gen' = gen + 1 /\ size' = size /\ router' = router
      /\ land' = land /\ pick' = pick /\ phase = "bred"
  BY DEF SelectNsga
<1> QED
  BY <1>2, <1>3, <1>4, <1>5 DEF TypeOK

LEMMA SelectSengTyped ==
  ASSUME TypeOK, SelectSeng
  PROVE  /\ TypeOK'
         /\ pop'[1] = pop[Best(pop)] /\ 1 \in 1..Len(pop')
<1> DEFINE none == <<>>
           elite == Elite(pop)
<1>1. pop \in Seq(Individuals) /\ Len(pop) > 0 /\ size \in Nat \ {0} /\ Len(pop) = size
  BY DEF TypeOK
<1>2. elite \in Seq(Individuals) /\ Len(elite) = 1 /\ elite[1] = pop[Best(pop)]
  <2>1. pop[Best(pop)] \in Individuals
    BY <1>1, BestIsLeast
  <2> DEFINE best == pop[Best(pop)]
  <2>2. elite = <<best>>
    BY DEF Elite
  <2> HIDE DEF best
  <2> QED
    BY <2>1, <2>2 DEF best
<1>3. offspring \in Seq(Individuals) /\ Len(offspring) = size - 1
  BY DEF TypeOK, SelectSeng, Count
<1>4. pop' = elite \o offspring /\ offspring' = none
  BY DEF SelectSeng
<1> HIDE DEF elite
<1>5. pop' \in Seq(Individuals) /\ Len(pop') = size /\ pop'[1] = elite[1]
  <2>1. /\ elite \o offspring \in Seq(Individuals)
        /\ Len(elite \o offspring) = Len(elite) + Len(offspring)
        /\ (elite \o offspring)[1] = elite[1]
    <3> DEFINE q == offspring
    <3>1. q \in Seq(Individuals) /\ 1 \in 1..Len(elite) /\ Len(q) \in Nat
      BY <1>2, <1>3
    <3> HIDE DEF q
    <3>2. /\ elite \o q \in Seq(Individuals) /\ Len(elite \o q) = Len(elite) + Len(q)
          /\ \A i \in 1..(Len(elite) + Len(q)) :
               (elite \o q)[i] = IF i <= Len(elite) THEN elite[i] ELSE q[i - Len(elite)]
      BY <1>2, <3>1, ConcatProperties
    <3>3. 1 \in 1..(Len(elite) + Len(q)) /\ 1 <= Len(elite)
      BY <1>2, <3>1
    <3> QED
      BY <3>2, <3>3 DEF q
  <2>2. Len(elite) + Len(offspring) = size
    BY <1>1, <1>2, <1>3
  <2> QED
    BY <1>4, <2>1, <2>2
<1>6. none \in Seq(Individuals) /\ Len(none) = 0
  OBVIOUS
<1> HIDE DEF none
<1>7. /\ phase' = "parents" /\ gen' = gen + 1 /\ size' = size /\ router' = router
      /\ land' = land /\ pick' = pick /\ phase = "bred"
  BY DEF SelectSeng
<1>8. TypeOK'
  BY <1>4, <1>5, <1>6, <1>7 DEF TypeOK
<1>9. 1 \in 1..Len(pop')
  BY <1>1, <1>5
<1> QED
  BY <1>2, <1>5, <1>8, <1>9

(* What is picked by NSGA-II is of least violation, and by the baseline of *)
(* least cost.                                                             *)
LEMMA FinishNsgaPicks ==
  ASSUME TypeOK, FinishNsga
  PROVE  TypeOK' /\ Violation(pick') = LeastViolation(pop)
<1>1. pop \in Seq(Individuals) /\ Len(pop) > 0
  BY DEF TypeOK
<1>2. PICK front \in {Pareto(pop), Distinct(Pareto(pop))} : pick' = front[KneePoint(front)]
  BY DEF FinishNsga
<1>3. /\ Pareto(pop) \in Seq(Individuals) /\ Len(Pareto(pop)) > 0
      /\ \A k \in 1..Len(Pareto(pop)) :
           \E i \in 1..Len(pop) : Pareto(pop)[k] = pop[i] /\ FrontOf(pop, i) = 1
  BY <1>1, ParetoIsFirst
<1>4. /\ front \in Seq(Individuals) /\ Len(front) > 0
      /\ \A k \in 1..Len(front) : \E l \in 1..Len(Pareto(pop)) : front[k] = Pareto(pop)[l]
  <2>1. CASE front = Pareto(pop)
    BY <1>3, <2>1
  <2>2. CASE front = Distinct(Pareto(pop))
    BY <1>3, <2>2, DistinctAreOfFront
  <2> QED
    BY <2>1, <2>2
<1>5. KneePoint(front) \in 1..Len(front)
  BY <1>4, KneeIsThere
<1>6. PICK i \in 1..Len(pop) : pick' = pop[i] /\ FrontOf(pop, i) = 1
  BY <1>2, <1>3, <1>4, <1>5
<1>7. Violation(pick') = LeastViolation(pop)
  BY <1>1, <1>6, FirstFrontIsLeast
<1>8. TypeOK'
  BY DEF TypeOK, FinishNsga, Count, Finished
<1> QED
  BY <1>7, <1>8

LEMMA StepTyped == ASSUME TypeOK, [Next]_vars PROVE TypeOK'
<1>1. CASE Breed
  BY <1>1, BreedTyped
<1>2. CASE SelectNsga
  BY <1>2, SelectNsgaTyped
<1>3. CASE SelectSeng
  BY <1>3, SelectSengTyped
<1>4. CASE FinishNsga
  BY <1>4, FinishNsgaPicks
<1>5. CASE FinishSeng
  BY <1>5 DEF TypeOK, FinishSeng, Count, Finished
<1>6. CASE UNCHANGED vars
  BY <1>6 DEF TypeOK, vars, Count
<1> QED
  BY <1>1, <1>2, <1>3, <1>4, <1>5, <1>6 DEF Next

(* Every population is one of individuals, as many as at the start.        *)
THEOREM SearchTyped == Spec => []TypeOK
<1>1. Init => TypeOK
  BY InitTyped
<1>2. TypeOK /\ [Next]_vars => TypeOK'
  BY StepTyped
<1> QED
  BY <1>1, <1>2, PTL DEF Spec

-----------------------------------------------------------------------------
(* Crossover and mutation of any cut and swap leave orders of the members, *)
(* in every population and among all children.                             *)
THEOREM OrdersKept == Spec => []ChildrenAreOrders
<1>1. TypeOK => ChildrenAreOrders
  <2> SUFFICES ASSUME TypeOK, NEW x \in Range(pop \o offspring), NEW s \in Slices
               PROVE  Len(x.seg[s]) = Len(Members[s]) /\ Range(x.seg[s]) = Range(Members[s])
    BY DEF ChildrenAreOrders
  <2>1. x \in Individuals
    <3> DEFINE all == pop \o offspring
    <3>1. all \in Seq(Individuals)
      BY AllTyped
    <3> HIDE DEF all
    <3>2. \A i \in DOMAIN all : all[i] \in Individuals
      BY <3>1
    <3>3. PICK i \in DOMAIN all : x = all[i]
      BY DEF all, Range
    <3> QED
      BY <3>2, <3>3
  <2>2. x.seg[s] \in Orders(s)
    <3>1. x.seg \in Chromosomes
      BY <2>1 DEF Individuals
    <3>2. s = 0 \/ s = 1 \/ s = 2
      BY DEF Slices
    <3> QED
      BY <3>1, <3>2, SegsAreOrders
  <2> QED
    BY <2>2, OrderFacts
<1> QED
  BY <1>1, SearchTyped, PTL

(* The peeling ranks by the depth of dominance, whatever the scores are.   *)
THEOREM RanksByDepth == Spec => []FrontsAreDepths
<1>1. TypeOK => FrontsAreDepths
  <2> SUFFICES ASSUME TypeOK PROVE FrontsAreDepths
    OBVIOUS
  <2>1. Depths(pop \o offspring)
    BY AllTyped, RanksAreDepths
  <2> QED
    BY <2>1 DEF Depths, FrontsAreDepths
<1> QED
  BY <1>1, SearchTyped, PTL

(* No generation of NSGA-II loses ground, whatever was bred.               *)
THEOREM SelectionKeepsTop == Spec => SelectionIsElitist
<1> DEFINE Ground ==
      router = "nsga" =>
       /\ LeastViolation(pop') <= LeastViolation(pop)
       /\ Len(pop') = size
       /\ pop' # pop =>
            LET all == pop \o offspring
                kept(x) == \E k \in DOMAIN pop' : pop'[k].seg = x.seg
            IN  \A i \in DOMAIN all, k \in DOMAIN pop' :
                  kept(all[i]) \/ ~Dominates(all[i], pop'[k])
       /\ pick' # pick => Violation(pick') = LeastViolation(pop)
<1>1. ASSUME TypeOK, Next, router = "nsga" PROVE Ground
  <2>1. pop \in Seq(Individuals) /\ Len(pop) = size /\ size \in Nat \ {0} /\ Len(pop) > 0
    BY <1>1 DEF TypeOK
  <2>2. LeastViolation(pop) \in Nat
    BY <2>1, LeastOf
  <2>3. CASE pop' = pop /\ pick' = pick
    <3>1. LeastViolation(pop) <= LeastViolation(pop)
      BY <2>2
    <3>2. LeastViolation(pop') = LeastViolation(pop) /\ Len(pop') = Len(pop)
      BY <2>3
    <3> QED
      BY <2>1, <2>3, <3>1, <3>2
  <2>4. CASE SelectNsga
    <3> DEFINE all == pop \o offspring
    <3>1. /\ all \in Seq(Individuals) /\ Len(all) >= size
          /\ \A i \in 1..size : i \in 1..Len(all) /\ all[i] = pop[i]
      BY <1>1, AllTyped
    <3>2. pop' = Survivors(all) /\ pick' = pick
      BY <2>4 DEF SelectNsga
    <3> HIDE DEF all
    <3>3. /\ LeastViolation(pop') = LeastViolation(all) /\ Len(pop') = size
          /\ pop' \in Seq(Individuals)
          /\ \A i \in 1..Len(all), k \in 1..size :
               (\E l \in 1..size : pop'[l].seg = all[i].seg) \/ ~Dominates(all[i], pop'[k])
      BY <2>1, <3>1, <3>2, SurvivorsTyped, SurvivorsAreTop
    <3>4. LeastViolation(all) <= LeastViolation(pop)
      <4>1. PICK i \in 1..size : Violation(pop[i]) = LeastViolation(pop)
        BY <2>1, LeastOf
      <4>2. Len(all) > 0
        BY <2>1, <3>1
      <4>3. LeastViolation(all) <= Violation(all[i])
        BY <3>1, <4>2, LeastOf
      <4> QED
        BY <3>1, <4>1, <4>3
    <3>5. DOMAIN pop' = 1..size /\ DOMAIN all = 1..Len(all)
      BY <3>1, <3>3
    <3>6. LeastViolation(pop') <= LeastViolation(pop)
      BY <3>3, <3>4
    <3> QED
      BY <3>2, <3>3, <3>5, <3>6 DEF all
  <2>5. CASE FinishNsga
    <3>1. Violation(pick') = LeastViolation(pop) /\ pop' = pop
      BY <1>1, <2>5, FinishNsgaPicks DEF FinishNsga
    <3>2. LeastViolation(pop) <= LeastViolation(pop)
      BY <2>2
    <3>3. LeastViolation(pop') = LeastViolation(pop) /\ Len(pop') = Len(pop)
      BY <3>1
    <3> QED
      BY <2>1, <3>1, <3>2, <3>3
  <2>6. CASE Breed
    BY <2>3, <2>6 DEF Breed
  <2>7. ~SelectSeng /\ ~FinishSeng
    BY <1>1 DEF SelectSeng, FinishSeng
  <2> QED
    BY <1>1, <2>4, <2>5, <2>6, <2>7 DEF Next
<1>2. TypeOK /\ [Next]_vars => [Ground]_vars
  BY <1>1 DEF Ground
<1> QED
  BY <1>2, SearchTyped, PTL DEF Spec, SelectionIsElitist

(* The baseline's cheapest solution is never lost.                         *)
THEOREM BestKept == Spec => SengKeepsBest
<1> DEFINE Kept ==
      router = "seng" =>
       /\ pop'[Best(pop')].cost <= pop[Best(pop)].cost
       /\ Len(pop') = size
       /\ pick' # pick => pick'.cost = pop[Best(pop)].cost
<1>1. ASSUME TypeOK, Next, router = "seng" PROVE Kept
  <2>1. pop \in Seq(Individuals) /\ Len(pop) = size /\ Len(pop) > 0
    BY <1>1 DEF TypeOK
  <2>2. pop[Best(pop)].cost \in Int
    BY <2>1, BestIsLeast
  <2>3. CASE pop' = pop /\ pick' = pick
    <3>1. pop'[Best(pop')].cost = pop[Best(pop)].cost /\ Len(pop') = Len(pop)
      BY <2>3
    <3>2. pop[Best(pop)].cost <= pop[Best(pop)].cost
      BY <2>2
    <3> QED
      BY <2>1, <2>3, <3>1, <3>2
  <2>4. CASE SelectSeng
    <3>1. TypeOK' /\ pop'[1] = pop[Best(pop)] /\ 1 \in 1..Len(pop')
      BY <1>1, <2>4, SelectSengTyped
    <3>2. pop' \in Seq(Individuals) /\ Len(pop') = size' /\ size' = size /\ pick' = pick
          /\ Len(pop') > 0
      BY <2>1, <2>4, <3>1 DEF TypeOK, SelectSeng
    <3>3. pop'[Best(pop')].cost <= pop'[1].cost
      BY <3>1, <3>2, BestIsLeast
    <3> QED
      BY <3>1, <3>2, <3>3
  <2>5. CASE FinishSeng
    <3>1. pick' = pop[Best(pop)] /\ pop' = pop
      BY <2>5 DEF FinishSeng
    <3>2. pop'[Best(pop')].cost = pop[Best(pop)].cost /\ Len(pop') = Len(pop)
      BY <3>1
    <3>3. pop[Best(pop)].cost <= pop[Best(pop)].cost
      BY <2>2
    <3> QED
      BY <2>1, <3>1, <3>2, <3>3
  <2>6. CASE Breed
    BY <2>3, <2>6 DEF Breed
  <2>7. ~SelectNsga /\ ~FinishNsga
    BY <1>1 DEF SelectNsga, FinishNsga
  <2> QED
    BY <1>1, <2>4, <2>5, <2>6, <2>7 DEF Next
<1>2. TypeOK /\ [Next]_vars => [Kept]_vars
  BY <1>1 DEF Kept
<1> QED
  BY <1>2, SearchTyped, PTL DEF Spec, SengKeepsBest

-----------------------------------------------------------------------------
(* Two populations alike but for URLLC's objective, which in one is three  *)
(* times what it is in the other.                                          *)

Times(m) == IF m = 2 THEN 3 ELSE 1
Triple(x, y) ==
  /\ x \in Individuals /\ y \in Individuals
  /\ y.seg = x.seg /\ y.stranded = x.stranded /\ y.saturated = x.saturated
  /\ \A m \in Objectives : y.obj[m] = Times(m) * x.obj[m]
Triples(p, q) ==
  /\ p \in Seq(Individuals) /\ q \in Seq(Individuals) /\ Len(q) = Len(p)
  /\ \A i \in 1..Len(p) : Triple(p[i], q[i])

LEMMA TripledTyped ==
  ASSUME NEW p \in Seq(Individuals)
  PROVE  Triples(p, [k \in DOMAIN p |-> [p[k] EXCEPT !.obj[2] = 3 * @]])
<1> DEFINE q == [k \in DOMAIN p |-> [p[k] EXCEPT !.obj[2] = 3 * @]]
<1>1. DOMAIN p = 1..Len(p) /\ Len(p) \in Nat
  OBVIOUS
<1>2. ASSUME NEW k \in 1..Len(p) PROVE Triple(p[k], q[k])
  <2> DEFINE x == p[k]
  <2>1. x \in Individuals /\ q[k] = [x EXCEPT !.obj[2] = 3 * @]
    BY <1>1
  <2> HIDE DEF x, q
  <2>2. /\ x.obj \in [Objectives -> Int] /\ x.obj[2] \in Int /\ 3 * x.obj[2] \in Int
    BY <2>1 DEF Individuals, Objectives
  <2>3. /\ q[k].seg = x.seg /\ q[k].stranded = x.stranded /\ q[k].saturated = x.saturated
        /\ q[k].obj = [x.obj EXCEPT ![2] = 3 * x.obj[2]] /\ q[k] \in Individuals
    <3>1. [x.obj EXCEPT ![2] = 3 * x.obj[2]] \in [Objectives -> Int]
      BY <2>2
    <3>2. q[k] = [x EXCEPT !.obj = [x.obj EXCEPT ![2] = 3 * x.obj[2]]]
      BY <2>1
    <3> DEFINE o == [x.obj EXCEPT ![2] = 3 * x.obj[2]]
    <3> HIDE DEF o
    <3>3. q[k] = [x EXCEPT !.obj = o] /\ o \in [Objectives -> Int]
      BY <3>1, <3>2 DEF o
    <3>4. /\ q[k].seg = x.seg /\ q[k].stranded = x.stranded /\ q[k].saturated = x.saturated
          /\ q[k].obj = o /\ q[k] \in Individuals
      BY <2>1, <3>3 DEF Individuals
    <3> QED
      BY <3>4 DEF o
  <2>4. ASSUME NEW m \in Objectives PROVE q[k].obj[m] = Times(m) * x.obj[m]
    <3>1. x.obj[m] \in Int
      BY <2>1, SenseIsInt
    <3> QED
      BY <2>2, <2>3, <3>1 DEF Times
  <2> QED
    BY <2>1, <2>3, <2>4 DEF Triple, x
<1>3. q \in [1..Len(p) -> Individuals]
  <2>1. \A k \in 1..Len(p) : q[k] \in Individuals
    BY <1>2 DEF Triple
  <2> QED
    BY <1>1, <2>1
<1> HIDE DEF q
<1>4. q \in Seq(Individuals) /\ Len(q) = Len(p)
  BY <1>1, <1>3, FunctionIsSeq
<1>5. Triples(p, q)
  BY <1>2, <1>4 DEF Triples
<1> QED
  BY <1>5 DEF q

LEMMA TimesKeep ==
  ASSUME NEW m \in Objectives, NEW a \in Int, NEW b \in Int
  PROVE  /\ Times(m) * a \in Int /\ Times(m) \in {1, 3}
         /\ (Times(m) * a < Times(m) * b <=> a < b)
         /\ (Times(m) * a = Times(m) * b <=> a = b)
         /\ (Times(m) * a > Times(m) * b <=> a > b)
         /\ (Times(m) * a >= Times(m) * b <=> a >= b)
         /\ Times(m) * a - Times(m) * b = Times(m) * (a - b)
         /\ -(Times(m) * a) = Times(m) * (-a)
<1>1. Times(m) \in {1, 3}
  BY DEF Times
<1>2. CASE Times(m) = 1
  BY <1>2
<1>3. CASE Times(m) = 3
  BY <1>3
<1> QED
  BY <1>1, <1>2, <1>3

LEMMA GapKeeps ==
  ASSUME NEW m \in Objectives, NEW gap \in Int, NEW span \in Int
  PROVE  Gap(Times(m) * gap, Times(m) * span) = Gap(gap, span)
<1>1. Times(m) = 1 \/ Times(m) = 3
  BY DEF Times
<1>2. CASE Times(m) = 1
  BY <1>2
<1>3. CASE Times(m) = 3
  <2>1. Unit \in Nat
    BY SearchAssumption
  <2> DEFINE x == Unit * gap
  <2>2. x \in Int /\ Unit * (3 * gap) = 3 * x
    BY <2>1
  <2> HIDE DEF x
  <2>3. 3 * span <= 0 <=> span <= 0
    OBVIOUS
  <2>4. span > 0 => (3 * x) \div (3 * span) = x \div span
    BY <2>2
  <2> QED
    BY <1>3, <2>2, <2>3, <2>4 DEF Gap, x
<1> QED
  BY <1>1, <1>2, <1>3

LEMMA TripleDominates ==
  ASSUME NEW x, NEW y, NEW v, NEW w, Triple(x, v), Triple(y, w)
  PROVE  /\ Dominates(x, y) <=> Dominates(v, w)
         /\ \A m \in Objectives : /\ Sense(x, m) > Sense(y, m) <=> Sense(v, m) > Sense(w, m)
                                  /\ x.obj[m] = y.obj[m] <=> v.obj[m] = w.obj[m]
                                  /\ x.obj[m] < y.obj[m] <=> v.obj[m] < w.obj[m]
<1>1. ASSUME NEW m \in Objectives
      PROVE  /\ Sense(x, m) > Sense(y, m) <=> Sense(v, m) > Sense(w, m)
             /\ Sense(x, m) >= Sense(y, m) <=> Sense(v, m) >= Sense(w, m)
             /\ x.obj[m] = y.obj[m] <=> v.obj[m] = w.obj[m]
             /\ x.obj[m] < y.obj[m] <=> v.obj[m] < w.obj[m]
  <2> DEFINE a == x.obj[m]
             b == y.obj[m]
  <2>1. /\ a \in Int /\ b \in Int /\ v.obj[m] = Times(m) * a /\ w.obj[m] = Times(m) * b
    BY SenseIsInt DEF Triple
  <2>2. /\ Sense(x, m) = (IF Maximize[m] THEN a ELSE -a)
        /\ Sense(y, m) = (IF Maximize[m] THEN b ELSE -b)
        /\ Sense(v, m) = (IF Maximize[m] THEN v.obj[m] ELSE -v.obj[m])
        /\ Sense(w, m) = (IF Maximize[m] THEN w.obj[m] ELSE -w.obj[m])
    BY DEF Sense
  <2> HIDE DEF a, b
  <2>3. /\ v.obj[m] < w.obj[m] <=> a < b
        /\ v.obj[m] = w.obj[m] <=> a = b
        /\ v.obj[m] > w.obj[m] <=> a > b
        /\ v.obj[m] >= w.obj[m] <=> a >= b
    BY <2>1, TimesKeep
  <2>4. v.obj[m] \in Int /\ w.obj[m] \in Int
    BY <2>1, TimesKeep
  <2>5. /\ -v.obj[m] > -w.obj[m] <=> -a > -b
        /\ -v.obj[m] >= -w.obj[m] <=> -a >= -b
    BY <2>1, <2>3, <2>4
  <2>6. /\ Sense(x, m) > Sense(y, m) <=> Sense(v, m) > Sense(w, m)
        /\ Sense(x, m) >= Sense(y, m) <=> Sense(v, m) >= Sense(w, m)
    BY <2>2, <2>3, <2>5
  <2> QED
    BY <2>3, <2>6 DEF a, b
<1>2. Violation(x) = Violation(v) /\ Violation(y) = Violation(w)
  BY DEF Triple, Violation
<1>3. Dominates(x, y) <=> Dominates(v, w)
  BY <1>1, <1>2 DEF Dominates
<1> QED
  BY <1>1, <1>3

(* The peeling is the same. *)
LEMMA TripleUndominated ==
  ASSUME NEW p, NEW q, Triples(p, q), NEW left \in SUBSET (1..Len(p)),
         NEW previous \in Seq(1..Len(p))
  PROVE  Undominated(q, left, previous) = Undominated(p, left, previous)
<1> DEFINE free(r) == {i \in left : \A j \in left : ~Dominates(r[j], r[i])}
           freed(r, i) ==
             Max({0} \cup {k \in DOMAIN previous : Dominates(r[previous[k]], r[i])})
<1>1. \A i, j \in 1..Len(p) : Dominates(q[j], q[i]) <=> Dominates(p[j], p[i])
  BY TripleDominates DEF Triples
<1>2. free(q) = free(p)
  BY <1>1
<1>3. ASSUME NEW i \in free(p) PROVE freed(q, i) = freed(p, i)
  <2>1. \A k \in DOMAIN previous : previous[k] \in 1..Len(p)
    OBVIOUS
  <2>2. i \in 1..Len(p)
    OBVIOUS
  <2>3. {k \in DOMAIN previous : Dominates(q[previous[k]], q[i])}
          = {k \in DOMAIN previous : Dominates(p[previous[k]], p[i])}
    BY <1>1, <2>1, <2>2
  <2> QED
    BY <2>3
<1> HIDE DEF free, freed
<1>4. [i \in free(q) |-> freed(q, i)] = [i \in free(p) |-> freed(p, i)]
  BY <1>2, <1>3
<1>5. \A r : Undominated(r, left, previous) = StableOrder([i \in free(r) |-> freed(r, i)])
  BY DEF Undominated, free, freed
<1> QED
  BY <1>4, <1>5

LEMMA TripleSort ==
  ASSUME NEW p, NEW q, Triples(p, q)
  PROVE  FastNonDominatedSort(q) = FastNonDominatedSort(p)
<1>1. p \in Seq(Individuals) /\ q \in Seq(Individuals) /\ Len(q) = Len(p)
  BY DEF Triples
<1>2. DOMAIN p = 1..Len(p) /\ DOMAIN q = 1..Len(p) /\ Len(p) \in Nat
  BY <1>1
<1>3. ASSUME NEW fronts \in Seq(Seq(1..Len(p))) PROVE Peeled(q, fronts) = Peeled(p, fronts)
  <2> DEFINE previous == IF fronts = <<>> THEN <<>> ELSE fronts[Len(fronts)]
             left == Left(p, fronts)
  <2>1. Left(q, fronts) = left
    BY <1>2 DEF Left
  <2>2. left \in SUBSET (1..Len(p))
    BY <1>1, LeftIsBeyond
  <2>3. previous \in Seq(1..Len(p))
    <3>1. CASE fronts = <<>>
      BY <3>1
    <3>2. CASE fronts # <<>>
      <4>1. Len(fronts) \in 1..Len(fronts)
        BY <3>2
      <4> QED
        BY <3>2, <4>1
    <3> QED
      BY <3>1, <3>2
  <2>4. /\ Peeled(p, fronts) =
             IF left = {} THEN fronts ELSE Append(fronts, Undominated(p, left, previous))
        /\ Peeled(q, fronts) =
             IF Left(q, fronts) = {} THEN fronts
             ELSE Append(fronts, Undominated(q, Left(q, fronts), previous))
    BY DEF Peeled
  <2> HIDE DEF left, previous
  <2>5. Undominated(q, left, previous) = Undominated(p, left, previous)
    BY <2>2, <2>3, TripleUndominated
  <2> QED
    BY <2>1, <2>4, <2>5
<1>4. PeelsOf(q) = PeelsOf(p)
  <2> DEFINE S == Seq(Seq(1..Len(p)))
  <2>1. PeelsOf(p) = [n \in 1..Len(p) |-> [fronts \in S |-> Peeled(p, fronts)]]
    BY DEF PeelsOf
  <2>2. PeelsOf(q) = [n \in 1..Len(p) |-> [fronts \in S |-> Peeled(q, fronts)]]
    BY <1>1 DEF PeelsOf
  <2>3. \A fronts \in S : Peeled(q, fronts) = Peeled(p, fronts)
    BY <1>3
  <2> HIDE DEF S
  <2>4. [fronts \in S |-> Peeled(q, fronts)] = [fronts \in S |-> Peeled(p, fronts)]
    BY <2>3
  <2> QED
    BY <2>1, <2>2, <2>4
<1> DEFINE none == <<>>
           N == Len(p)
           S == Seq(Seq(1..N))
<1>5. PICK g : Iteration(S, none, N, PeelsOf(p), g) /\ FastNonDominatedSort(p) = g[N]
  BY <1>1, SortPeels
<1>6. PICK h : Iteration(S, none, N, PeelsOf(q), h) /\ FastNonDominatedSort(q) = h[N]
  <2>1. \E h : /\ Iteration(Seq(Seq(1..Len(q))), <<>>, Len(q), PeelsOf(q), h)
               /\ FastNonDominatedSort(q) = h[Len(q)]
    BY <1>1, SortPeels
  <2> QED
    BY <1>1, <2>1
<1> HIDE DEF none, N, S
<1>7. N \in Nat
  BY <1>2 DEF N
<1>8. g = h
  BY <1>4, <1>5, <1>6, <1>7, IterationIsOne
<1> QED
  BY <1>5, <1>6, <1>8

(* So is the crowding, every objective in parts of its range. *)
LEMMA TripleAlong ==
  ASSUME NEW p, NEW q, Triples(p, q), NEW front \in Seq(1..Len(p)), NEW m \in Objectives
  PROVE  Along(q, front, m) = Along(p, front, m)
<1> DEFINE D == 1..Len(front)
           key == [k \in DOMAIN front |-> p[front[k]].obj[m]]
           other == [k \in DOMAIN front |-> q[front[k]].obj[m]]
<1>1. DOMAIN front = D /\ D \in SUBSET Int /\ \A k \in D : front[k] \in 1..Len(p)
  OBVIOUS
<1>2. \A k \in D : Triple(p[front[k]], q[front[k]])
  BY <1>1 DEF Triples
<1> HIDE DEF D
<1>3. ASSUME NEW k \in D
      PROVE  p[front[k]].obj[m] \in Int /\ q[front[k]].obj[m] \in Int
  <2>1. p[front[k]] \in Individuals /\ q[front[k]] \in Individuals
    BY <1>2 DEF Triple
  <2> QED
    BY <2>1, SenseIsInt
<1>4. key \in [D -> Int] /\ other \in [D -> Int]
  BY <1>1, <1>3
<1>5. ASSUME NEW i \in D, NEW j \in D
      PROVE  (key[i] < key[j] <=> other[i] < other[j]) /\ (key[i] = key[j] <=> other[i] = other[j])
  <2>1. /\ p[front[i]].obj[m] < p[front[j]].obj[m] <=> q[front[i]].obj[m] < q[front[j]].obj[m]
        /\ p[front[i]].obj[m] = p[front[j]].obj[m] <=> q[front[i]].obj[m] = q[front[j]].obj[m]
    BY <1>2, TripleDominates
  <2> QED
    BY <1>1, <2>1
<1>6. Along(p, front, m) = Sorted(front, key) /\ Along(q, front, m) = Sorted(front, other)
  BY DEF Along
<1> HIDE DEF key, other
<1>7. StableOrder(key) = StableOrder(other)
  BY <1>1, <1>4, <1>5, OrderOfComparisons
<1>8. Sorted(front, key) = Sorted(front, other)
  BY <1>7 DEF Sorted
<1> QED
  BY <1>6, <1>8

LEMMA TripleCrowding ==
  ASSUME NEW p, NEW q, Triples(p, q), NEW front \in Seq(1..Len(p)), NEW i \in Range(front)
  PROVE  Crowding(q, front)[i] = Crowding(p, front)[i]
<1> DEFINE idx == <<Along(p, front, 1), Along(p, front, 2), Along(p, front, 3)>>
           at == [m \in Objectives |-> CHOOSE k \in DOMAIN front : idx[m][k] = i]
           obj(r, m, k) == r[idx[m][k]].obj[m]
           gap(r, m) == Gap(obj(r, m, at[m] + 1) - obj(r, m, at[m] - 1),
                            obj(r, m, Len(front)) - obj(r, m, 1))
           edge == Len(front) <= 2 \/ \E m \in Objectives : at[m] \in {1, Len(front)}
<1>0. p \in Seq(Individuals) /\ q \in Seq(Individuals) /\ Len(q) = Len(p)
  BY DEF Triples
<1>1. Crowding(p, front)[i] = IF edge THEN Boundless ELSE gap(p, 1) + gap(p, 2) + gap(p, 3)
  BY DEF Crowding
<1>2. Crowding(q, front)[i] = IF edge THEN Boundless ELSE gap(q, 1) + gap(q, 2) + gap(q, 3)
  <2>1. idx = <<Along(q, front, 1), Along(q, front, 2), Along(q, front, 3)>>
    BY TripleAlong DEF Objectives
  <2> DEFINE idy == <<Along(q, front, 1), Along(q, front, 2), Along(q, front, 3)>>
             ay == [m \in Objectives |-> CHOOSE k \in DOMAIN front : idy[m][k] = i]
             obk(m, k) == q[idy[m][k]].obj[m]
             gaq(m) == Gap(obk(m, ay[m] + 1) - obk(m, ay[m] - 1), obk(m, Len(front)) - obk(m, 1))
             edgy == Len(front) <= 2 \/ \E m \in Objectives : ay[m] \in {1, Len(front)}
  <2>2. Crowding(q, front)[i] = IF edgy THEN Boundless ELSE gaq(1) + gaq(2) + gaq(3)
    BY DEF Crowding
  <2>3. idy = idx
    BY <2>1
  <2> HIDE DEF idx, idy
  <2>4. ay = at
    BY <2>3
  <2>5. \A m \in Objectives : gaq(m) = gap(q, m)
    BY <2>3, <2>4
  <2>6. edgy <=> edge
    BY <2>4
  <2> HIDE DEF gap, gaq, edge, edgy
  <2>7. gaq(1) = gap(q, 1) /\ gaq(2) = gap(q, 2) /\ gaq(3) = gap(q, 3)
    BY <2>5 DEF Objectives
  <2> QED
    BY <2>2, <2>6, <2>7
<1>3. DOMAIN front = 1..Len(front) /\ Len(front) \in Nat
  OBVIOUS
<1>4. ASSUME NEW m \in Objectives
      PROVE  /\ idx[m] \in Seq(1..Len(p)) /\ Len(idx[m]) = Len(front)
             /\ \E k \in 1..Len(front) : idx[m][k] = i
  <2>1. idx[m] = Along(p, front, m)
    BY DEF Objectives
  <2> HIDE DEF idx
  <2>2. /\ Along(p, front, m) \in Seq(1..Len(p)) /\ Len(Along(p, front, m)) = Len(front)
        /\ \A j \in Range(front) : \E k \in 1..Len(front) : Along(p, front, m)[k] = j
    BY <1>0, AlongLists
  <2> QED
    BY <2>1, <2>2
<1> HIDE DEF idx
<1>5. ASSUME NEW m \in Objectives, ~edge PROVE gap(q, m) = gap(p, m)
  <2>1. \E k \in 1..Len(front) : idx[m][k] = i
    BY <1>4
  <2>2. at[m] \in 1..Len(front)
    BY <1>3, <2>1
  <2>3. at[m] # 1 /\ at[m] # Len(front)
    BY <1>5
  <2> HIDE DEF at
  <2>4. /\ at[m] + 1 \in 1..Len(front) /\ at[m] - 1 \in 1..Len(front)
        /\ Len(front) \in 1..Len(front) /\ 1 \in 1..Len(front)
    BY <1>3, <2>2, <2>3
  <2>5. ASSUME NEW k \in 1..Len(front)
        PROVE  obj(p, m, k) \in Int /\ obj(q, m, k) = Times(m) * obj(p, m, k)
    <3> DEFINE a == idx[m]
    <3>1. a \in Seq(1..Len(p)) /\ Len(a) = Len(front)
      BY <1>4
    <3> HIDE DEF a
    <3>2. a[k] \in 1..Len(p)
      BY <3>1
    <3>3. Triple(p[a[k]], q[a[k]])
      BY <3>2 DEF Triples
    <3>4. p[a[k]].obj[m] \in Int /\ q[a[k]].obj[m] = Times(m) * p[a[k]].obj[m]
      BY <3>3, SenseIsInt DEF Triple
    <3> QED
      BY <3>4 DEF a
  <2> HIDE DEF obj
  <2> DEFINE u == obj(p, m, at[m] + 1)
             v == obj(p, m, at[m] - 1)
             w == obj(p, m, Len(front))
             z == obj(p, m, 1)
  <2>6. /\ u \in Int /\ v \in Int /\ w \in Int /\ z \in Int
        /\ gap(p, m) = Gap(u - v, w - z)
        /\ gap(q, m) = Gap(Times(m) * u - Times(m) * v, Times(m) * w - Times(m) * z)
    BY <2>4, <2>5
  <2> HIDE DEF u, v, w, z, gap
  <2>7. /\ Times(m) * u - Times(m) * v = Times(m) * (u - v)
        /\ Times(m) * w - Times(m) * z = Times(m) * (w - z)
    <3>1. Times(m) = 1 \/ Times(m) = 3
      BY DEF Times
    <3> QED
      BY <2>6, <3>1
  <2>8. u - v \in Int /\ w - z \in Int
    BY <2>6
  <2> QED
    BY <2>6, <2>7, <2>8, GapKeeps
<1> HIDE DEF gap
<1>6. ~edge => gap(q, 1) = gap(p, 1) /\ gap(q, 2) = gap(p, 2) /\ gap(q, 3) = gap(p, 3)
  BY <1>5 DEF Objectives
<1> HIDE DEF edge
<1> QED
  BY <1>1, <1>2, <1>6

(* So the same are taken, *)
LEMMA TripleFilled ==
  ASSUME NEW p, NEW q, Triples(p, q), NEW taken, NEW front \in Seq(1..Len(p))
  PROVE  Filled(q, taken, front) = Filled(p, taken, front)
<1>1. \A k \in DOMAIN front : front[k] \in Range(front)
  BY DEF Range
<1>2. \A k \in DOMAIN front : Crowding(q, front)[front[k]] = Crowding(p, front)[front[k]]
  BY <1>1, TripleCrowding
<1>3. [k \in DOMAIN front |-> -Crowding(q, front)[front[k]]]
        = [k \in DOMAIN front |-> -Crowding(p, front)[front[k]]]
  BY <1>2
<1>4. \A r : Spread(r, front) = Sorted(front, [k \in DOMAIN front |-> -Crowding(r, front)[front[k]]])
  BY DEF Spread
<1>5. Spread(q, front) = Spread(p, front)
  BY <1>3, <1>4
<1> QED
  BY <1>5 DEF Filled

LEMMA TripleChosen ==
  ASSUME NEW p, NEW q, Triples(p, q), size \in Nat
  PROVE  Chosen(q) = Chosen(p)
<1> DEFINE fronts == FastNonDominatedSort(p)
           none == <<>>
           S == {t \in Seq(1..Len(p)) : Len(t) <= size}
<1>1. p \in Seq(Individuals) /\ q \in Seq(Individuals) /\ Len(q) = Len(p)
  BY DEF Triples
<1>2. FastNonDominatedSort(q) = fronts
  BY TripleSort
<1>3. \A n \in 1..Len(fronts) : fronts[n] \in Seq(1..Len(p))
  BY <1>1, FrontsTyped
<1>4. Len(fronts) \in Nat
  BY <1>1, FrontsTyped
<1>5. PICK g : Iteration(S, none, Len(fronts), FillsOf(p), g) /\ Chosen(p) = g[Len(fronts)]
  BY <1>1, ChosenFills
<1>6. PICK h : Iteration(S, none, Len(fronts), FillsOf(q), h) /\ Chosen(q) = h[Len(fronts)]
  <2>1. \E h : /\ Iteration({t \in Seq(1..Len(q)) : Len(t) <= size}, <<>>,
                            Len(FastNonDominatedSort(q)), FillsOf(q), h)
               /\ Chosen(q) = h[Len(FastNonDominatedSort(q))]
    BY <1>1, ChosenFills
  <2> QED
    BY <1>1, <1>2, <2>1
<1>7. FillsOf(q) = FillsOf(p)
  <2>1. FillsOf(p) = [n \in 1..Len(fronts) |-> [t \in S |-> Filled(p, t, fronts[n])]]
    BY DEF FillsOf
  <2>2. FillsOf(q) = [n \in 1..Len(fronts) |-> [t \in S |-> Filled(q, t, fronts[n])]]
    BY <1>1, <1>2 DEF FillsOf
  <2> HIDE DEF S, fronts
  <2>3. ASSUME NEW n \in 1..Len(fronts)
        PROVE  [t \in S |-> Filled(q, t, fronts[n])] = [t \in S |-> Filled(p, t, fronts[n])]
    <3>1. \A t \in S : Filled(q, t, fronts[n]) = Filled(p, t, fronts[n])
      BY <1>3, TripleFilled
    <3> QED
      BY <3>1
  <2> QED
    BY <2>1, <2>2, <2>3
<1> HIDE DEF fronts, none, S
<1>8. g = h
  BY <1>4, <1>5, <1>6, <1>7, IterationIsOne
<1> QED
  BY <1>5, <1>6, <1>8

LEMMA TripleSurvivors ==
  ASSUME NEW p, NEW q, Triples(p, q), size \in Nat \ {0}, Len(p) >= size
  PROVE  [k \in DOMAIN Survivors(q) |-> Survivors(q)[k].seg]
           = [k \in DOMAIN Survivors(p) |-> Survivors(p)[k].seg]
<1>1. p \in Seq(Individuals) /\ q \in Seq(Individuals) /\ Len(q) = Len(p) /\ size \in Nat
  BY DEF Triples
<1>2. Chosen(q) = Chosen(p)
  BY <1>1, TripleChosen
<1>3. /\ Survivors(p) \in Seq(Individuals) /\ Len(Survivors(p)) = size
      /\ \A k \in 1..size : Chosen(p)[k] \in 1..Len(p) /\ Alike(Survivors(p)[k], p[Chosen(p)[k]])
  BY <1>1, SurvivorsTyped
<1>4. /\ Survivors(q) \in Seq(Individuals) /\ Len(Survivors(q)) = size
      /\ \A k \in 1..size : Alike(Survivors(q)[k], q[Chosen(q)[k]])
  BY <1>1, SurvivorsTyped
<1>5. DOMAIN Survivors(p) = 1..size /\ DOMAIN Survivors(q) = 1..size
  BY <1>3, <1>4
<1>6. ASSUME NEW k \in 1..size PROVE Survivors(q)[k].seg = Survivors(p)[k].seg
  <2>1. Triple(p[Chosen(p)[k]], q[Chosen(p)[k]])
    BY <1>3 DEF Triples
  <2> QED
    BY <1>2, <1>3, <1>4, <2>1 DEF Triple, Alike
<1> QED
  BY <1>5, <1>6

(* and the knee is in the same place. *)
LEMMA TripleExtremes ==
  ASSUME NEW S, IsFiniteSet(S), S # {}, NEW v \in [S -> Int], NEW m \in Objectives,
         NEW V, V = {v[i] : i \in S}, NEW U, U = {Times(m) * v[i] : i \in S}
  PROVE  /\ Max(V) \in Int /\ Min(V) \in Int
         /\ Max(U) = Times(m) * Max(V) /\ Min(U) = Times(m) * Min(V)
<1> DEFINE w == [i \in S |-> Times(m) * v[i]]
           W == {w[i] : i \in S}
<1>1. \A i \in S : v[i] \in Int /\ w[i] \in Int
  BY TimesKeep
<1>2. V \in SUBSET Int /\ V # {} /\ IsFiniteSet(V)
  <2>1. DOMAIN v = S /\ v = [i \in S |-> v[i]]
    OBVIOUS
  <2>2. IsFiniteSet(V)
    BY <2>1, FiniteImage
  <2> QED
    BY <1>1, <2>2
<1>3. W \in SUBSET Int /\ W # {} /\ IsFiniteSet(W)
  <2>1. DOMAIN w = S /\ w = [i \in S |-> w[i]]
    OBVIOUS
  <2> HIDE DEF w
  <2>2. IsFiniteSet(W)
    BY <2>1, FiniteImage
  <2> QED
    BY <1>1, <2>2
<1>4. W = U /\ \A x : x \in W <=> \E y \in V : x = Times(m) * y
  OBVIOUS
<1> HIDE DEF W, w
<1>5. /\ Min(V) \in V /\ Max(V) \in V /\ \A y \in V : Min(V) <= y /\ y <= Max(V)
      /\ Min(W) \in W /\ Max(W) \in W /\ \A x \in W : Min(W) <= x /\ x <= Max(W)
  BY <1>2, <1>3, Extremes
<1>6. PICK a \in V : Max(W) = Times(m) * a
  BY <1>4, <1>5
<1>7. PICK b \in V : Min(W) = Times(m) * b
  BY <1>4, <1>5
<1>8. Times(m) * Max(V) \in W /\ Times(m) * Min(V) \in W
  BY <1>4, <1>5
<1>9. Times(m) = 1 \/ Times(m) = 3
  BY DEF Times
<1>10. a \in Int /\ b \in Int /\ Max(V) \in Int /\ Min(V) \in Int
  BY <1>2, <1>5
<1>11. a <= Max(V) /\ Times(m) * Max(V) <= Times(m) * a
  BY <1>5, <1>6, <1>8
<1>12. Min(V) <= b /\ Times(m) * b <= Times(m) * Min(V)
  BY <1>5, <1>7, <1>8
<1>13. a = Max(V) /\ b = Min(V)
  BY <1>9, <1>10, <1>11, <1>12
<1> QED
  BY <1>4, <1>6, <1>7, <1>10, <1>13

LEMMA TripleKnee ==
  ASSUME NEW p, NEW q, Triples(p, q), Len(p) > 0
  PROVE  KneePoint(q) = KneePoint(p)
<1> DEFINE D == 1..Len(p)
           value(r, m) == {r[i].obj[m] : i \in DOMAIN r}
           off(r, i, m) == IF Maximize[m] THEN Max(value(r, m)) - r[i].obj[m]
                                          ELSE r[i].obj[m] - Min(value(r, m))
           norm(r, i, m) == Gap(off(r, i, m), Max(value(r, m)) - Min(value(r, m)))
           square(x) == x * x
           far(r, i) == square(norm(r, i, 1)) + square(norm(r, i, 2)) + square(norm(r, i, 3))
<1>1. p \in Seq(Individuals) /\ q \in Seq(Individuals) /\ Len(q) = Len(p)
  BY DEF Triples
<1>2. DOMAIN p = D /\ DOMAIN q = D /\ IsFiniteSet(D) /\ D # {}
  <2>1. DOMAIN p = D /\ IsFiniteSet(DOMAIN p)
    BY <1>1, Places
  <2>2. DOMAIN q = D /\ 1 \in D
    BY <1>1
  <2> QED
    BY <2>1, <2>2
<1>3. KneePoint(p) = First([i \in D |-> far(p, i)]) /\ KneePoint(q) = First([i \in D |-> far(q, i)])
  BY <1>2 DEF KneePoint
<1>4. \A i \in D : Triple(p[i], q[i])
  BY DEF Triples
<1> HIDE DEF D
<1>5. ASSUME NEW i \in D, NEW m \in Objectives PROVE norm(q, i, m) = norm(p, i, m)
  <2> DEFINE v == [j \in D |-> p[j].obj[m]]
             V == {v[j] : j \in D}
             W == {Times(m) * v[j] : j \in D}
  <2>1. \A j \in D : p[j].obj[m] \in Int /\ q[j].obj[m] = Times(m) * p[j].obj[m]
    BY <1>4, SenseIsInt DEF Triple
  <2>2. v \in [D -> Int] /\ \A j \in D : v[j] = p[j].obj[m]
    BY <2>1
  <2>3. value(p, m) = V
    BY <1>2
  <2>4. value(q, m) = W
    BY <1>2, <2>1, <2>2
  <2> HIDE DEF v
  <2>5. V = {v[j] : j \in D} /\ W = {Times(m) * v[j] : j \in D}
    OBVIOUS
  <2> HIDE DEF V, W
  <2>6. /\ Max(V) \in Int /\ Min(V) \in Int
        /\ Max(W) = Times(m) * Max(V) /\ Min(W) = Times(m) * Min(V)
    BY <1>2, <2>2, <2>5, TripleExtremes
  <2> HIDE DEF value
  <2> DEFINE a == p[i].obj[m]
             hi == Max(V)
             lo == Min(V)
             gap == IF Maximize[m] THEN hi - a ELSE a - lo
  <2>7. a \in Int /\ hi \in Int /\ lo \in Int /\ q[i].obj[m] = Times(m) * a
    BY <2>1, <2>6
  <2>8. /\ norm(p, i, m) = Gap(gap, hi - lo)
        /\ norm(q, i, m) =
             Gap(IF Maximize[m] THEN Times(m) * hi - q[i].obj[m] ELSE q[i].obj[m] - Times(m) * lo,
                 Times(m) * hi - Times(m) * lo)
    BY <2>3, <2>4, <2>6
  <2> HIDE DEF a, hi, lo, norm
  <2>9. /\ Times(m) * hi - Times(m) * a = Times(m) * (hi - a)
        /\ Times(m) * a - Times(m) * lo = Times(m) * (a - lo)
        /\ Times(m) * hi - Times(m) * lo = Times(m) * (hi - lo)
    <3>1. Times(m) = 1 \/ Times(m) = 3
      BY DEF Times
    <3> QED
      BY <2>7, <3>1
  <2>10. gap \in Int /\ hi - lo \in Int
    BY <2>7
  <2>11. norm(q, i, m) = Gap(Times(m) * gap, Times(m) * (hi - lo))
    BY <2>7, <2>8, <2>9
  <2> HIDE DEF gap
  <2> QED
    BY <2>8, <2>10, <2>11, GapKeeps
<1> HIDE DEF norm
<1>6. ASSUME NEW i \in D PROVE far(q, i) = far(p, i)
  <2>1. norm(q, i, 1) = norm(p, i, 1) /\ norm(q, i, 2) = norm(p, i, 2) /\ norm(q, i, 3) = norm(p, i, 3)
    BY <1>5 DEF Objectives
  <2> QED
    BY <2>1
<1> HIDE DEF far
<1>7. [i \in D |-> far(q, i)] = [i \in D |-> far(p, i)]
  BY <1>6
<1> QED
  BY <1>3, <1>7

LEMMA TriplePareto ==
  ASSUME NEW p, NEW q, Triples(p, q), Len(p) > 0
  PROVE  Triples(Pareto(p), Pareto(q))
<1> DEFINE first == FastNonDominatedSort(p)[1]
<1>1. p \in Seq(Individuals) /\ q \in Seq(Individuals) /\ Len(q) = Len(p)
  BY DEF Triples
<1>2. Pareto(p) = [k \in DOMAIN first |-> p[first[k]]] /\ Pareto(q) = [k \in DOMAIN first |-> q[first[k]]]
  BY TripleSort DEF Pareto
<1>3. first \in Seq(1..Len(p))
  <2>1. FrontOf(p, 1) \in 1..Len(FastNonDominatedSort(p))
    BY <1>1, OneFrontEach
  <2>2. 1 \in 1..Len(FastNonDominatedSort(p))
    BY <1>1, <2>1, FrontsTyped
  <2> QED
    BY <1>1, <2>2, FrontsTyped
<1> HIDE DEF first
<1>4. DOMAIN first = 1..Len(first) /\ Len(first) \in Nat /\ \A k \in 1..Len(first) : first[k] \in 1..Len(p)
  BY <1>3
<1>5. \A k \in 1..Len(first) : Triple(p[first[k]], q[first[k]])
  BY <1>4 DEF Triples
<1>6. /\ Pareto(p) \in [1..Len(first) -> Individuals]
      /\ Pareto(q) \in [1..Len(first) -> Individuals]
  BY <1>2, <1>4, <1>5 DEF Triple
<1>7. /\ Pareto(p) \in Seq(Individuals) /\ Len(Pareto(p)) = Len(first)
      /\ Pareto(q) \in Seq(Individuals) /\ Len(Pareto(q)) = Len(first)
  BY <1>4, <1>6, FunctionIsSeq
<1>8. \A k \in 1..Len(first) : Triple(Pareto(p)[k], Pareto(q)[k])
  BY <1>2, <1>4, <1>5
<1> QED
  BY <1>7, <1>8 DEF Triples

LEMMA TripleSorted ==
  ASSUME NEW p, NEW q, Triples(p, q), NEW key \in [1..Len(p) -> Int]
  PROVE  Triples(Sorted(p, key), Sorted(q, key))
<1> DEFINE at == StableOrder(key)
           D == 1..Len(p)
<1>1. p \in Seq(Individuals) /\ q \in Seq(Individuals) /\ Len(q) = Len(p)
  BY DEF Triples
<1>2. DOMAIN p = D /\ DOMAIN q = D /\ IsFiniteSet(D) /\ Cardinality(D) = Len(p) /\ D \in SUBSET Int
  <2>1. DOMAIN p = D /\ IsFiniteSet(DOMAIN p) /\ Cardinality(DOMAIN p) = Len(p)
    BY <1>1, Places
  <2>2. DOMAIN q = D
    BY <1>1
  <2> QED
    BY <2>1, <2>2
<1>3. Sorted(p, key) = [k \in D |-> p[at[k]]] /\ Sorted(q, key) = [k \in D |-> q[at[k]]]
  BY <1>2 DEF Sorted
<1>4. at \in [D -> D]
  <2> DEFINE S == D
  <2>1. key \in [S -> Int] /\ S \in SUBSET Int /\ IsFiniteSet(S)
    BY <1>2
  <2> HIDE DEF S
  <2>2. at \in [1..Cardinality(S) -> S]
    BY <2>1, OrderLists
  <2> QED
    BY <1>2, <2>2 DEF S
<1> HIDE DEF at
<1>5. /\ Len(Sorted(p, key)) = Len(p) /\ Sorted(p, key) \in Seq(Individuals)
      /\ Len(Sorted(q, key)) = Len(p) /\ Sorted(q, key) \in Seq(Individuals)
  BY <1>1, SortedKeeps
<1>6. \A k \in D : Triple(Sorted(p, key)[k], Sorted(q, key)[k])
  <2>1. \A k \in D : Triple(p[at[k]], q[at[k]])
    BY <1>4 DEF Triples
  <2> QED
    BY <1>3, <2>1
<1> QED
  BY <1>5, <1>6 DEF Triples

LEMMA TripleDistinct ==
  ASSUME NEW p, NEW q, Triples(p, q), Len(p) > 0
  PROVE  Triples(Distinct(p), Distinct(q))
<1> DEFINE before(a, b) ==
             \E m \in Objectives :
               Sense(a, m) > Sense(b, m) /\ \A n \in 1..(m - 1) : a.obj[n] = b.obj[n]
           ahead(r, k) == {l \in DOMAIN r : before(r[l], r[k])}
           key(r) == [k \in DOMAIN r |-> Cardinality(ahead(r, k))]
           sorted(r) == Sorted(r, key(r))
           places(s) == {k \in DOMAIN s : k = 1 \/ s[k].obj # s[k - 1].obj}
<1>1. p \in Seq(Individuals) /\ q \in Seq(Individuals) /\ Len(q) = Len(p)
  BY DEF Triples
<1>2. /\ DOMAIN p = 1..Len(p) /\ DOMAIN q = 1..Len(p) /\ IsFiniteSet(1..Len(p))
      /\ Len(p) \in Nat
  <2>1. DOMAIN p = 1..Len(p) /\ IsFiniteSet(DOMAIN p) /\ Len(p) \in Nat
    BY <1>1, Places
  <2>2. DOMAIN q = 1..Len(p)
    BY <1>1
  <2> QED
    BY <2>1, <2>2
<1>3. ASSUME NEW i \in 1..Len(p), NEW j \in 1..Len(p)
      PROVE  before(q[i], q[j]) <=> before(p[i], p[j])
  <2>1. Triple(p[i], q[i]) /\ Triple(p[j], q[j])
    BY DEF Triples
  <2>2. \A m \in Objectives :
          /\ Sense(p[i], m) > Sense(p[j], m) <=> Sense(q[i], m) > Sense(q[j], m)
          /\ p[i].obj[m] = p[j].obj[m] <=> q[i].obj[m] = q[j].obj[m]
    BY <2>1, TripleDominates
  <2>3. \A m \in Objectives : \A n \in 1..(m - 1) : n \in Objectives
    BY DEF Objectives
  <2> QED
    BY <2>2, <2>3
<1> HIDE DEF before
<1>4. key(q) = key(p)
  <2>1. ASSUME NEW k \in 1..Len(p) PROVE ahead(q, k) = ahead(p, k)
    BY <1>2, <1>3
  <2> HIDE DEF ahead
  <2> QED
    BY <1>2, <2>1
<1>5. key(p) \in [1..Len(p) -> Int]
  <2>1. ASSUME NEW k \in 1..Len(p) PROVE Cardinality(ahead(p, k)) \in Int
    <3>1. ahead(p, k) \in SUBSET (1..Len(p))
      BY <1>2
    <3> HIDE DEF ahead
    <3>2. Cardinality(ahead(p, k)) \in Nat
      BY <1>2, <3>1, FS_Subset, FS_CardinalityType
    <3> QED
      BY <3>2
  <2> HIDE DEF ahead
  <2> QED
    BY <1>2, <2>1
<1> HIDE DEF key
<1> DEFINE s == sorted(p)
           u == sorted(q)
<1>6. Triples(s, u) /\ Len(s) = Len(p)
  <2>1. Triples(Sorted(p, key(p)), Sorted(q, key(p)))
    BY <1>5, TripleSorted
  <2>2. Len(Sorted(p, key(p))) = Len(p)
    BY <1>1, <1>5, SortedKeeps
  <2> QED
    BY <1>4, <2>1, <2>2
<1> DEFINE at == InOrder(places(s))
<1>7. /\ Distinct(p) = [k \in DOMAIN at |-> s[at[k]]]
      /\ Distinct(q) = [k \in DOMAIN InOrder(places(u)) |-> u[InOrder(places(u))[k]]]
  BY DEF Distinct, key, before
<1> HIDE DEF s, u
<1>8. DOMAIN s = 1..Len(p) /\ DOMAIN u = 1..Len(p)
  BY <1>6 DEF Triples
<1>9. ASSUME NEW i \in 1..Len(p), NEW j \in 1..Len(p)
      PROVE  u[i].obj = u[j].obj <=> s[i].obj = s[j].obj
  <2>1. Triple(s[i], u[i]) /\ Triple(s[j], u[j])
    BY <1>6 DEF Triples
  <2>2. \A m \in Objectives : s[i].obj[m] = s[j].obj[m] <=> u[i].obj[m] = u[j].obj[m]
    BY <2>1, TripleDominates
  <2>3. /\ s[i].obj \in [Objectives -> Int] /\ s[j].obj \in [Objectives -> Int]
        /\ u[i].obj \in [Objectives -> Int] /\ u[j].obj \in [Objectives -> Int]
    BY <2>1 DEF Triple, Individuals
  <2>4. s[i].obj = s[j].obj <=> \A m \in Objectives : s[i].obj[m] = s[j].obj[m]
    BY <2>3
  <2>5. u[i].obj = u[j].obj <=> \A m \in Objectives : u[i].obj[m] = u[j].obj[m]
    BY <2>3
  <2> QED
    BY <2>2, <2>4, <2>5
<1>10. places(u) = places(s) /\ places(s) \in SUBSET (1..Len(p))
  <2>1. \A k \in 1..Len(p) : k # 1 => k - 1 \in 1..Len(p)
    BY <1>2
  <2> QED
    BY <1>8, <1>9, <2>1
<1> HIDE DEF places
<1>11. /\ places(s) \in SUBSET Int /\ IsFiniteSet(places(s))
       /\ Cardinality(places(s)) \in Nat /\ at \in [1..Cardinality(places(s)) -> places(s)]
  <2>1. places(s) \in SUBSET Int /\ IsFiniteSet(places(s))
    BY <1>2, <1>10, FS_Subset
  <2> QED
    BY <2>1, InOrderLists
<1>12. Distinct(q) = [k \in DOMAIN at |-> u[at[k]]]
  BY <1>7, <1>10
<1> HIDE DEF at
<1>13. DOMAIN at = 1..Cardinality(places(s)) /\ \A k \in DOMAIN at : Triple(s[at[k]], u[at[k]])
  BY <1>6, <1>10, <1>11 DEF Triples
<1> DEFINE n == Cardinality(places(s))
<1>14. Distinct(p) \in [1..n -> Individuals] /\ Distinct(q) \in [1..n -> Individuals]
  BY <1>7, <1>12, <1>13 DEF Triple
<1>15. \A k \in 1..n : Triple(Distinct(p)[k], Distinct(q)[k])
  BY <1>7, <1>12, <1>13
<1>16. n \in Nat
  BY <1>11
<1> HIDE DEF n
<1>17. /\ Distinct(p) \in Seq(Individuals) /\ Len(Distinct(p)) = n
       /\ Distinct(q) \in Seq(Individuals) /\ Len(Distinct(q)) = n
  BY <1>14, <1>16, FunctionIsSeq
<1> QED
  BY <1>15, <1>17 DEF Triples

(* What T0 is measured in changes neither who survives nor which knee is   *)
(* picked.                                                                 *)
LEMMA TripleKneeSeg ==
  ASSUME NEW p, NEW q, Triples(p, q), Len(p) > 0
  PROVE  q[KneePoint(q)].seg = p[KneePoint(p)].seg
<1>1. p \in Seq(Individuals)
  BY DEF Triples
<1>2. KneePoint(q) = KneePoint(p) /\ KneePoint(p) \in 1..Len(p)
  BY <1>1, TripleKnee, KneeIsThere
<1> QED
  BY <1>2 DEF Triples, Triple

THEOREM UnitOfT0 == Spec => []PickIgnoresT0
<1>1. TypeOK => PickIgnoresT0
  <2> SUFFICES ASSUME TypeOK, router = "nsga" PROVE PickIgnoresT0
    BY DEF PickIgnoresT0
  <2> DEFINE scaled(p) == [k \in DOMAIN p |-> [p[k] EXCEPT !.obj[2] = 3 * @]]
             segs(p) == [k \in DOMAIN p |-> p[k].seg]
             knee(front) == front[KneePoint(front)].seg
  <2>1. size \in Nat \ {0} /\ pop \in Seq(Individuals) /\ Len(pop) > 0
    BY DEF TypeOK
  <2>2. segs(Survivors(pop \o offspring)) = segs(Survivors(scaled(pop \o offspring)))
    <3> DEFINE all == pop \o offspring
               tripled == scaled(all)
    <3>1. all \in Seq(Individuals) /\ Len(all) >= size
      BY AllTyped
    <3> HIDE DEF all
    <3>2. Triples(all, tripled)
      BY <3>1, TripledTyped
    <3> HIDE DEF tripled
    <3>3. segs(Survivors(tripled)) = segs(Survivors(all))
      BY <2>1, <3>1, <3>2, TripleSurvivors
    <3> QED
      BY <3>3 DEF all, tripled
  <2>3. /\ knee(Pareto(pop)) = knee(Pareto(scaled(pop)))
        /\ knee(Distinct(Pareto(pop))) = knee(Distinct(Pareto(scaled(pop))))
    <3> DEFINE tripled == scaled(pop)
    <3>1. Triples(pop, tripled)
      BY <2>1, TripledTyped
    <3> HIDE DEF tripled
    <3>2. /\ Triples(Pareto(pop), Pareto(tripled))
          /\ Pareto(pop) \in Seq(Individuals) /\ Len(Pareto(pop)) > 0
      BY <2>1, <3>1, TriplePareto, ParetoIsFirst
    <3>3. /\ Triples(Distinct(Pareto(pop)), Distinct(Pareto(tripled)))
          /\ Len(Distinct(Pareto(pop))) > 0
      BY <3>2, TripleDistinct, DistinctAreOfFront
    <3>4. /\ knee(Pareto(pop)) = knee(Pareto(tripled))
          /\ knee(Distinct(Pareto(pop))) = knee(Distinct(Pareto(tripled)))
      BY <3>2, <3>3, TripleKneeSeg
    <3> QED
      BY <3>4 DEF tripled
  <2> HIDE DEF scaled, segs, knee
  <2>4. /\ phase = "bred" =>
             LET all == pop \o offspring IN segs(Survivors(all)) = segs(Survivors(scaled(all)))
        /\ phase = "picked" =>
             /\ knee(Pareto(pop)) = knee(Pareto(scaled(pop)))
             /\ knee(Distinct(Pareto(pop))) = knee(Distinct(Pareto(scaled(pop))))
    BY <2>2, <2>3
  <2> QED
    BY <2>4 DEF PickIgnoresT0, scaled, segs, knee
<1> QED
  BY <1>1, SearchTyped, PTL
=============================================================================
