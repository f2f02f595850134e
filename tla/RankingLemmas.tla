---------------------------- MODULE RankingLemmas ----------------------------
(***************************************************************************)
(* Lemmas the proofs of several components cite: what a stable order is,   *)
(* that a set of numbers has a least one, and induction over the numbers   *)
(* up to a bound, for a set and for a step taken again and again.          *)
(***************************************************************************)
EXTENDS Ranking, FiniteSetTheorems, FunctionTheorems, WellFoundedInduction, TLAPS

LEMMA HasLeast ==
  ASSUME NEW S \in SUBSET Nat, S # {}
  PROVE  \E m \in S : \A n \in S : m <= n
<1>1. PICK m \in S : \A n \in S : ~(<<n, m>> \in OpToRel(<, Nat))
  BY NatLessThanWellFounded, WFMin, Zenon
<1>2. \A n \in S : ~(n < m)
  BY <1>1 DEF OpToRel
<1> QED
  BY <1>2

(* What holds at 0 and goes from each number to the next holds up to N. *)
LEMMA UpTo ==
  ASSUME NEW N \in Nat, NEW G, 0 \in G, \A n \in 0..N : n # N /\ n \in G => n + 1 \in G
  PROVE  0..N \subseteq G
<1> DEFINE bad == (0..N) \ G
<1>1. SUFFICES ASSUME bad # {} PROVE FALSE
  OBVIOUS
<1>2. PICK m \in bad : \A n \in bad : m <= n
  <2>1. bad \in SUBSET Nat
    OBVIOUS
  <2> HIDE DEF bad
  <2> QED
    BY <1>1, <2>1, HasLeast
<1>3. m \in Nat /\ m # 0 /\ m \in 0..N
  OBVIOUS
<1>4. m - 1 \in 0..N /\ m - 1 # N /\ m - 1 + 1 = m
  BY <1>3
<1>5. m - 1 \notin bad
  BY <1>2, <1>3
<1> QED
  BY <1>4, <1>5

(* Steps taken one after the other from d, the n-th of them F[n]. *)
Iteration(S, d, N, F, g) ==
  g \in [0..N -> S] /\ \A n \in 0..N : g[n] = IF n = 0 THEN d ELSE F[n][g[n - 1]]

LEMMA Iterates ==
  ASSUME NEW S, NEW d \in S, NEW N \in Nat, NEW F \in [1..N -> [S -> S]]
  PROVE  \E g : Iteration(S, d, N, F, g)
<1> DEFINE Goes(m, g) == \A n \in 0..m : g[n] = IF n = 0 THEN d ELSE F[n][g[n - 1]]
           G == {m \in 0..N : \E g \in [0..m -> S] : Goes(m, g)}
<1>1. 0 \in G
  <2> DEFINE g == [n \in 0..0 |-> d]
  <2>1. g \in [0..0 -> S]
    OBVIOUS
  <2>2. Goes(0, g)
    OBVIOUS
  <2>3. 0 \in 0..N
    OBVIOUS
  <2> HIDE DEF g, Goes
  <2> QED
    BY <2>1, <2>2, <2>3
<1>2. ASSUME NEW m \in 0..N, m # N, m \in G PROVE m + 1 \in G
  <2>1. PICK g \in [0..m -> S] : Goes(m, g)
    BY <1>2
  <2> DEFINE h == [n \in 0..(m + 1) |-> IF n = m + 1 THEN F[m + 1][g[m]] ELSE g[n]]
  <2>2. h \in [0..(m + 1) -> S]
    <3>1. F[m + 1][g[m]] \in S
      <4>1. m + 1 \in 1..N /\ m \in 0..m
        BY <1>2
      <4>2. F[m + 1] \in [S -> S] /\ g[m] \in S
        BY <4>1
      <4> QED
        BY <4>2
    <3>2. \A n \in 0..(m + 1) : n # m + 1 => g[n] \in S
      OBVIOUS
    <3> QED
      BY <3>1, <3>2
  <2>3. ASSUME NEW n \in 0..(m + 1) PROVE h[n] = IF n = 0 THEN d ELSE F[n][h[n - 1]]
    <3>1. CASE n = m + 1
      <4>1. h[n] = F[m + 1][g[m]] /\ n - 1 = m /\ n # 0 /\ m \in 0..(m + 1) /\ m # m + 1
        BY <3>1
      <4>2. h[m] = g[m]
        BY <4>1
      <4> QED
        BY <4>1, <4>2
    <3>2. CASE n # m + 1
      <4>1. n \in 0..m /\ h[n] = g[n]
        BY <3>2
      <4>2. g[n] = IF n = 0 THEN d ELSE F[n][g[n - 1]]
        BY <2>1, <4>1
      <4>3. n # 0 => n - 1 \in 0..(m + 1) /\ n - 1 # m + 1
        BY <4>1
      <4>4. n # 0 => h[n - 1] = g[n - 1]
        BY <4>3
      <4> QED
        BY <4>1, <4>2, <4>4
    <3> QED
      BY <3>1, <3>2
  <2>4. Goes(m + 1, h)
    BY <2>3
  <2>5. m + 1 \in 0..N
    BY <1>2
  <2> HIDE DEF h, Goes
  <2> QED
    BY <2>2, <2>4, <2>5
<1>3. 0..N \subseteq G
  <2> HIDE DEF G
  <2> QED
    BY <1>1, <1>2, UpTo
<1>4. N \in G
  <2> HIDE DEF G
  <2> QED
    BY <1>3
<1>5. \E g \in [0..N -> S] : Goes(N, g)
  BY <1>4
<1> QED
  BY <1>5 DEF Iteration

LEMMA IterationIsOne ==
  ASSUME NEW S, NEW d, NEW N \in Nat, NEW F, NEW g, NEW h,
         Iteration(S, d, N, F, g), Iteration(S, d, N, F, h)
  PROVE  g = h
<1> DEFINE G == {n \in 0..N : g[n] = h[n]}
<1>1. /\ g \in [0..N -> S] /\ \A n \in 0..N : g[n] = IF n = 0 THEN d ELSE F[n][g[n - 1]]
      /\ h \in [0..N -> S] /\ \A n \in 0..N : h[n] = IF n = 0 THEN d ELSE F[n][h[n - 1]]
  BY DEF Iteration
<1>2. 0 \in G
  BY <1>1
<1>3. ASSUME NEW n \in 0..N, n # N, n \in G PROVE n + 1 \in G
  <2>1. n + 1 \in 0..N /\ n + 1 # 0 /\ n + 1 - 1 = n /\ g[n] = h[n]
    BY <1>3
  <2>2. g[n + 1] = F[n + 1][g[n]] /\ h[n + 1] = F[n + 1][h[n]]
    BY <1>1, <2>1
  <2> QED
    BY <2>1, <2>2
<1>4. 0..N \subseteq G
  <2> HIDE DEF G
  <2> QED
    BY <1>2, <1>3, UpTo
<1> QED
  BY <1>1, <1>4

-----------------------------------------------------------------------------
(* A stable order is one: every index has its place and no other, and      *)
(* places follow the keys.                                                 *)

LEMMA BeforeIsTotal ==
  ASSUME NEW S \in SUBSET Int, NEW key \in [S -> Int], NEW i \in S, NEW j \in S, i # j
  PROVE  i \in Before(key, j) \/ j \in Before(key, i)
BY DEF Before

(* What comes before comes with all that comes before it. *)
LEMMA BeforeGrows ==
  ASSUME NEW S \in SUBSET Int, IsFiniteSet(S), NEW key \in [S -> Int],
         NEW i \in S, NEW j \in S, i \in Before(key, j)
  PROVE  Cardinality(Before(key, i)) < Cardinality(Before(key, j))
<1>1. Before(key, i) \in SUBSET S /\ Before(key, j) \in SUBSET S
  BY DEF Before
<1>2. Before(key, i) \in SUBSET Before(key, j)
  <2>1. ASSUME NEW l \in S, l \in Before(key, i) PROVE l \in Before(key, j)
    <3>1. /\ key[l] \in Int /\ key[i] \in Int /\ key[j] \in Int
          /\ l \in Int /\ i \in Int /\ j \in Int
      OBVIOUS
    <3>2. /\ key[l] < key[i] \/ (key[l] = key[i] /\ l < i)
          /\ key[i] < key[j] \/ (key[i] = key[j] /\ i < j)
      BY <2>1 DEF Before
    <3>3. key[l] < key[j] \/ (key[l] = key[j] /\ l < j)
      BY <3>1, <3>2
    <3> QED
      BY <3>3 DEF Before
  <2> QED
    BY <1>1, <2>1
<1>3. i \notin Before(key, i)
  BY DEF Before
<1>4. /\ IsFiniteSet(Before(key, i)) /\ Cardinality(Before(key, i)) \in Nat
      /\ IsFiniteSet(Before(key, j)) /\ Cardinality(Before(key, j)) \in Nat
  BY <1>1, FS_Subset, FS_CardinalityType
<1>5. /\ Cardinality(Before(key, i)) <= Cardinality(Before(key, j))
      /\ Cardinality(Before(key, j)) = Cardinality(Before(key, i))
           => Before(key, j) = Before(key, i)
  BY <1>2, <1>4, FS_Subset
<1> QED
  BY <1>3, <1>4, <1>5

LEMMA RankIsPlace ==
  ASSUME NEW S \in SUBSET Int, IsFiniteSet(S), NEW key \in [S -> Int], NEW i \in S
  PROVE  Cardinality(S) \in Nat /\ Cardinality(Before(key, i)) \in 0..(Cardinality(S) - 1)
<1>1. Before(key, i) \in SUBSET S /\ i \notin Before(key, i)
  BY DEF Before
<1>2. /\ Cardinality(S) \in Nat /\ IsFiniteSet(Before(key, i))
      /\ Cardinality(Before(key, i)) \in Nat
  BY <1>1, FS_Subset, FS_CardinalityType
<1>3. /\ Cardinality(Before(key, i)) <= Cardinality(S)
      /\ Cardinality(S) = Cardinality(Before(key, i)) => S = Before(key, i)
  BY <1>1, FS_Subset
<1> QED
  BY <1>1, <1>2, <1>3

(* Every place is somebody's: as many ranks as places, none shared. *)
LEMMA EveryPlaceTaken ==
  ASSUME NEW S \in SUBSET Int, IsFiniteSet(S), NEW key \in [S -> Int],
         NEW k \in 1..Cardinality(S)
  PROVE  \E i \in S : Cardinality(Before(key, i)) = k - 1
<1> DEFINE n == Cardinality(S)
           others == (0..(n - 1)) \ {k - 1}
           rank == [i \in S |-> Cardinality(Before(key, i))]
<1> SUFFICES ASSUME \A i \in S : Cardinality(Before(key, i)) # k - 1
             PROVE  FALSE
  OBVIOUS
<1>1. n \in Nat
  BY FS_CardinalityType
<1>2. rank \in [S -> others]
  BY <1>1, RankIsPlace
<1>3. IsFiniteSet(others) /\ Cardinality(others) = n - 1
  <2> DEFINE places == 0..(n - 1)
  <2> HIDE DEF n
  <2>1. n \in Int /\ n - 1 \in Int /\ 0 \in Int /\ n >= 1
    BY <1>1 DEF n
  <2>2. IsFiniteSet(places) /\ Cardinality(places) = IF 0 > n - 1 THEN 0 ELSE n - 1 - 0 + 1
    BY <2>1, FS_Interval
  <2>3. Cardinality(places) = n
    BY <2>1, <2>2
  <2>4. k - 1 \in places
    BY <2>1 DEF n
  <2> HIDE DEF places
  <2>5. IsFiniteSet(places \ {k - 1}) /\ Cardinality(places \ {k - 1}) = Cardinality(places) - 1
    BY <2>2, <2>4, FS_RemoveElement
  <2> QED
    BY <2>3, <2>5 DEF places
<1>4. PICK i, j \in S : i # j /\ rank[i] = rank[j]
  <2>1. Cardinality(others) < Cardinality(S)
    BY <1>1, <1>3
  <2> HIDE DEF others, rank
  <2> QED
    BY <1>2, <1>3, <2>1, FS_PigeonHole
<1>5. /\ Cardinality(Before(key, i)) \in Nat
      /\ Cardinality(Before(key, i)) = Cardinality(Before(key, j))
  BY <1>1, <1>4, RankIsPlace
<1> QED
  BY <1>4, <1>5, BeforeIsTotal, BeforeGrows

(* The order is a list of the indices ...                                  *)
LEMMA OrderLists ==
  ASSUME NEW S \in SUBSET Int, IsFiniteSet(S), NEW key \in [S -> Int]
  PROVE  /\ Cardinality(S) \in Nat
         /\ StableOrder(key) \in [1..Cardinality(S) -> S]
         /\ \A k \in 1..Cardinality(S) : Cardinality(Before(key, StableOrder(key)[k])) = k - 1
<1>1. Cardinality(S) \in Nat /\ DOMAIN key = S
  BY FS_CardinalityType
<1>2. ASSUME NEW k \in 1..Cardinality(S)
      PROVE  /\ StableOrder(key)[k] \in S
             /\ Cardinality(Before(key, StableOrder(key)[k])) = k - 1
  <2> DEFINE place == {<<1 + Cardinality(Before(key, i)), i>> : i \in S}
  <2>1. StableOrder(key)[k] = CHOOSE i \in S : <<k, i>> \in place
    BY <1>1 DEF StableOrder
  <2>2. ASSUME NEW i \in S PROVE <<k, i>> \in place <=> Cardinality(Before(key, i)) = k - 1
    <3>1. Cardinality(Before(key, i)) \in Nat
      BY RankIsPlace
    <3> QED
      BY <3>1
  <2>3. \E i \in S : Cardinality(Before(key, i)) = k - 1
    BY EveryPlaceTaken
  <2> HIDE DEF place
  <2> QED
    BY <2>1, <2>2, <2>3
<1>3. StableOrder(key) = [k \in 1..Cardinality(S) |-> StableOrder(key)[k]]
  BY <1>1 DEF StableOrder
<1> QED
  BY <1>1, <1>2, <1>3

(* ... all of them ...                                                     *)
LEMMA OrderIsOnto ==
  ASSUME NEW S \in SUBSET Int, IsFiniteSet(S), NEW key \in [S -> Int], NEW i \in S
  PROVE  \E k \in 1..Cardinality(S) : StableOrder(key)[k] = i
<1> DEFINE k == Cardinality(Before(key, i)) + 1
           j == StableOrder(key)[k]
<1>1. Cardinality(S) \in Nat /\ Cardinality(Before(key, i)) \in 0..(Cardinality(S) - 1)
  BY RankIsPlace
<1>2. k \in 1..Cardinality(S) /\ k - 1 = Cardinality(Before(key, i))
  BY <1>1
<1> HIDE DEF k
<1>3. j \in S /\ Cardinality(Before(key, j)) = Cardinality(Before(key, i))
  BY <1>2, OrderLists
<1> HIDE DEF j
<1>4. j = i
  <2>1. j \notin Before(key, i) /\ i \notin Before(key, j)
    BY <1>1, <1>3, BeforeGrows
  <2> QED
    BY <1>3, <2>1, BeforeIsTotal
<1> QED
  BY <1>2, <1>4 DEF j

(* ... by key, and by index among equal keys.                              *)
LEMMA OrderIsSorted ==
  ASSUME NEW S \in SUBSET Int, IsFiniteSet(S), NEW key \in [S -> Int],
         NEW k \in 1..Cardinality(S), NEW l \in 1..Cardinality(S), k < l
  PROVE  StableOrder(key)[k] \in Before(key, StableOrder(key)[l])
<1> DEFINE i == StableOrder(key)[k]
           j == StableOrder(key)[l]
<1>1. /\ Cardinality(S) \in Nat
      /\ i \in S /\ Cardinality(Before(key, i)) = k - 1
      /\ j \in S /\ Cardinality(Before(key, j)) = l - 1
  BY OrderLists
<1> HIDE DEF i, j
<1>2. i # j
  BY <1>1
<1>3. j \notin Before(key, i)
  <2>1. j \in Before(key, i) => l - 1 < k - 1
    BY <1>1, BeforeGrows
  <2> QED
    BY <1>1, <2>1
<1>4. i \in Before(key, j)
  BY <1>1, <1>2, <1>3, BeforeIsTotal
<1> QED
  BY <1>4 DEF i, j

(* The first of the order has the least key, and the least index of those. *)
LEMMA FirstIsLeast ==
  ASSUME NEW S \in SUBSET Int, IsFiniteSet(S), S # {}, NEW key \in [S -> Int]
  PROVE  /\ First(key) \in S
         /\ \A i \in S : key[First(key)] < key[i] \/ (key[First(key)] = key[i] /\ First(key) <= i)
<1>1. Cardinality(S) \in Nat /\ StableOrder(key) \in [1..Cardinality(S) -> S]
  BY OrderLists
<1>2. 1 \in 1..Cardinality(S)
  <2>1. PICK i \in S : TRUE
    OBVIOUS
  <2>2. PICK k \in 1..Cardinality(S) : StableOrder(key)[k] = i
    BY OrderIsOnto
  <2> QED
    BY <1>1, <2>2
<1>3. First(key) \in S
  BY <1>1, <1>2 DEF First
<1>4. ASSUME NEW i \in S
      PROVE  key[First(key)] < key[i] \/ (key[First(key)] = key[i] /\ First(key) <= i)
  <2>1. PICK k \in 1..Cardinality(S) : StableOrder(key)[k] = i
    BY OrderIsOnto
  <2>2. CASE k = 1
    BY <2>1, <2>2, <1>3 DEF First
  <2>3. CASE k # 1
    <3>1. 1 < k
      BY <1>1, <2>3
    <3>2. First(key) \in Before(key, i)
      BY <1>2, <2>1, <3>1, OrderIsSorted DEF First
    <3>3. First(key) \in Int /\ i \in Int
      BY <1>3
    <3> QED
      BY <3>2, <3>3 DEF Before
  <2> QED
    BY <2>2, <2>3
<1> QED
  BY <1>3, <1>4

(* Keys that compare alike give one order. *)
LEMMA OrderOfComparisons ==
  ASSUME NEW S \in SUBSET Int, NEW key \in [S -> Int], NEW other \in [S -> Int],
         \A i, j \in S : (key[i] < key[j] <=> other[i] < other[j])
                           /\ (key[i] = key[j] <=> other[i] = other[j])
  PROVE  StableOrder(key) = StableOrder(other)
<1>1. ASSUME NEW i \in S PROVE Before(key, i) = Before(other, i)
  BY DEF Before
<1>2. DOMAIN key = S /\ DOMAIN other = S
  OBVIOUS
<1>3. {<<1 + Cardinality(Before(key, i)), i>> : i \in S}
        = {<<1 + Cardinality(Before(other, i)), i>> : i \in S}
  BY <1>1
<1> DEFINE place == {<<1 + Cardinality(Before(key, i)), i>> : i \in S}
           other_place == {<<1 + Cardinality(Before(other, i)), i>> : i \in S}
           order(p) == [k \in 1..Cardinality(S) |-> CHOOSE i \in S : <<k, i>> \in p]
<1>4. StableOrder(key) = order(place)
  BY <1>2 DEF StableOrder
<1>5. StableOrder(other) = order(other_place)
  BY <1>2 DEF StableOrder
<1>6. place = other_place
  BY <1>3
<1> HIDE DEF place, other_place
<1>7. order(place) = order(other_place)
  BY <1>6
<1> HIDE DEF order
<1> QED
  BY <1>4, <1>5, <1>7

-----------------------------------------------------------------------------
(* As many on either side of a pairing ...                                 *)
LEMMA SameSize ==
  ASSUME NEW S, IsFiniteSet(S), NEW T, NEW f \in [S -> T],
         \A a, b \in S : f[a] = f[b] => a = b, \A t \in T : \E a \in S : f[a] = t
  PROVE  IsFiniteSet(T) /\ Cardinality(T) = Cardinality(S)
<1>1. f \in Injection(S, T)
  BY Fun_IsInj
<1>2. f \in Surjection(S, T)
  BY Fun_IsSurj
<1>3. f \in Bijection(S, T)
  BY <1>1, <1>2 DEF Bijection
<1>4. ExistsBijection(S, T)
  BY <1>3 DEF ExistsBijection
<1> QED
  BY <1>4, FS_Bijection

(* ... and of equally many reached, nobody is reached twice.               *)
LEMMA OntoIsOneToOne ==
  ASSUME NEW S, IsFiniteSet(S), NEW T, Cardinality(S) = Cardinality(T), NEW f \in [S -> T],
         \A t \in T : \E a \in S : f[a] = t
  PROVE  \A a, b \in S : f[a] = f[b] => a = b
<1>1. f \in Surjection(S, T)
  BY Fun_IsSurj
<1>2. f \in Injection(S, T)
  BY <1>1, FS_SurjSameCardinalityImpliesInj
<1> QED
  BY <1>2, Fun_InjectionProperties

=============================================================================
