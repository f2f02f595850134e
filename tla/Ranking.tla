------------------------------- MODULE Ranking -------------------------------
(***************************************************************************)
(* A stable sort, as the order it puts the indices in: by increasing key,  *)
(* and among equal keys by increasing index.                               *)
(***************************************************************************)
EXTENDS Integers, FiniteSets

(* The indices that come before i; key maps a set of numbers to numbers. *)
Before(key, i) ==
  {j \in DOMAIN key : key[j] < key[i] \/ (key[j] = key[i] /\ j < i)}

(* The k-th index is the one that k - 1 others come before. *)
StableOrder(key) ==
  LET place == {<<1 + Cardinality(Before(key, i)), i>> : i \in DOMAIN key}
  IN  [k \in 1..Cardinality(DOMAIN key) |-> CHOOSE i \in DOMAIN key : <<k, i>> \in place]

(* The first index of least key. *)
First(key) == StableOrder(key)[1]
=============================================================================
