--------------------------------- MODULE Lists --------------------------------
(* What several of the sequential computations do with lists. *)
EXTENDS Integers, FiniteSets

\* sort.Ints on the members of a set.
Ascending(S) ==
  CHOOSE list \in [1..Cardinality(S) -> S] : \A i, j \in DOMAIN list : i < j => list[i] < list[j]
===============================================================================
