----------------------------- MODULE Arrangements -----------------------------
(* Finite sets put in an order, and the part of a sequence that stands at some *)
(* of its indices. What the code sorts or filters is described with these.     *)
EXTENDS Integers, Sequences, FiniteSets

\* The members of S that the order R puts before i.
Below(S, R, i) == {j \in S : <<j, i>> \in R}

\* The members of S in the strict order R: each follows as many as are before it.
Arranged(S, R) ==
  [k \in 1..Cardinality(S) |-> CHOOSE i \in S : Cardinality(Below(S, R, i)) = k - 1]

Upwards(S) == {x \in S \X S : x[1] < x[2]}

\* What s holds at the indices in S, in the order R of the indices.
Rearranged(s, S, R) ==
  LET order == Arranged(S, R) IN [k \in DOMAIN order |-> s[order[k]]]

\* What s holds at the indices in S, in the order of s.
Picked(s, S) == Rearranged(s, S, Upwards(S))

\* The first n of s, or all of it.
Leading(s, n) == SubSeq(s, 1, IF Len(s) < n THEN Len(s) ELSE n)

\* The indices at which s holds what it does not hold before.
Firsts(s) == {i \in DOMAIN s : \A j \in 1..(i - 1) : s[j] # s[i]}
===============================================================================
