-------------------------- MODULE Arrangements_proofs -------------------------
(* What the operators of Arrangements yield: a finite set in a strict order,   *)
(* each of its members once, and of a sequence the members that were picked.   *)
(* The order of a member is the number of those before it, so the arguments    *)
(* count.                                                                      *)
EXTENDS Arrangements, FiniteSetTheorems, SequenceTheorems, WellFoundedInduction, TLAPS

IsStrictOrder(S, R) ==
  /\ \A i \in S : <<i, i>> \notin R
  /\ \A i, j \in S : i = j \/ <<i, j>> \in R \/ <<j, i>> \in R
  /\ \A i, j, k \in S : <<i, j>> \in R /\ <<j, k>> \in R => <<i, k>> \in R

\* In a finite set that is strictly ordered each place is taken by one member.
LEMMA PlacesAreTaken ==
  ASSUME NEW S, IsFiniteSet(S), NEW R,
         IsStrictOrder(S, R)
  PROVE  /\ \A i, j \in S : Cardinality(Below(S, R, i)) < Cardinality(Below(S, R, j))
                              => <<i, j>> \in R
         /\ \A k \in 1..Cardinality(S) : \E i \in S : Cardinality(Below(S, R, i)) = k - 1
<1> USE DEF IsStrictOrder
<1> DEFINE place == [i \in S |-> Cardinality(Below(S, R, i))]
<1>1. PICK n \in Nat : n = Cardinality(S)
  BY FS_CardinalityType
<1>2. ASSUME NEW i \in S
      PROVE  IsFiniteSet(Below(S, R, i)) /\ Cardinality(Below(S, R, i)) \in 0..(n - 1)
  <2>1. IsFiniteSet(S \ {i}) /\ Cardinality(S \ {i}) = n - 1
    BY <1>1, FS_RemoveElement
  <2>2. Below(S, R, i) \in SUBSET (S \ {i})
    BY DEF Below
  <2>3. IsFiniteSet(Below(S, R, i)) /\ Cardinality(Below(S, R, i)) <= n - 1
    BY <2>1, <2>2, FS_Subset
  <2>4. Cardinality(Below(S, R, i)) \in Nat
    BY <2>3, FS_CardinalityType
  <2> QED  BY <1>1, <2>3, <2>4
<1>3. ASSUME NEW i \in S, NEW j \in S, <<i, j>> \in R
      PROVE  place[i] < place[j]
  <2> DEFINE B == Below(S, R, j)
  <2>1. IsFiniteSet(B) /\ i \in B
    BY <1>2, <1>3 DEF Below
  <2>2. Below(S, R, i) \in SUBSET (B \ {i})
    BY <1>3 DEF Below
  <2>3. IsFiniteSet(B \ {i}) /\ Cardinality(B \ {i}) = Cardinality(B) - 1
    BY <2>1, FS_RemoveElement
  <2>4. Cardinality(Below(S, R, i)) <= Cardinality(B) - 1
    BY <2>2, <2>3, FS_Subset
  <2>5. Cardinality(B) \in Nat /\ Cardinality(Below(S, R, i)) \in Nat
    BY <1>2, FS_CardinalityType
  <2> QED  BY <2>4, <2>5
<1>4. ASSUME NEW i \in S, NEW j \in S, place[i] < place[j] PROVE <<i, j>> \in R
  <2>1. place[i] \in Nat /\ place[j] \in Nat
    BY <1>2, FS_CardinalityType
  <2>2. i # j /\ <<j, i>> \notin R
    BY <1>3, <1>4, <2>1
  <2> QED  BY <2>2
<1>5. ASSUME NEW k \in 1..n, \A i \in S : place[i] # k - 1 PROVE FALSE
  <2> DEFINE T == (0..(n - 1)) \ {k - 1}
  <2>1. n - 1 \in Nat /\ k - 1 \in 0..(n - 1)
    OBVIOUS
  <2>2. IsFiniteSet(0..(n - 1)) /\ Cardinality(0..(n - 1)) = n
    BY <2>1, FS_Interval
  <2>3. IsFiniteSet(T) /\ Cardinality(T) = n - 1
    <3>1. \A U, x : IsFiniteSet(U) /\ x \in U =>
             IsFiniteSet(U \ {x}) /\ Cardinality(U \ {x}) = Cardinality(U) - 1
      BY FS_RemoveElement
    <3>2. IsFiniteSet(T) /\ Cardinality(T) = Cardinality(0..(n - 1)) - 1
      BY <2>1, <2>2, <3>1
    <3> QED  BY <2>2, <3>2
  <2>4. place \in [S -> T]
    BY <1>2, <1>5
  <2>5. Cardinality(T) < Cardinality(S)
    BY <1>1, <2>3
  <2> HIDE DEF T, place
  <2>6. PICK x, y \in S : x # y /\ place[x] = place[y]
    BY <2>3, <2>4, <2>5, FS_PigeonHole
  <2>7. place[x] \in Nat
    BY <1>2, FS_CardinalityType DEF place
  <2>8. <<x, y>> \in R \/ <<y, x>> \in R
    BY <2>6
  <2> QED  BY <1>3, <2>6, <2>7, <2>8
<1> QED  BY <1>1, <1>4, <1>5

\* A strictly ordered finite set is arranged upwards, each member once.
LEMMA ArrangedIsSorted ==
  ASSUME NEW S, IsFiniteSet(S), NEW R, IsStrictOrder(S, R),
         NEW n, n = Cardinality(S)
  PROVE  /\ n \in Nat
         /\ Arranged(S, R) \in [1..n -> S]
         /\ \A k, l \in 1..n : k < l => <<Arranged(S, R)[k], Arranged(S, R)[l]>> \in R
         /\ \A i \in S : \E k \in 1..n : Arranged(S, R)[k] = i
<1> DEFINE At(k) == CHOOSE i \in S : Cardinality(Below(S, R, i)) = k - 1
<1>1. n \in Nat
  BY FS_CardinalityType
<1>2. Arranged(S, R) = [k \in 1..n |-> At(k)]
  BY DEF Arranged
<1>3. ASSUME NEW k \in 1..n
      PROVE  At(k) \in S /\ Cardinality(Below(S, R, At(k))) = k - 1
  <2>1. \E i \in S : Cardinality(Below(S, R, i)) = k - 1
    BY PlacesAreTaken
  <2> QED  BY <2>1
<1> HIDE DEF At
<1>4. ASSUME NEW k \in 1..n, NEW l \in 1..n, k < l PROVE <<At(k), At(l)>> \in R
  <2>1. k - 1 < l - 1
    BY <1>4
  <2> QED  BY <1>3, <2>1, PlacesAreTaken
<1>5. ASSUME NEW i \in S PROVE \E k \in 1..n : At(k) = i
  <2>1. /\ Below(S, R, i) \in SUBSET (S \ {i})
        /\ IsFiniteSet(S \ {i}) /\ Cardinality(S \ {i}) = n - 1
    BY FS_RemoveElement DEF Below, IsStrictOrder
  <2>2. IsFiniteSet(Below(S, R, i)) /\ Cardinality(Below(S, R, i)) <= n - 1
    BY <2>1, FS_Subset
  <2>3. PICK p \in Nat : p = Cardinality(Below(S, R, i))
    BY <2>2, FS_CardinalityType
  <2>4. p + 1 \in 1..n /\ (p + 1) - 1 = p
    BY <1>1, <2>2, <2>3
  <2>5. PICK j \in S : j = At(p + 1) /\ Cardinality(Below(S, R, j)) = p
    BY <1>3, <2>4
  <2>6. ~(p < p)
    OBVIOUS
  <2>7. ASSUME i # j PROVE FALSE
    <3>1. \A a, b \in S : <<a, b>> \in R => Below(S, R, a) \subseteq Below(S, R, b) \ {a} /\ a \in Below(S, R, b)
      BY DEF Below, IsStrictOrder
    <3>2. \A a, b \in S : IsFiniteSet(Below(S, R, a)) /\ IsFiniteSet(Below(S, R, b))
      <4>1. \A a \in S : Below(S, R, a) \in SUBSET S
        BY DEF Below
      <4> QED  BY <4>1, FS_Subset
    <3>3. ASSUME NEW a \in S, NEW b \in S, <<a, b>> \in R
          PROVE  Cardinality(Below(S, R, a)) # Cardinality(Below(S, R, b))
      <4>1. Below(S, R, a) \in SUBSET Below(S, R, b) /\ Below(S, R, a) # Below(S, R, b)
        BY <3>1, <3>3
      <4> QED  BY <3>2, <4>1, FS_Subset
    <3> QED  BY <2>3, <2>5, <2>7, <3>3 DEF IsStrictOrder
  <2> QED  BY <2>4, <2>5, <2>7
<1> QED  BY <1>1, <1>2, <1>3, <1>4, <1>5

\* The indices of a list in a strict order, each once.
LEMMA IndicesAreSorted ==
  ASSUME NEW n \in Nat, NEW R, IsStrictOrder(1..n, R)
  PROVE  /\ Arranged(1..n, R) \in [1..n -> 1..n]
         /\ \A k, l \in 1..n : k < l => <<Arranged(1..n, R)[k], Arranged(1..n, R)[l]>> \in R
         /\ \A i \in 1..n : \E k \in 1..n : Arranged(1..n, R)[k] = i
<1>1. IsFiniteSet(1..n) /\ n = Cardinality(1..n)
  BY FS_Interval
<1>2. PICK S : S = 1..n
  OBVIOUS
<1>3. IsFiniteSet(S) /\ IsStrictOrder(S, R) /\ n = Cardinality(S)
  BY <1>1, <1>2
<1>4. /\ Arranged(S, R) \in [1..n -> S]
      /\ \A k, l \in 1..n : k < l => <<Arranged(S, R)[k], Arranged(S, R)[l]>> \in R
      /\ \A i \in S : \E k \in 1..n : Arranged(S, R)[k] = i
  BY <1>3, ArrangedIsSorted
<1> QED  BY <1>2, <1>4

\* Numbers are in a strict order.
LEMMA NumbersAreOrdered ==
  ASSUME NEW S \in SUBSET Int
  PROVE  IsStrictOrder(S, Upwards(S))
<1>1. \A i, j \in S : <<i, j>> \in Upwards(S) <=> i < j
  BY DEF Upwards
<1>2. \A i, j, k \in S : i < j /\ j < k => i < k
  OBVIOUS
<1>3. \A i, j \in S : i = j \/ i < j \/ j < i
  OBVIOUS
<1>4. \A i \in S : ~(i < i)
  OBVIOUS
<1> QED  BY <1>1, <1>2, <1>3, <1>4 DEF IsStrictOrder

\* order lists the indices in S upwards, each once.
Lists(order, S, n) ==
  /\ n \in Nat /\ n = Cardinality(S)
  /\ order \in [1..n -> S]
  /\ \A k, l \in 1..n : k < l => order[k] < order[l]
  /\ \A i \in S : \E k \in 1..n : order[k] = i

\* What is picked of a sequence stands in its order.
LEMMA PickedIsInOrder ==
  ASSUME NEW s, NEW S \in SUBSET Int, IsFiniteSet(S)
  PROVE  \E n, order :
           Lists(order, S, n) /\ Picked(s, S) = [k \in 1..n |-> s[order[k]]]
<1> DEFINE n == Cardinality(S)
           order == Arranged(S, Upwards(S))
<1>1. IsStrictOrder(S, Upwards(S))
  BY NumbersAreOrdered
<1>2. /\ n \in Nat
      /\ order \in [1..n -> S]
      /\ \A k, l \in 1..n : k < l => <<order[k], order[l]>> \in Upwards(S)
      /\ \A i \in S : \E k \in 1..n : order[k] = i
  BY <1>1, ArrangedIsSorted
<1>3. \A k, l \in 1..n : k < l => order[k] < order[l]
  BY <1>2 DEF Upwards
<1>4. Picked(s, S) = [k \in 1..n |-> s[order[k]]]
  BY <1>2 DEF Picked, Rearranged
<1> HIDE DEF n, order
<1>5. n = Cardinality(S)
  BY DEF n
<1> QED  BY <1>2, <1>3, <1>4, <1>5 DEF Lists

\* The indices of a sequence.
LEMMA IndicesOf ==
  ASSUME NEW T, NEW s \in Seq(T)
  PROVE  /\ DOMAIN s \in SUBSET Int /\ IsFiniteSet(DOMAIN s)
         /\ Cardinality(DOMAIN s) = Len(s)
         /\ \A S \in SUBSET DOMAIN s :
              S \in SUBSET Int /\ IsFiniteSet(S) /\ Cardinality(S) \in 0..Len(s)
<1>1. PICK n \in Nat : n = Len(s) /\ DOMAIN s = 1..n
  OBVIOUS
<1>2. IsFiniteSet(1..n) /\ Cardinality(1..n) = n /\ 1..n \in SUBSET Int
  BY FS_Interval
<1>3. ASSUME NEW S \in SUBSET (1..n)
      PROVE  S \in SUBSET Int /\ IsFiniteSet(S) /\ Cardinality(S) \in 0..n
  <2>1. IsFiniteSet(S) /\ Cardinality(S) <= n
    BY <1>2, FS_Subset
  <2> QED  BY <2>1, FS_CardinalityType
<1> QED  BY <1>1, <1>2, <1>3

\* What s holds at the indices in S.
Held(s, S) == {s[i] : i \in S}

\* It is a sequence of the members picked, as many as there are indices.
LEMMA PickedIsSequence ==
  ASSUME NEW s, NEW S \in SUBSET Int, IsFiniteSet(S),
         NEW T, \A i \in S : s[i] \in T
  PROVE  /\ Picked(s, S) \in Seq(T)
         /\ Len(Picked(s, S)) = Cardinality(S)
         /\ Held(Picked(s, S), DOMAIN Picked(s, S)) = Held(s, S)
<1>1. PICK n, order :
        Lists(order, S, n) /\ Picked(s, S) = [k \in 1..n |-> s[order[k]]]
  BY PickedIsInOrder
<1>2. PICK p : p = Picked(s, S)
  OBVIOUS
<1>3. n \in Nat /\ n = Cardinality(S) /\ order \in [1..n -> S]
  BY <1>1 DEF Lists
<1>4. p \in [1..n -> T] /\ \A k \in 1..n : p[k] = s[order[k]]
  BY <1>1, <1>2, <1>3
<1>5. p \in Seq(T) /\ Len(p) = n
  BY <1>3, <1>4
<1>6. \A i \in S : \E k \in 1..n : order[k] = i
  BY <1>1 DEF Lists
<1>7. Held(p, DOMAIN p) = Held(s, S)
  <2>1. \A k \in 1..n : p[k] \in Held(s, S)
    BY <1>3, <1>4 DEF Held
  <2>2. \A i \in S : \E k \in 1..n : p[k] = s[i]
    BY <1>4, <1>6
  <2>3. DOMAIN p = 1..n
    BY <1>4
  <2> QED  BY <2>1, <2>2, <2>3 DEF Held
<1> QED  BY <1>2, <1>3, <1>5, <1>7

\* A set of natural numbers has a least one.
LEMMA LeastOf ==
  ASSUME NEW S \in SUBSET Nat, S # {}
  PROVE  \E i \in S : \A j \in S : i <= j
<1> DEFINE R == OpToRel(<, Nat)
<1>1. \A i, j \in Nat : <<j, i>> \in R <=> j < i
  BY DEF OpToRel
<1>2. IsWellFoundedOn(R, Nat)
  BY NatLessThanWellFounded
<1> HIDE DEF R
<1>3. PICK i \in S : \A j \in S : <<j, i>> \notin R
  BY <1>2, WFMin
<1>4. \A j \in S : ~(j < i)
  BY <1>1, <1>3
<1> QED  BY <1>3, <1>4

\* Each value of a sequence is held first at one index, not after any other that
\* holds it.
LEMMA FirstsHoldValues ==
  ASSUME NEW s, NEW n \in Nat, DOMAIN s = 1..n
  PROVE  /\ Firsts(s) \in SUBSET (1..n) /\ Firsts(s) \in SUBSET Int /\ IsFiniteSet(Firsts(s))
         /\ \A i \in 1..n : \E j \in Firsts(s) : j <= i /\ s[j] = s[i]
         /\ \A i, j \in Firsts(s) : s[i] = s[j] => i = j
         /\ IsFiniteSet(Held(s, 1..n))
         /\ Cardinality(Firsts(s)) = Cardinality(Held(s, 1..n))
<1> DEFINE F == Firsts(s)
           V == Held(s, 1..n)
<1>1. F \in SUBSET (1..n) /\ 1..n \in SUBSET Int /\ IsFiniteSet(1..n)
  BY FS_Interval DEF Firsts
<1>2. IsFiniteSet(F) /\ F \in SUBSET Int
  BY <1>1, FS_Subset
<1>3. ASSUME NEW i \in 1..n PROVE \E j \in F : j <= i /\ s[j] = s[i]
  <2> DEFINE T == {k \in 1..i : s[k] = s[i]}
  <2>1. T \in SUBSET Nat /\ i \in T
    OBVIOUS
  <2>2. PICK j \in T : \A k \in T : j <= k
    BY <2>1, LeastOf
  <2>3. j \in F
    BY <2>2 DEF Firsts
  <2> QED  BY <2>2, <2>3
<1>4. \A i, j \in F : s[i] = s[j] => i = j
  <2>1. \A i, j \in F : i < j => s[i] # s[j]
    BY <1>1 DEF Firsts
  <2> QED  BY <1>1, <2>1
<1>5. [i \in F |-> s[i]] \in Bijection(F, V)
  <2>1. \A v \in V : \E j \in F : s[j] = v
    BY <1>3 DEF Held
  <2>2. \A i \in F : s[i] \in V
    BY <1>1 DEF Held
  <2> QED  BY <1>1, <1>4, <2>1, <2>2 DEF Bijection, Injection, Surjection, IsInjective
<1>6. IsFiniteSet(V) /\ Cardinality(V) = Cardinality(F)
  BY <1>2, <1>5, FS_Bijection DEF ExistsBijection
<1> QED  BY <1>1, <1>2, <1>3, <1>4, <1>6

\* A finite set of numbers has a least one.
LEMMA LeastOfFinite ==
  ASSUME NEW S \in SUBSET Int, IsFiniteSet(S), S # {}
  PROVE  \E i \in S : \A j \in S : i <= j
<1> DEFINE order == Arranged(S, Upwards(S))
<1>1. IsStrictOrder(S, Upwards(S))
  BY NumbersAreOrdered
<1>2. PICK n \in Nat : n = Cardinality(S) /\ n # 0
  BY FS_CardinalityType, FS_EmptySet
<1>3. /\ order \in [1..n -> S]
      /\ \A k, l \in 1..n : k < l => <<order[k], order[l]>> \in Upwards(S)
      /\ \A i \in S : \E k \in 1..n : order[k] = i
  BY <1>1, <1>2, ArrangedIsSorted
<1>4. \A i, j \in S : <<i, j>> \in Upwards(S) => i < j
  BY DEF Upwards
<1> HIDE DEF order
<1>5. PICK i \in S : i = order[1]
  <2>1. 1 \in 1..n
    BY <1>2
  <2>2. order[1] \in S
    BY <1>3, <2>1
  <2> QED  BY <2>2
<1>6. ASSUME NEW j \in S PROVE i <= j
  <2>1. PICK l \in 1..n : order[l] = j
    BY <1>3
  <2>2. CASE l = 1
    BY <1>5, <2>1, <2>2
  <2>3. CASE 1 < l
    <3>1. <<i, j>> \in Upwards(S)
      BY <1>3, <1>5, <2>1, <2>3
    <3> QED  BY <1>4, <3>1
  <2> QED  BY <2>2, <2>3
<1> QED  BY <1>6

\* A sequence that holds nothing twice holds as much as it is long, and any other
\* no more.
LEMMA DistinctCount ==
  ASSUME NEW s, NEW n \in Nat, DOMAIN s = 1..n
  PROVE  /\ IsFiniteSet(Held(s, 1..n)) /\ Cardinality(Held(s, 1..n)) \in 0..n
         /\ (\A i, j \in 1..n : i < j => s[i] # s[j]) => Cardinality(Held(s, 1..n)) = n
<1>1. /\ Firsts(s) \in SUBSET (1..n) /\ IsFiniteSet(Held(s, 1..n))
      /\ Cardinality(Firsts(s)) = Cardinality(Held(s, 1..n))
  BY FirstsHoldValues
<1>2. IsFiniteSet(1..n) /\ Cardinality(1..n) = n
  BY FS_Interval
<1>3. Cardinality(Firsts(s)) \in 0..n
  BY <1>1, <1>2, FS_Subset, FS_CardinalityType
<1>4. (\A i, j \in 1..n : i < j => s[i] # s[j]) => Firsts(s) = 1..n
  BY DEF Firsts
<1> QED  BY <1>1, <1>2, <1>3, <1>4

\* The beginning of a sequence.
LEMMA LeadingIsPrefix ==
  ASSUME NEW T, NEW s \in Seq(T), NEW n \in Nat
  PROVE  \E m \in Nat :
           /\ m = IF Len(s) < n THEN Len(s) ELSE n
           /\ Leading(s, n) \in Seq(T) /\ Len(Leading(s, n)) = m /\ DOMAIN Leading(s, n) = 1..m
           /\ m <= Len(s) /\ \A k \in 1..m : Leading(s, n)[k] = s[k]
<1>1. PICK m \in Nat : m = IF Len(s) < n THEN Len(s) ELSE n
  OBVIOUS
<1>2. m <= Len(s) /\ \A k \in 1..m : s[k] \in T
  BY <1>1
<1>3. Leading(s, n) = SubSeq(s, 1, m)
  BY <1>1 DEF Leading
<1>4. /\ SubSeq(s, 1, m) \in Seq(T) /\ Len(SubSeq(s, 1, m)) = IF 1 <= m THEN m - 1 + 1 ELSE 0
      /\ \A k \in 1..(m - 1 + 1) : SubSeq(s, 1, m)[k] = s[1 + k - 1]
  BY <1>2, SubSeqProperties
<1>5. Len(SubSeq(s, 1, m)) = m /\ DOMAIN SubSeq(s, 1, m) = 1..m
  BY <1>4
<1>6. \A k \in 1..m : SubSeq(s, 1, m)[k] = s[k]
  BY <1>4
<1> QED  BY <1>1, <1>2, <1>3, <1>4, <1>5, <1>6
===============================================================================
