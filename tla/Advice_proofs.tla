----------------------------- MODULE Advice_proofs ----------------------------
(* Theorems about what the service computes from a resume, a job and a history *)
(* and keeps no state of: scores and ranks, the skill picture, what is written *)
(* of a resume, and what is read in its text. Sorted and filtered lists are    *)
(* described by Arranged and Picked, so that what is said of the lists follows *)
(* from which indices were picked; counts are cardinalities of those sets of   *)
(* indices. The text is read by two loops, which have an inductive invariant.  *)
EXTENDS Matching, SkillPicture, Tailoring, ResumeText, Arrangements_proofs, FiniteSetTheorems,
        SequenceTheorems, TLAPS

-------------------------------------------------------------------------------
(* Scores and ranks.                                                           *)

\* Rounding keeps the order of the numbers, with ties to the even one as well.
LEMMA RoundedIsMonotonic ==
  ASSUME NEW a \in Int, NEW b \in Int, NEW d \in Nat \ {0}, a <= b
  PROVE  /\ Rounded(a, d) \in Int /\ Rounded(b, d) \in Int
         /\ Rounded(a, d) <= Rounded(b, d)
<1>1. ASSUME NEW x \in Int
      PROVE  x \div d \in Int /\ x % d \in 0..(d - 1) /\ x = d * (x \div d) + (x % d)
  OBVIOUS
<1>2. PICK p \in Int, q \in 0..(d - 1) : p = a \div d /\ q = a % d /\ a = d * p + q
  BY <1>1
<1>3. PICK r \in Int, t \in 0..(d - 1) : r = b \div d /\ t = b % d /\ b = d * r + t
  BY <1>1
<1>4. /\ Rounded(a, d) = IF 2 * q > d \/ (2 * q = d /\ p % 2 = 1) THEN p + 1 ELSE p
      /\ Rounded(b, d) = IF 2 * t > d \/ (2 * t = d /\ r % 2 = 1) THEN r + 1 ELSE r
  BY <1>2, <1>3 DEF Rounded
<1>5. p <= r
  <2>1. ASSUME r + 1 <= p PROVE FALSE
    <3>1. d * (r + 1) <= d * p
      BY <2>1
    <3>2. d * (r + 1) = d * r + d
      OBVIOUS
    <3> QED  BY <1>2, <1>3, <3>1, <3>2
  <2> QED  BY <2>1
<1>6. CASE p = r
  <2>1. q <= t
    BY <1>2, <1>3, <1>6
  <2> QED  BY <1>4, <1>6, <2>1
<1>7. CASE p < r
  BY <1>4, <1>7
<1> QED  BY <1>5, <1>6, <1>7

\* The indices of the skills that a job asks for and a resume covers.
LEMMA CoveredIndices ==
  ASSUME NEW resume, NEW job, job.required \in Seq(SkillName)
  PROVE  /\ Len(job.required) \in Nat
         /\ IsFiniteSet(Covered(resume, job)) /\ Covered(resume, job) \in SUBSET Int
         /\ Cardinality(Covered(resume, job)) \in Nat
         /\ Len(Matched(resume, job)) = Cardinality(Covered(resume, job))
         /\ IsFiniteSet(DOMAIN job.required) /\ DOMAIN job.required \in SUBSET Int
<1> DEFINE C == Covered(resume, job)
<1>1. Len(job.required) \in Nat /\ DOMAIN job.required = 1..Len(job.required)
  OBVIOUS
<1>2. IsFiniteSet(DOMAIN job.required) /\ DOMAIN job.required \in SUBSET Int
  BY <1>1, FS_Interval
<1>3. C \in SUBSET DOMAIN job.required
  BY DEF Covered
<1>4. IsFiniteSet(C) /\ Cardinality(C) \in Nat /\ C \in SUBSET Int
  BY <1>2, <1>3, FS_Subset, FS_CardinalityType
<1>5. \A i \in C : job.required[i] \in SkillName
  BY <1>3
<1> HIDE DEF C
<1>6. Len(Picked(job.required, C)) = Cardinality(C)
  BY <1>4, <1>5, PickedIsSequence
<1> QED  BY <1>1, <1>2, <1>4, <1>6 DEF C, Matched

\* A score is a number, and it is higher where more of the job's skills are
\* covered and the texts are nearer.
LEMMA ScoresFollowSignals ==
  ASSUME NEW job \in JobType, NEW less, NEW more,
         Similarity(less, job) \in Int, Similarity(more, job) \in Int,
         Similarity(less, job) <= Similarity(more, job),
         Covered(less, job) \subseteq Covered(more, job)
  PROVE  /\ Score(less, job) \in Int /\ Score(more, job) \in Int
         /\ Score(less, job) <= Score(more, job)
<1>1. job.required \in Seq(SkillName)
  BY DEF JobType
<1>2. CASE ~HasSkillEvidence(job)
  BY <1>1, <1>2 DEF Score
<1>3. CASE HasSkillEvidence(job)
  <2>1. PICK n \in Nat : n = Len(job.required) /\ n # 0
    BY <1>1, <1>3, EmptySeq DEF HasSkillEvidence
  <2>2. PICK a, b \in Nat :
          /\ a = Len(Matched(less, job)) /\ a = Cardinality(Covered(less, job))
          /\ b = Len(Matched(more, job)) /\ b = Cardinality(Covered(more, job))
    BY <1>1, CoveredIndices
  <2>3. a <= b
    BY <1>1, <2>2, CoveredIndices, FS_Subset
  <2>4. PICK p, q \in Int : /\ p = Similarity(less, job) * n /\ q = Similarity(more, job) * n
                            /\ p <= q
    <3>1. ASSUME NEW x \in Int, NEW y \in Int, x <= y PROVE x * n <= y * n
      BY <3>1
    <3> QED  BY <3>1
  <2>5. PICK s, t \in Int : /\ s = 6 * Similarity(less, job) * n
                            /\ t = 6 * Similarity(more, job) * n
                            /\ s <= t
    <3>1. ASSUME NEW x \in Int PROVE 6 * x * n = 6 * (x * n)
      OBVIOUS
    <3> QED  BY <2>4, <3>1
  <2>6. /\ 4 * 10000 * a + s \in Int /\ 4 * 10000 * b + t \in Int
        /\ 4 * 10000 * a + s <= 4 * 10000 * b + t
        /\ (4 + 6) * n \in Nat \ {0}
    <3>1. ASSUME NEW x \in Int, NEW y \in Int, x <= y
          PROVE  /\ 4 * 10000 * a + x \in Int /\ 4 * 10000 * b + y \in Int
                 /\ 4 * 10000 * a + x <= 4 * 10000 * b + y
      BY <2>3, <3>1
    <3>2. (4 + 6) * n \in Nat \ {0}
      BY <2>1
    <3>3. s <= t
      BY <2>5
    <3>4. /\ 4 * 10000 * a + s \in Int /\ 4 * 10000 * b + t \in Int
          /\ 4 * 10000 * a + s <= 4 * 10000 * b + t
      BY <3>1, <3>3
    <3> QED  BY <3>2, <3>4
  <2>7. /\ Score(less, job) = Rounded(4 * 10000 * a + s, (4 + 6) * n)
        /\ Score(more, job) = Rounded(4 * 10000 * b + t, (4 + 6) * n)
    BY <1>3, <2>1, <2>2, <2>5 DEF Score, SkillWeight, SemanticWeight
  <2> QED  BY <2>6, <2>7, RoundedIsMonotonic
<1> QED  BY <1>2, <1>3

\* A number is its quotient times the divisor, and a rest.
LEMMA QuotientAndRest ==
  ASSUME NEW x \in Int, NEW d \in Nat \ {0}
  PROVE  \E q \in Int, r \in 0..(d - 1) : q = x \div d /\ r = x % d /\ x = d * q + r
<1>1. x \div d \in Int /\ x % d \in 0..(d - 1) /\ x = d * (x \div d) + (x % d)
  OBVIOUS
<1> QED  BY <1>1

\* A quotient that lies between two numbers is rounded to one between them.
LEMMA RoundedIsBounded ==
  ASSUME NEW x \in Int, NEW d \in Nat \ {0}, NEW l \in Int
  PROVE  /\ d * l <= x => l <= Rounded(x, d)
         /\ x <= d * l => Rounded(x, d) <= l
<1>1. PICK p \in Int, q \in 0..(d - 1) : p = x \div d /\ q = x % d /\ x = d * p + q
  OBVIOUS
<1>2. Rounded(x, d) = IF 2 * q > d \/ (2 * q = d /\ p % 2 = 1) THEN p + 1 ELSE p
  BY <1>1 DEF Rounded
<1>3. ASSUME d * l <= x PROVE l <= p
  <2>1. ASSUME p + 1 <= l PROVE FALSE
    <3>1. d * (p + 1) <= d * l
      BY <2>1
    <3>2. d * (p + 1) = d * p + d
      OBVIOUS
    <3> QED  BY <1>1, <1>3, <3>1, <3>2
  <2> QED  BY <2>1
<1>4. ASSUME x <= d * l PROVE Rounded(x, d) <= l
  <2>1. p <= l
    <3>1. ASSUME l + 1 <= p PROVE FALSE
      <4>1. d * (l + 1) <= d * p
        BY <3>1
      <4>2. d * (l + 1) = d * l + d
        OBVIOUS
      <4> QED  BY <1>1, <1>4, <4>1, <4>2
    <3> QED  BY <3>1
  <2>2. CASE p = l
    BY <1>1, <1>2, <1>4, <2>2
  <2>3. CASE p < l
    BY <1>2, <2>3
  <2> QED  BY <2>1, <2>2, <2>3
<1> QED  BY <1>2, <1>3, <1>4

\* A score lies between the share of the skills and the similarity.
LEMMA ScoresAreBetweenSignals ==
  ASSUME NEW job \in JobType, NEW resume, Similarity(resume, job) \in Int,
         HasSkillEvidence(job)
  PROVE  LET similarity == Similarity(resume, job)
             share == Share(resume, job)
         IN \/ similarity <= Score(resume, job) /\ Score(resume, job) <= share + 1
            \/ share <= Score(resume, job) /\ Score(resume, job) <= similarity
<1>1. job.required \in Seq(SkillName)
  BY DEF JobType
<1>2. PICK n \in Nat : n = Len(job.required) /\ n # 0
  BY <1>1, EmptySeq DEF HasSkillEvidence
<1>3. PICK c \in Nat : c = Len(Matched(resume, job))
  BY <1>1, CoveredIndices
<1>4. PICK s \in Int : s = Similarity(resume, job)
  OBVIOUS
<1>5. PICK v \in Int : v = 10000 * c
  OBVIOUS
<1>6. PICK h \in Int, r \in 0..(n - 1) : h = v \div n /\ v = n * h + r
  <2>1. n \in Nat \ {0}
    BY <1>2
  <2>2. \E q \in Int, r \in 0..(n - 1) : q = v \div n /\ r = v % n /\ v = n * q + r
    BY <2>1, QuotientAndRest
  <2> QED  BY <2>2
<1>7. PICK A, B \in Int : A = n * s /\ B = n * h
  OBVIOUS
<1>8. PICK x \in Int : x = 4 * v + 6 * A
  OBVIOUS
<1>9. PICK d \in Nat \ {0} : d = (4 + 6) * n
  BY <1>2
<1>10. Score(resume, job) = Rounded(x, d)
  <2>1. 6 * s * n = 6 * A
    BY <1>7
  <2>2. 4 * 10000 * c = 4 * v
    BY <1>5
  <2> QED  BY <1>2, <1>3, <1>4, <1>8, <1>9, <2>1, <2>2 DEF Score, SkillWeight, SemanticWeight
<1>11. Share(resume, job) = h
  BY <1>2, <1>3, <1>5, <1>6 DEF Share
<1>12. /\ d * s = 10 * A /\ d * h = 10 * B /\ d * (h + 1) = 10 * B + 10 * n
  BY <1>7, <1>9
<1>13. CASE A <= v
  <2>1. d * s <= x /\ x <= d * (h + 1)
    BY <1>6, <1>7, <1>8, <1>12, <1>13
  <2>2. s <= Rounded(x, d) /\ Rounded(x, d) <= h + 1
    BY <2>1, RoundedIsBounded
  <2> QED  BY <1>4, <1>10, <1>11, <2>2
<1>14. CASE v < A
  <2>1. d * h <= x /\ x <= d * s
    BY <1>6, <1>7, <1>8, <1>12, <1>14
  <2>2. h <= Rounded(x, d) /\ Rounded(x, d) <= s
    BY <2>1, RoundedIsBounded
  <2> QED  BY <1>4, <1>10, <1>11, <2>2
<1> QED  BY <1>13, <1>14

\* What is said of a job's skills follows from the keys of the resume's.
LEMMA AssessmentsFollowKeys ==
  ASSUME NEW job, NEW resume, NEW other, ResumeSkills(resume) = ResumeSkills(other)
  PROVE  /\ Assessment(resume, job).matched = Assessment(other, job).matched
         /\ Assessment(resume, job).missing = Assessment(other, job).missing
         /\ Assessment(resume, job).advice = Assessment(other, job).advice
<1>1. Covered(resume, job) = Covered(other, job)
  BY DEF Covered
<1>2. Matched(resume, job) = Matched(other, job) /\ Missing(resume, job) = Missing(other, job)
  BY <1>1 DEF Matched, Missing
<1> QED  BY <1>2 DEF Assessment

\* Of the names of a list the first of each key is kept.
LEMMA UniqueSkillsKeepKeys ==
  ASSUME NEW s \in Seq(SkillName)
  PROVE  /\ UniqueSkills(s) \in Seq(SkillName)
         /\ ToSet(UniqueSkills(s)) \subseteq ToSet(s)
         /\ Keys(ToSet(UniqueSkills(s))) = Keys(ToSet(s))
         /\ IsFiniteSet(Keys(ToSet(s)))
         /\ Len(UniqueSkills(s)) = Cardinality(Keys(ToSet(s)))
<1> DEFINE n == Len(s)
           f == [i \in DOMAIN s |-> Canonical(s[i])]
           F == Firsts(f)
<1>1. n \in Nat /\ DOMAIN s = 1..n /\ DOMAIN f = 1..n
  OBVIOUS
<1>2. \A i \in 1..n : f[i] = Canonical(s[i]) /\ s[i] \in SkillName
  BY <1>1
<1>3. Held(f, 1..n) = Keys(ToSet(s))
  BY <1>1, <1>2 DEF Keys, ToSet, Held
<1>4. UniqueSkills(s) = Picked(s, F)
  BY DEF UniqueSkills
<1> HIDE DEF n, f
<1>5. /\ F \in SUBSET (1..n) /\ F \in SUBSET Int /\ IsFiniteSet(F)
      /\ \A i \in 1..n : \E j \in F : f[j] = f[i]
      /\ IsFiniteSet(Held(f, 1..n))
      /\ Cardinality(F) = Cardinality(Held(f, 1..n))
  BY <1>1, FirstsHoldValues
<1> HIDE DEF F
<1>6. \A i \in F : s[i] \in SkillName
  BY <1>2, <1>5
<1>7. /\ Picked(s, F) \in Seq(SkillName) /\ Len(Picked(s, F)) = Cardinality(F)
      /\ ToSet(Picked(s, F)) = Held(s, F)
  <2>1. /\ Picked(s, F) \in Seq(SkillName) /\ Len(Picked(s, F)) = Cardinality(F)
        /\ Held(Picked(s, F), DOMAIN Picked(s, F)) = Held(s, F)
    <3>1. F \in SUBSET Int /\ IsFiniteSet(F)
      BY <1>5
    <3> QED  BY <1>6, <3>1, PickedIsSequence
  <2>2. ToSet(Picked(s, F)) = Held(Picked(s, F), DOMAIN Picked(s, F))
    BY DEF ToSet, Held
  <2> QED  BY <2>1, <2>2
<1>8. Held(s, F) \subseteq ToSet(s)
  BY <1>1, <1>5 DEF ToSet, Held
<1>9. Keys(Held(s, F)) = Held(f, 1..n)
  <2>1. \A i \in F : Canonical(s[i]) \in Held(f, 1..n)
    BY <1>2, <1>5 DEF Held
  <2>2. \A i \in 1..n : \E j \in F : Canonical(s[j]) = f[i]
    BY <1>2, <1>5
  <2> QED  BY <2>1, <2>2 DEF Keys, Held
<1> QED  BY <1>3, <1>4, <1>5, <1>7, <1>8, <1>9

\* The keys of a job's skills, in two lists: those a resume covers and the others.
LEMMA SkillsAreSplit ==
  ASSUME NEW resume, NEW job, job.required \in Seq(SkillName)
  PROVE  /\ Matched(resume, job) \in Seq(SkillName) /\ Missing(resume, job) \in Seq(SkillName)
         /\ Keys(ToSet(Matched(resume, job))) \subseteq ResumeSkills(resume)
         /\ Keys(ToSet(Missing(resume, job))) \intersect ResumeSkills(resume) = {}
         /\ Keys(ToSet(Matched(resume, job))) \union Keys(ToSet(Missing(resume, job)))
              = Keys(ToSet(job.required))
<1> DEFINE s == job.required
           C == Covered(resume, job)
           D == DOMAIN s \ C
<1>1. /\ IsFiniteSet(DOMAIN s) /\ DOMAIN s \in SUBSET Int
      /\ C \in SUBSET Int /\ IsFiniteSet(C)
  BY CoveredIndices
<1>2. D \in SUBSET Int /\ IsFiniteSet(D)
  BY <1>1, FS_Difference
<1>3. \A i \in DOMAIN s : s[i] \in SkillName
  OBVIOUS
<1>4. /\ \A i \in C : i \in DOMAIN s /\ Canonical(s[i]) \in ResumeSkills(resume)
      /\ \A i \in D : i \in DOMAIN s /\ Canonical(s[i]) \notin ResumeSkills(resume)
  BY DEF Covered
<1>5. Matched(resume, job) = Picked(s, C) /\ Missing(resume, job) = Picked(s, D)
  BY DEF Matched, Missing
<1> HIDE DEF C, D
<1>6. /\ Picked(s, C) \in Seq(SkillName) /\ ToSet(Picked(s, C)) = Held(s, C)
      /\ Picked(s, D) \in Seq(SkillName) /\ ToSet(Picked(s, D)) = Held(s, D)
  <2>1. /\ \A i \in C : s[i] \in SkillName
        /\ \A i \in D : s[i] \in SkillName
    BY <1>3, <1>4
  <2> QED  BY <1>1, <1>2, <2>1, PickedIsSequence DEF ToSet, Held
<1>7. DOMAIN s = C \union D
  BY <1>4 DEF D
<1>8. Keys(Held(s, C)) \subseteq ResumeSkills(resume)
  BY <1>4 DEF Keys, Held
<1>9. Keys(Held(s, D)) \intersect ResumeSkills(resume) = {}
  BY <1>4 DEF Keys, Held
<1>10. Keys(Held(s, C)) \union Keys(Held(s, D)) = Keys(ToSet(s))
  BY <1>7 DEF Keys, ToSet, Held
<1> QED  BY <1>5, <1>6, <1>8, <1>9, <1>10

\* Each key is reported once, as matched or as missing.
LEMMA AssessmentCountsKeys ==
  ASSUME NEW resume, NEW job, job.required \in Seq(SkillName)
  PROVE  LET a == Assessment(resume, job)
         IN /\ Keys(ToSet(a.matched)) \union Keys(ToSet(a.missing)) = Keys(ToSet(job.required))
            /\ Len(a.matched) + Len(a.missing) = Cardinality(Keys(ToSet(job.required)))
<1> DEFINE matched == UniqueSkills(Matched(resume, job))
           gaps == UniqueSkills(Missing(resume, job))
           I == {i \in DOMAIN gaps : Canonical(gaps[i]) \notin Keys(ToSet(matched))}
           K == Keys(ToSet(Matched(resume, job)))
           L == Keys(ToSet(Missing(resume, job)))
<1>1. /\ K \intersect L = {} /\ K \union L = Keys(ToSet(job.required))
      /\ Matched(resume, job) \in Seq(SkillName) /\ Missing(resume, job) \in Seq(SkillName)
  BY SkillsAreSplit
<1>2. /\ matched \in Seq(SkillName) /\ gaps \in Seq(SkillName)
      /\ Keys(ToSet(matched)) = K /\ IsFiniteSet(K) /\ Len(matched) = Cardinality(K)
      /\ Keys(ToSet(gaps)) = L /\ IsFiniteSet(L) /\ Len(gaps) = Cardinality(L)
  BY <1>1, UniqueSkillsKeepKeys
<1>3. Assessment(resume, job).matched = matched /\ Assessment(resume, job).missing = Picked(gaps, I)
  BY DEF Assessment
<1>4. \A i \in DOMAIN gaps : Canonical(gaps[i]) \in Keys(ToSet(gaps))
  BY DEF Keys, ToSet
<1>5. I = DOMAIN gaps
  BY <1>1, <1>2, <1>4
<1> HIDE DEF matched, gaps, I, K, L
<1>6. PICK n \in Nat : n = Len(gaps) /\ DOMAIN gaps = 1..n /\ \A i \in 1..n : gaps[i] \in SkillName
  BY <1>2
<1>7. I \in SUBSET Int /\ IsFiniteSet(I) /\ Cardinality(I) = n
  <2>1. IsFiniteSet(1..n) /\ Cardinality(1..n) = n
    BY FS_Interval
  <2>2. I = 1..n
    BY <1>5, <1>6
  <2> QED  BY <2>1, <2>2
<1>8. /\ Len(Picked(gaps, I)) = n
      /\ ToSet(Picked(gaps, I)) = Held(gaps, I)
  <2>1. \A i \in I : gaps[i] \in SkillName
    BY <1>5, <1>6
  <2> QED  BY <1>7, <2>1, PickedIsSequence DEF ToSet, Held
<1>9. Held(gaps, I) = ToSet(gaps)
  BY <1>5 DEF ToSet, Held
<1>10. Cardinality(K \union L) = Cardinality(K) + Cardinality(L)
  <2>1. Cardinality(K \cap L) = 0
    BY <1>1, FS_EmptySet
  <2>2. Cardinality(K) \in Nat /\ Cardinality(L) \in Nat
    BY <1>2, FS_CardinalityType
  <2>3. Cardinality(K \union L) = Cardinality(K) + Cardinality(L) - Cardinality(K \cap L)
    BY <1>2, FS_Union
  <2> QED  BY <2>1, <2>2, <2>3
<1> QED  BY <1>1, <1>2, <1>3, <1>6, <1>8, <1>9, <1>10

\* Jobs are ranked by their scores, and the ranks are the jobs' positions.
LEMMA RanksAreOrdered ==
  ASSUME NEW resume, NEW ranked \in Seq(JobType),
         \A k \in DOMAIN ranked : Score(resume, ranked[k]) \in Int
  PROVE  LET ranks == Ranked(resume, ranked)
             score(r) == Score(resume, ranked[ranks[r]])
         IN /\ ToSet(ranks) = DOMAIN ranked /\ Len(ranks) = Len(ranked)
            /\ \A r \in 1..(Len(ranks) - 1) :
                 score(r) > score(r + 1) \/ (score(r) = score(r + 1) /\ ranks[r] < ranks[r + 1])
<1> DEFINE S == DOMAIN ranked
           value(i) == Score(resume, ranked[i])
           Before(i, j) == value(i) > value(j) \/ (value(i) = value(j) /\ i < j)
           R == {x \in S \X S : Before(x[1], x[2])}
           ranks == Ranked(resume, ranked)
<1>1. PICK n \in Nat : n = Len(ranked) /\ S = 1..n
  OBVIOUS
<1>2. \A i \in S : value(i) \in Int
  OBVIOUS
<1>3. ranks = Arranged(S, R)
  BY DEF Ranked
<1>4. IsFiniteSet(S) /\ Cardinality(S) = n /\ S \in SUBSET Int
  BY <1>1, IndicesOf
<1>5. \A i, j \in S : <<i, j>> \in R <=> Before(i, j)
  OBVIOUS
<1> HIDE DEF S, R, ranks, value
<1>6. IsStrictOrder(S, R)
  <2>1. \A i \in S : ~Before(i, i)
    BY <1>2, <1>4
  <2>2. \A i, j \in S : i = j \/ Before(i, j) \/ Before(j, i)
    BY <1>2, <1>4
  <2>3. \A i, j, k \in S : Before(i, j) /\ Before(j, k) => Before(i, k)
    BY <1>2, <1>4
  <2> QED  BY <1>5, <2>1, <2>2, <2>3 DEF IsStrictOrder
<1>7. /\ ranks \in [1..n -> S]
      /\ \A k, l \in 1..n : k < l => <<ranks[k], ranks[l]>> \in R
      /\ \A i \in S : \E k \in 1..n : ranks[k] = i
  <2>1. IsFiniteSet(S) /\ IsStrictOrder(S, R) /\ Cardinality(S) = n
    BY <1>4, <1>6
  <2> HIDE DEF Before
  <2>2. Arranged(S, R) \in [1..n -> S]
    BY <2>1, ArrangedIsSorted
  <2>3. \A k, l \in 1..n : k < l => <<Arranged(S, R)[k], Arranged(S, R)[l]>> \in R
    BY <2>1, ArrangedIsSorted
  <2>4. \A i \in S : \E k \in 1..n : Arranged(S, R)[k] = i
    BY <2>1, ArrangedIsSorted
  <2> QED  BY <1>3, <2>2, <2>3, <2>4
<1>8. Len(ranks) = n
  BY <1>7
<1>9. ToSet(ranks) = S
  BY <1>7 DEF ToSet
<1>10. ASSUME NEW r \in 1..(n - 1)
       PROVE  Before(ranks[r], ranks[r + 1])
  <2>1. r \in 1..n /\ r + 1 \in 1..n /\ r < r + 1
    OBVIOUS
  <2>2. <<ranks[r], ranks[r + 1]>> \in R
    BY <1>7, <2>1
  <2> QED  BY <1>5, <1>7, <2>1, <2>2
<1> QED  BY <1>1, <1>8, <1>9, <1>10 DEF S, ranks, value

\* For all jobs, all reviewed resumes and any measure of how alike two texts
\* are: a resume that does as well by both signals is not scored lower, names of
\* one skill count alike and each is reported once, a score lies between the two
\* signals, or is the similarity where no skills are listed, and the ranks follow
\* the scores (ScoreFusion, SkillSignal, RecommendationEngine and
\* RecommendationService of src/services/recommendation).
THEOREM JobsAreMatchedFairly == MatchInit => MatchingIsFair
<1> SUFFICES ASSUME MatchInit PROVE MatchingIsFair
  OBVIOUS
<1> DEFINE resume == matchCase.resume
           ranked == matchCase.jobs
<1>1. resume \in MatchResume /\ ranked \in MatchJobs
  BY DEF MatchInit
<1>2. ranked \in Seq(JobType)
  BY <1>1, MatchInputs
<1>3. \A k \in DOMAIN ranked : ranked[k] \in JobType
  BY <1>2
<1>4. \A other \in MatchResume : \A k \in DOMAIN ranked :
        Similarity(other, ranked[k]) \in Int
  BY <1>1, MatchInputs
<1> HIDE DEF resume, ranked
<1>5. BetterOnBothScoresNoLower
  <2>1. ASSUME NEW k \in DOMAIN ranked, NEW better \in MatchResume,
               Covered(resume, ranked[k]) \subseteq Covered(better, ranked[k]),
               Similarity(resume, ranked[k]) <= Similarity(better, ranked[k])
        PROVE  Score(resume, ranked[k]) <= Score(better, ranked[k])
    <3>1. ranked[k] \in JobType /\ Similarity(resume, ranked[k]) \in Int
          /\ Similarity(better, ranked[k]) \in Int
      BY <1>1, <1>3, <1>4
    <3> QED  BY <2>1, <3>1, ScoresFollowSignals
  <2> QED  BY <2>1 DEF BetterOnBothScoresNoLower, resume, ranked
<1>6. AliasesCountAlike
  <2>1. ASSUME NEW k \in DOMAIN ranked
        PROVE  LET a == Assessment(resume, ranked[k])
               IN /\ Keys(ToSet(a.matched)) \union Keys(ToSet(a.missing))
                       = Keys(ToSet(ranked[k].required))
                  /\ Len(a.matched) + Len(a.missing)
                       = Cardinality(Keys(ToSet(ranked[k].required)))
    <3>1. ranked[k].required \in Seq(SkillName)
      BY <1>3 DEF JobType
    <3> QED  BY <3>1, AssessmentCountsKeys
  <2>2. ASSUME NEW k \in DOMAIN ranked, NEW other \in MatchResume,
               ResumeSkills(other) = ResumeSkills(resume)
        PROVE  LET a == Assessment(resume, ranked[k])
                   b == Assessment(other, ranked[k])
               IN a.matched = b.matched /\ a.missing = b.missing /\ a.advice = b.advice
    BY <2>2, AssessmentsFollowKeys
  <2> QED  BY <2>1, <2>2 DEF AliasesCountAlike, resume, ranked
<1>7. ScoresRestOnEvidence
  <2>1. ASSUME NEW k \in DOMAIN ranked
        PROVE  ranked[k] \in JobType /\ Similarity(resume, ranked[k]) \in Int
    BY <1>1, <1>3, <1>4
  <2>2. ASSUME NEW job, ~HasSkillEvidence(job)
        PROVE  Score(resume, job) = Similarity(resume, job) /\ Confidence(job) < 100
    <3>1. (100 * (6 + 0)) \div (4 + 6) < 100
      OBVIOUS
    <3> QED  BY <2>2, <3>1 DEF Score, Confidence, SemanticWeight, SkillWeight
  <2>3. ASSUME NEW job, HasSkillEvidence(job) PROVE Confidence(job) = 100
    <3>1. (100 * (6 + 4)) \div (4 + 6) = 100
      OBVIOUS
    <3> QED  BY <2>3, <3>1 DEF Confidence, SemanticWeight, SkillWeight
  <2>4. ASSUME NEW k \in DOMAIN ranked, HasSkillEvidence(ranked[k])
        PROVE  LET similarity == Similarity(resume, ranked[k])
                   share == Share(resume, ranked[k])
                   score == Score(resume, ranked[k])
               IN \/ similarity <= score /\ score <= share + 1
                  \/ share <= score /\ score <= similarity
    BY <2>1, <2>4, ScoresAreBetweenSignals
  <2> QED  BY <2>2, <2>3, <2>4 DEF ScoresRestOnEvidence, resume, ranked
<1>8. RanksFollowScores
  <2>1. ASSUME NEW k \in DOMAIN ranked PROVE Score(resume, ranked[k]) \in Int
    <3>1. ranked[k] \in JobType /\ Similarity(resume, ranked[k]) \in Int
      BY <1>1, <1>3, <1>4
    <3> QED  BY <3>1, ScoresFollowSignals
  <2> QED  BY <1>2, <2>1, RanksAreOrdered DEF RanksFollowScores, resume, ranked
<1> QED  BY <1>5, <1>6, <1>7, <1>8 DEF MatchingIsFair

-------------------------------------------------------------------------------
(* The skill picture.                                                          *)

Role == DOMAIN picture.asks
Name == ToSet(picture.resume) \union UNION {ToSet(picture.asks[r]) : r \in Role}
List == {"applied", "saved", "searched"}

PictureTyped ==
  /\ picture.resume \in Seq(Name)
  /\ \A r \in Role : picture.asks[r] \in Seq(Name)
  /\ picture.applied \in Seq(Role) /\ picture.saved \in Seq(Role) /\ picture.searched \in Seq(Role)
  /\ picture.day \in [List -> [Role -> Int]]
  /\ \A n, m \in Name : LiteralKey(n) = LiteralKey(m) => Key(n) = Key(m)

LEMMA PicturesAreTyped == PictureInit => PictureTyped
BY PictureInputs DEF PictureInit, PictureTyped, Role, Name, List

\* The roles are the first that were met, the applications before the others.
LEMMA RolesAreFirstMet ==
  ASSUME PictureTyped
  PROVE  \E n, order, m :
           /\ Met \in Seq(Role) /\ Lists(order, Firsts(Met), n)
           /\ m \in Nat /\ m = IF n < MaxRoles THEN n ELSE MaxRoles
           /\ DOMAIN Roles = 1..m /\ Len(Roles) = m /\ m <= n
           /\ \A k \in 1..m : Roles[k] = Met[order[k]] /\ Roles[k] \in Role
<1> DEFINE F == Firsts(Met)
           u == Picked(Met, F)
<1>1. Met \in Seq(Role)
  BY DEF Met, PictureTyped
<1>2. F \in SUBSET (DOMAIN Met)
  BY DEF Firsts
<1>3. F \in SUBSET Int /\ IsFiniteSet(F)
  BY <1>1, <1>2, IndicesOf
<1>4. \A i \in F : Met[i] \in Role
  BY <1>1, <1>2
<1>5. Roles = Leading(u, MaxRoles)
  BY DEF Roles
<1> HIDE DEF F
<1>6. PICK n, order : Lists(order, F, n) /\ u = [k \in 1..n |-> Met[order[k]]]
  BY <1>3, PickedIsInOrder
<1>7. u \in Seq(Role) /\ Len(u) = Cardinality(F)
  BY <1>3, <1>4, PickedIsSequence
<1> HIDE DEF u
<1>8. n \in Nat /\ Len(u) = n /\ order \in [1..n -> F]
  BY <1>6, <1>7 DEF Lists
<1>9. PICK m \in Nat :
        /\ m = IF n < MaxRoles THEN n ELSE MaxRoles
        /\ Leading(u, MaxRoles) \in Seq(Role) /\ Len(Leading(u, MaxRoles)) = m
        /\ DOMAIN Leading(u, MaxRoles) = 1..m
        /\ m <= n /\ \A k \in 1..m : Leading(u, MaxRoles)[k] = u[k]
  <2>1. MaxRoles \in Nat
    BY PictureBounds
  <2>2. PICK m \in Nat :
          /\ m = IF Len(u) < MaxRoles THEN Len(u) ELSE MaxRoles
          /\ Leading(u, MaxRoles) \in Seq(Role) /\ Len(Leading(u, MaxRoles)) = m
          /\ DOMAIN Leading(u, MaxRoles) = 1..m
          /\ m <= Len(u) /\ \A k \in 1..m : Leading(u, MaxRoles)[k] = u[k]
    BY <1>7, <2>1, LeadingIsPrefix
  <2> QED  BY <1>8, <2>2
<1>10. \A k \in 1..m : k \in 1..n
  BY <1>8, <1>9
<1>11. \A k \in 1..m : Roles[k] = Met[order[k]] /\ Roles[k] \in Role
  BY <1>4, <1>5, <1>6, <1>8, <1>9, <1>10
<1>12. Lists(order, Firsts(Met), n)
  BY <1>6 DEF F
<1>13. DOMAIN Roles = 1..m /\ Len(Roles) = m /\ m <= n
  BY <1>5, <1>8, <1>9
<1>14. m \in Nat /\ m = IF n < MaxRoles THEN n ELSE MaxRoles
  BY <1>8, <1>9
<1> QED  BY <1>1, <1>11, <1>12, <1>13, <1>14

\* Each role is analysed once.
LEMMA RolesAreDistinct ==
  ASSUME PictureTyped
  PROVE  /\ IsFiniteSet(Analyzed) /\ Cardinality(Analyzed) = Len(Roles)
         /\ Analyzed \subseteq Role /\ Analyzed \subseteq ToSet(Met)
<1>1. PICK n, order, m :
        /\ Met \in Seq(Role) /\ Lists(order, Firsts(Met), n)
        /\ m \in Nat /\ DOMAIN Roles = 1..m /\ Len(Roles) = m /\ m <= n
        /\ \A k \in 1..m : Roles[k] = Met[order[k]] /\ Roles[k] \in Role
  BY RolesAreFirstMet
<1>2. PICK l \in Nat : DOMAIN Met = 1..l
  BY <1>1
<1>3. /\ n \in Nat /\ order \in [1..n -> Firsts(Met)]
      /\ \A j, k \in 1..n : j < k => order[j] < order[k]
  BY <1>1 DEF Lists
<1>4. /\ Firsts(Met) \in SUBSET (1..l)
      /\ \A i, j \in Firsts(Met) : Met[i] = Met[j] => i = j
  BY <1>2, FirstsHoldValues
<1>5. \A k \in 1..m : k \in 1..n
  BY <1>1, <1>3
<1>6. \A j, k \in 1..m : j < k => Roles[j] # Roles[k]
  <2>1. ASSUME NEW j \in 1..m, NEW k \in 1..m, j < k, Roles[j] = Roles[k] PROVE FALSE
    <3>1. order[j] \in Firsts(Met) /\ order[k] \in Firsts(Met) /\ order[j] < order[k]
      BY <1>3, <1>5, <2>1
    <3>2. order[j] = order[k]
      BY <1>1, <1>4, <2>1, <3>1
    <3> QED  BY <1>4, <3>1, <3>2
  <2> QED  BY <2>1
<1>7. Held(Roles, 1..m) = Analyzed
  BY <1>1 DEF Held, Analyzed, ToSet
<1>8. IsFiniteSet(Analyzed) /\ Cardinality(Analyzed) = m
  BY <1>1, <1>6, <1>7, DistinctCount
<1>9. Analyzed \subseteq Role
  BY <1>1, <1>7 DEF Held
<1>10. Analyzed \subseteq ToSet(Met)
  <2>1. \A k \in 1..m : order[k] \in DOMAIN Met
    BY <1>2, <1>3, <1>4, <1>5
  <2> QED  BY <1>1, <1>7, <2>1 DEF Held, ToSet
<1> QED  BY <1>1, <1>8, <1>9, <1>10

\* No application is left out for a search, and a list that is not cut is whole.
LEMMA ApplicationsComeFirst ==
  ASSUME PictureTyped
  PROVE  /\ \A r \in ToSet(picture.applied) :
              r \in Analyzed \/ Analyzed \subseteq ToSet(picture.applied)
         /\ Len(Roles) < MaxRoles => Analyzed = ToSet(Met)
<1>1. PICK n, order, m :
        /\ Met \in Seq(Role) /\ Lists(order, Firsts(Met), n)
        /\ m \in Nat /\ m = IF n < MaxRoles THEN n ELSE MaxRoles
        /\ DOMAIN Roles = 1..m /\ Len(Roles) = m /\ m <= n
        /\ \A k \in 1..m : Roles[k] = Met[order[k]] /\ Roles[k] \in Role
  BY RolesAreFirstMet
<1>2. PICK l \in Nat : DOMAIN Met = 1..l
  BY <1>1
<1>3. /\ n \in Nat /\ order \in [1..n -> Firsts(Met)]
      /\ \A j, k \in 1..n : j < k => order[j] < order[k]
      /\ \A i \in Firsts(Met) : \E k \in 1..n : order[k] = i
  BY <1>1 DEF Lists
<1>4. /\ Firsts(Met) \in SUBSET (1..l)
      /\ \A i \in 1..l : \E j \in Firsts(Met) : j <= i /\ Met[j] = Met[i]
  BY <1>2, FirstsHoldValues
<1>5. Analyzed = Held(Roles, 1..m)
  BY <1>1 DEF Held, Analyzed, ToSet
<1>6. PICK a \in Nat : a = Len(picture.applied) /\ DOMAIN picture.applied = 1..a
  BY DEF PictureTyped
<1>7. a <= l /\ \A i \in 1..a : Met[i] = picture.applied[i]
  <2>1. PICK x \in Seq(Role) : x = picture.applied
    BY DEF PictureTyped
  <2>2. PICK y \in Seq(Role) : y = picture.saved
    BY DEF PictureTyped
  <2>3. PICK z \in Seq(Role) : z = picture.searched
    BY DEF PictureTyped
  <2> HIDE DEF Role
  <2>4. PICK s \in Seq(Role) : s = y \o z
    BY ConcatProperties
  <2>5. Met = x \o s
    <3>1. (x \o y) \o z = x \o (y \o z)
      BY ConcatAssociative
    <3> QED  BY <2>1, <2>2, <2>3, <2>4, <3>1 DEF Met
  <2>6. Len(s) \in Nat /\ Len(x) = a
    BY <1>6, <2>1
  <2>7. /\ Len(x \o s) = Len(x) + Len(s)
        /\ \A i \in 1..(Len(x) + Len(s)) :
             (x \o s)[i] = IF i <= Len(x) THEN x[i] ELSE s[i - Len(x)]
    BY ConcatProperties
  <2>8. Len(Met) = l
    BY <1>1, <1>2
  <2>9. a <= l
    BY <1>6, <2>5, <2>6, <2>7, <2>8
  <2>10. ASSUME NEW i \in 1..a PROVE Met[i] = picture.applied[i]
    BY <1>6, <2>1, <2>5, <2>6, <2>7
  <2> QED  BY <2>9, <2>10
<1>8. ASSUME NEW r \in ToSet(picture.applied), r \notin Analyzed
      PROVE  Analyzed \subseteq ToSet(picture.applied)
  <2>1. PICK i \in 1..a : r = picture.applied[i]
    BY <1>6, <1>8 DEF ToSet
  <2>2. i \in 1..l /\ Met[i] = r
    BY <1>7, <2>1
  <2>3. PICK j \in Firsts(Met) : j <= i /\ Met[j] = r
    BY <1>4, <2>2
  <2>4. PICK k \in 1..n : order[k] = j
    BY <1>3, <2>3
  <2>5. ~(k <= m)
    <3>1. k \in 1..m => Roles[k] = r
      BY <1>1, <2>3, <2>4
    <3> QED  BY <1>1, <1>5, <1>8, <3>1 DEF Held
  <2>6. ASSUME NEW p \in 1..m PROVE Roles[p] \in ToSet(picture.applied)
    <3>1. p \in 1..n /\ p < k
      BY <1>1, <1>3, <2>5
    <3>2. order[p] < j /\ order[p] \in 1..l
      BY <1>3, <1>4, <2>4, <3>1
    <3>3. order[p] \in 1..a
      BY <1>4, <2>1, <2>3, <3>2
    <3> QED  BY <1>1, <1>6, <1>7, <3>3 DEF ToSet
  <2> QED  BY <1>5, <2>6 DEF Held
<1>9. ASSUME Len(Roles) < MaxRoles PROVE Analyzed = ToSet(Met)
  <2>1. m = n
    BY <1>1, <1>3, <1>9, PictureBounds
  <2>2. ASSUME NEW i \in 1..l PROVE Met[i] \in Analyzed
    <3>1. PICK j \in Firsts(Met) : Met[j] = Met[i]
      BY <1>4
    <3>2. PICK k \in 1..n : order[k] = j
      BY <1>3
    <3> QED  BY <1>1, <1>5, <2>1, <3>1, <3>2 DEF Held
  <2> QED  BY <1>2, <2>2, RolesAreDistinct DEF ToSet
<1> QED  BY <1>8, <1>9

LEMMA SkillsAreClassified == PictureTyped => SkillsAreClassifiedOnce
<1> SUFFICES ASSUME PictureTyped PROVE SkillsAreClassifiedOnce
  OBVIOUS
<1> DEFINE Asked == UNION {ToSet(picture.asks[r]) : r \in Analyzed}
<1>1. \A key : key \in ObservedKeys <=> \E n \in Asked : Key(n) = key
  BY DEF ObservedKeys, SkillKeys
<1>2. \A key : key \in ResumeKeys <=> \E n \in ToSet(picture.resume) : Key(n) = key
  BY DEF ResumeKeys, SkillKeys
<1>3. Supported \union (ObservedKeys \ ResumeKeys) \union ResumeOnly
        = ObservedKeys \union ResumeKeys
  BY DEF Supported, ResumeOnly
<1>4. {Key(n) : n \in ToSet(picture.resume) \union Asked} = ObservedKeys \union ResumeKeys
  <2> HIDE DEF Asked
  <2> QED  BY <1>1, <1>2
<1>5. ASSUME NEW key \in Supported PROVE Demand(key) > 0 /\ Terms(key) # {}
  <2>1. PICK r \in Analyzed : \E n \in ToSet(picture.asks[r]) : Key(n) = key
    BY <1>1 DEF Supported
  <2>2. PICK n \in ToSet(picture.asks[r]) : Key(n) = key
    BY <2>1
  <2>3. r \in RolesFor(key)
    BY <2>2 DEF RolesFor
  <2>4. IsFiniteSet(RolesFor(key))
    BY RolesAreDistinct, FS_Subset DEF RolesFor
  <2>5. Cardinality(RolesFor(key)) \in Nat /\ Cardinality(RolesFor(key)) # 0
    BY <2>3, <2>4, FS_CardinalityType, FS_EmptySet
  <2>6. n \in Terms(key)
    BY <2>2 DEF Terms
  <2> QED  BY <2>5, <2>6 DEF Demand
<1> QED  BY <1>3, <1>4, <1>5 DEF SkillsAreClassifiedOnce

\* The name that is shown is one of the skill's.
LEMMA ShownIsOfTheResume ==
  ASSUME PictureTyped, NEW key \in ResumeKeys
  PROVE  ShownName(key) \in Name /\ Key(ShownName(key)) = key
<1> DEFINE Here(i) == /\ Key(picture.resume[i]) = key
                      /\ \A j \in 1..(i - 1) : Key(picture.resume[j]) # key
<1>1. PICK n \in Nat : DOMAIN picture.resume = 1..n
  <2>1. picture.resume \in Seq(Name)
    BY DEF PictureTyped
  <2> QED  BY <2>1
<1> DEFINE S == {i \in 1..n : Key(picture.resume[i]) = key}
<1>2. S \in SUBSET Nat /\ S # {}
  BY <1>1 DEF ResumeKeys, SkillKeys, ToSet
<1>3. PICK i \in S : \A j \in S : i <= j
  BY <1>2, LeastOf
<1>4. i \in DOMAIN picture.resume /\ Here(i)
  BY <1>1, <1>3
<1>5. PICK k \in DOMAIN picture.resume : k = (CHOOSE x \in DOMAIN picture.resume : Here(x)) /\ Here(k)
  BY <1>4
<1>6. ShownName(key) = picture.resume[k]
  BY <1>5 DEF ShownName
<1>7. picture.resume[k] \in Name
  <2>1. picture.resume \in Seq(Name) /\ k \in DOMAIN picture.resume
    BY <1>5 DEF PictureTyped
  <2> HIDE DEF Name
  <2> QED  BY <2>1
<1>8. Key(picture.resume[k]) = key
  BY <1>5
<1> QED  BY <1>6, <1>7, <1>8

LEMMA NamesAreMatched == PictureTyped => ExactMatchesAreNamedAlike
<1> SUFFICES ASSUME PictureTyped, NEW key \in Supported
             PROVE  (MatchConfidence(key) = "exact")
                      = (\E r \in RolesFor(key) :
                           LiteralKey(ShownName(key)) \in {LiteralKey(n) : n \in ToSet(picture.asks[r])})
  BY DEF ExactMatchesAreNamedAlike
<1> DEFINE shown == ShownName(key)
<1>1. shown \in Name /\ Key(shown) = key
  BY ShownIsOfTheResume DEF Supported
<1>2. (MatchConfidence(key) = "exact") = (\E n \in Terms(key) : LiteralKey(n) = LiteralKey(shown))
  BY DEF MatchConfidence
<1>3. \A n \in Terms(key) : \E r \in RolesFor(key) : n \in ToSet(picture.asks[r])
  BY DEF Terms, RolesFor
<1>4. ASSUME NEW r \in RolesFor(key), NEW n \in ToSet(picture.asks[r]), LiteralKey(n) = LiteralKey(shown)
      PROVE  n \in Terms(key)
  <2>1. r \in Analyzed /\ r \in Role
    BY RolesAreDistinct DEF RolesFor
  <2>2. n \in Name
    BY <2>1 DEF Name
  <2>3. Key(n) = key
    BY <1>1, <1>4, <2>2 DEF PictureTyped
  <2> QED  BY <2>1, <2>3 DEF Terms
<1> HIDE DEF shown
<1>5. (\E n \in Terms(key) : LiteralKey(n) = LiteralKey(shown))
        <=> \E r \in RolesFor(key) : LiteralKey(shown) \in {LiteralKey(n) : n \in ToSet(picture.asks[r])}
  BY <1>3, <1>4
<1> QED  BY <1>2, <1>5 DEF shown

\* The skills that are asked for are finitely many.
LEMMA ObservedIsFinite ==
  ASSUME PictureTyped
  PROVE  IsFiniteSet(ObservedKeys)
<1>1. ASSUME NEW r \in Role PROVE IsFiniteSet(SkillKeys(ToSet(picture.asks[r])))
  <2>1. PICK n \in Nat : DOMAIN picture.asks[r] = 1..n
    BY DEF PictureTyped
  <2> DEFINE s == [i \in 1..n |-> Key(picture.asks[r][i])]
  <2>2. IsFiniteSet(Held(s, 1..n))
    BY DistinctCount
  <2>3. Held(s, 1..n) = SkillKeys(ToSet(picture.asks[r]))
    BY <2>1 DEF Held, SkillKeys, ToSet
  <2> QED  BY <2>2, <2>3
<1>2. PICK m \in Nat : DOMAIN Roles = 1..m /\ \A k \in 1..m : Roles[k] \in Role
  BY RolesAreFirstMet
<1> DEFINE s == [k \in 1..m |-> SkillKeys(ToSet(picture.asks[Roles[k]]))]
<1>3. IsFiniteSet(Held(s, 1..m))
  BY DistinctCount
<1>4. Held(s, 1..m) = {SkillKeys(ToSet(picture.asks[r])) : r \in Analyzed}
  BY <1>2 DEF Held, Analyzed, ToSet
<1>5. \A T \in Held(s, 1..m) : IsFiniteSet(T)
  BY <1>1, <1>2 DEF Held
<1> HIDE DEF s
<1>6. IsFiniteSet(UNION Held(s, 1..m))
  BY <1>3, <1>5, FS_UNION
<1> QED  BY <1>4, <1>6 DEF ObservedKeys

\* A finite set that is made a sequence.
LEMMA SetsAreListed ==
  ASSUME NEW S, IsFiniteSet(S)
  PROVE  \E n \in Nat :
           /\ n = Cardinality(S) /\ SetToSeq(S) \in [1..n -> S]
           /\ \A i, j \in 1..n : SetToSeq(S)[i] = SetToSeq(S)[j] => i = j
           /\ \A x \in S : \E i \in 1..n : SetToSeq(S)[i] = x
<1>1. PICK n \in Nat : n = Cardinality(S)
  BY FS_CardinalityType
<1>2. ExistsBijection(1..n, S)
  BY <1>1, FS_CardinalityType
<1>3. PICK g \in Bijection(1..n, S) : TRUE
  BY <1>2 DEF ExistsBijection
<1>4. g \in [1..n -> S] /\ IsInjective(g)
  BY <1>3 DEF Bijection, Injection
<1>5. PICK f : f = SetToSeq(S)
  OBVIOUS
<1>6. f \in [1..n -> S] /\ IsInjective(f)
  BY <1>1, <1>4, <1>5 DEF SetToSeq
<1>7. f \in Injection(1..n, S)
  BY <1>6 DEF Injection
<1>8. IsFiniteSet(1..n) /\ Cardinality(1..n) = n
  BY FS_Interval
<1>9. f \in Surjection(1..n, S)
  BY <1>1, <1>7, <1>8, FS_Injection
<1>10. \A x \in S : \E i \in 1..n : f[i] = x
  BY <1>9 DEF Surjection
<1>11. \A i, j \in 1..n : f[i] = f[j] => i = j
  BY <1>6 DEF IsInjective
<1> QED  BY <1>1, <1>5, <1>6, <1>10, <1>11

LEMMA GapsAreRanked == PictureTyped => GapsShowDemand
<1> SUFFICES ASSUME PictureTyped PROVE GapsShowDemand
  OBVIOUS
<1> DEFINE G == ObservedKeys \ ResumeKeys
           keys == SetToSeq(G)
           Before(i, j) == \/ Demand(keys[i]) > Demand(keys[j])
                           \/ (Demand(keys[i]) = Demand(keys[j]) /\ i < j)
           R == {x \in (DOMAIN keys) \X (DOMAIN keys) : Before(x[1], x[2])}
           sorted == Rearranged(keys, DOMAIN keys, R)
<1>1. IsFiniteSet(G)
  BY ObservedIsFinite, FS_Subset
<1>2. Gaps = ToSet(Leading(sorted, MaxGaps))
  BY DEF Gaps
<1>3. \A key : Demand(key) \in Nat
  <2>1. \A key : IsFiniteSet(RolesFor(key))
    BY RolesAreDistinct, FS_Subset DEF RolesFor
  <2> QED  BY <2>1, FS_CardinalityType DEF Demand
<1> HIDE DEF G
<1>4. PICK n \in Nat :
        /\ keys \in [1..n -> G]
        /\ \A x \in G : \E i \in 1..n : keys[i] = x
  BY <1>1, SetsAreListed
<1>5. DOMAIN keys = 1..n
  BY <1>4
<1> HIDE DEF keys
<1>6. \A i, j \in 1..n : <<i, j>> \in R <=> Before(i, j)
  BY <1>5
<1>7. \A i \in 1..n : Demand(keys[i]) \in Nat
  BY <1>3
<1>8. IsStrictOrder(1..n, R)
  <2> HIDE DEF R
  <2> QED  BY <1>6, <1>7 DEF IsStrictOrder
<1> HIDE DEF R
<1>9. PICK order : order = Arranged(1..n, R)
  OBVIOUS
<1>10. /\ order \in [1..n -> 1..n]
       /\ \A k, l \in 1..n : k < l => <<order[k], order[l]>> \in R
       /\ \A i \in 1..n : \E k \in 1..n : order[k] = i
  BY <1>8, <1>9, IndicesAreSorted
<1>11. sorted = [k \in 1..n |-> keys[order[k]]]
  BY <1>5, <1>9, <1>10 DEF Rearranged
<1>12. sorted \in Seq(G) /\ Len(sorted) = n
  <2>1. sorted \in [1..n -> G]
    <3>1. \A k \in 1..n : order[k] \in 1..n
      BY <1>10
    <3> QED  BY <1>4, <1>11, <3>1
  <2> QED  BY <2>1
<1>13. \A k \in 1..n : sorted[k] = keys[order[k]]
  BY <1>11
<1> HIDE DEF sorted
<1>14. PICK m \in Nat :
         /\ m = IF n < MaxGaps THEN n ELSE MaxGaps
         /\ DOMAIN Leading(sorted, MaxGaps) = 1..m
         /\ m <= n /\ \A k \in 1..m : Leading(sorted, MaxGaps)[k] = sorted[k]
  <2>1. MaxGaps \in Nat
    BY PictureBounds
  <2>2. PICK m \in Nat :
          /\ m = IF Len(sorted) < MaxGaps THEN Len(sorted) ELSE MaxGaps
          /\ DOMAIN Leading(sorted, MaxGaps) = 1..m
          /\ m <= Len(sorted) /\ \A k \in 1..m : Leading(sorted, MaxGaps)[k] = sorted[k]
    BY <1>12, <2>1, LeadingIsPrefix
  <2> QED  BY <1>12, <2>2
<1>15. Gaps = Held(Leading(sorted, MaxGaps), 1..m)
  BY <1>2, <1>14 DEF Held, ToSet
<1>16. Cardinality(Gaps) <= MaxGaps
  <2>1. Cardinality(Gaps) \in 0..m
    BY <1>14, <1>15, DistinctCount
  <2> QED  BY <1>14, <2>1, PictureBounds
<1>17. ASSUME NEW shown \in Gaps, NEW hidden \in G \ Gaps
       PROVE  Demand(hidden) <= Demand(shown)
  <2>1. PICK k \in 1..m : shown = sorted[k]
    BY <1>14, <1>15 DEF Held
  <2>2. PICK i \in 1..n : keys[i] = hidden
    BY <1>4
  <2>3. PICK l \in 1..n : order[l] = i
    BY <1>10
  <2>4. ~(l <= m)
    <3>1. l \in 1..m => hidden \in Gaps
      BY <1>13, <1>14, <1>15, <2>2, <2>3 DEF Held
    <3> QED  BY <3>1
  <2>5. k \in 1..n /\ k < l
    BY <1>14, <2>4
  <2>6. <<order[k], i>> \in R /\ order[k] \in 1..n
    BY <1>10, <2>3, <2>5
  <2>7. Before(order[k], i)
    BY <1>6, <2>6
  <2> QED  BY <1>7, <1>13, <2>1, <2>2, <2>5, <2>6, <2>7
<1> QED  BY <1>16, <1>17 DEF GapsShowDemand, G

\* A role that is analysed was met in a list.
LEMMA RolesWereMet ==
  ASSUME PictureTyped, NEW r \in Analyzed
  PROVE  \E l \in List : r \in ToSet(picture[l])
<1>1. PICK x \in Seq(Role) : x = picture.applied
  BY DEF PictureTyped
<1>2. PICK y \in Seq(Role) : y = picture.saved
  BY DEF PictureTyped
<1>3. PICK z \in Seq(Role) : z = picture.searched
  BY DEF PictureTyped
<1>4. r \in ToSet((x \o y) \o z)
  BY <1>1, <1>2, <1>3, RolesAreDistinct DEF Met
<1> HIDE DEF Role
<1>5. PICK w \in Seq(Role) : w = x \o y
  BY ConcatProperties
<1>6. PICK i \in DOMAIN (w \o z) : r = (w \o z)[i]
  BY <1>4, <1>5 DEF ToSet
<1>7. /\ DOMAIN (w \o z) = 1..(Len(w) + Len(z))
      /\ (w \o z)[i] = IF i <= Len(w) THEN w[i] ELSE z[i - Len(w)]
  <2>1. /\ w \o z \in Seq(Role) /\ Len(w \o z) = Len(w) + Len(z)
        /\ \A k \in 1..(Len(w) + Len(z)) : (w \o z)[k] = IF k <= Len(w) THEN w[k] ELSE z[k - Len(w)]
    BY ConcatProperties
  <2> QED  BY <2>1
<1>8. /\ Len(w) = Len(x) + Len(y)
      /\ \A k \in 1..(Len(x) + Len(y)) : w[k] = IF k <= Len(x) THEN x[k] ELSE y[k - Len(x)]
  BY <1>5, ConcatProperties
<1>9. /\ Len(x) \in Nat /\ Len(y) \in Nat /\ Len(z) \in Nat
      /\ DOMAIN x = 1..Len(x) /\ DOMAIN y = 1..Len(y) /\ DOMAIN z = 1..Len(z)
  OBVIOUS
<1>10. CASE i <= Len(x)
  <2>1. i \in DOMAIN x /\ r = x[i]
    BY <1>6, <1>7, <1>8, <1>9, <1>10
  <2> QED  BY <1>1, <2>1 DEF List, ToSet
<1>11. CASE i > Len(x) /\ i <= Len(w)
  <2>1. i - Len(x) \in DOMAIN y /\ r = y[i - Len(x)]
    BY <1>6, <1>7, <1>8, <1>9, <1>11
  <2> QED  BY <1>2, <2>1 DEF List, ToSet
<1>12. CASE i > Len(w)
  <2>1. i - Len(w) \in DOMAIN z /\ r = z[i - Len(w)]
    BY <1>6, <1>7, <1>8, <1>9, <1>12
  <2> QED  BY <1>3, <2>1 DEF List, ToSet
<1> QED  BY <1>7, <1>8, <1>9, <1>10, <1>11, <1>12

\* The last time is a number of days ago.
LEMMA LastSeenIsDay == ASSUME PictureTyped, NEW r \in Analyzed PROVE LastSeen(r) \in Int
<1> DEFINE met == {m \in List : r \in ToSet(picture[m])}
           days == {picture.day[l][r] : l \in met}
<1>1. r \in Role
  BY RolesAreDistinct
<1>2. DOMAIN picture.day = List /\ \A l \in List : picture.day[l][r] \in Int
  BY <1>1 DEF PictureTyped
<1>3. days \in SUBSET Int
  BY <1>2
<1>4. days # {}
  BY RolesWereMet
<1>5. IsFiniteSet(days)
  <2> DEFINE three == ({picture.day["applied"][r]} \union {picture.day["saved"][r]})
                        \union {picture.day["searched"][r]}
  <2>1. IsFiniteSet(three)
    BY FS_Singleton, FS_Union
  <2>2. days \in SUBSET three
    BY DEF List
  <2> QED  BY <2>1, <2>2, FS_Subset
<1>6. LastSeen(r) = CHOOSE d \in days : \A e \in days : d <= e
  BY <1>2 DEF LastSeen
<1> HIDE DEF days
<1>7. \E d \in days : \A e \in days : d <= e
  BY <1>3, <1>4, <1>5, LeastOfFinite
<1>8. LastSeen(r) \in days
  BY <1>6, <1>7
<1> QED  BY <1>3, <1>8

LEMMA DisjointCount ==
  ASSUME NEW S, IsFiniteSet(S), NEW T, IsFiniteSet(T), S \intersect T = {}
  PROVE  /\ IsFiniteSet(S \union T)
         /\ Cardinality(S \union T) = Cardinality(S) + Cardinality(T)
<1>1. /\ IsFiniteSet(S \union T)
      /\ Cardinality(S \union T) = Cardinality(S) + Cardinality(T) - Cardinality(S \intersect T)
  BY FS_Union
<1>2. Cardinality(S \intersect T) = 0
  BY FS_EmptySet
<1>3. Cardinality(S) \in Nat /\ Cardinality(T) \in Nat
  BY FS_CardinalityType
<1> QED  BY <1>1, <1>2, <1>3

\* Each role is of the last week, of the last month or older.
LEMMA RecencyIsShared ==
  PictureTyped => Recency[1] + Recency[2] + Recency[3] = Cardinality(Analyzed)
<1> SUFFICES ASSUME PictureTyped
             PROVE  Recency[1] + Recency[2] + Recency[3] = Cardinality(Analyzed)
  OBVIOUS
<1> DEFINE week == {r \in Analyzed : LastSeen(r) <= 7}
           month == {r \in Analyzed : LastSeen(r) > 7 /\ LastSeen(r) <= 30}
           older == {r \in Analyzed : LastSeen(r) > 30}
<1>1. Recency = <<Cardinality(week), Cardinality(month), Cardinality(older)>>
  BY DEF Recency
<1>2. \A r \in Analyzed : LastSeen(r) \in Int
  BY LastSeenIsDay
<1>3. (week \union month) \union older = Analyzed
  BY <1>2
<1>4. week \intersect month = {} /\ (week \union month) \intersect older = {}
  BY <1>2
<1>5. IsFiniteSet(week) /\ IsFiniteSet(month) /\ IsFiniteSet(older)
  BY RolesAreDistinct, FS_Subset
<1> HIDE DEF week, month, older
<1>6. IsFiniteSet(week \union month)
      /\ Cardinality(week \union month) = Cardinality(week) + Cardinality(month)
  BY <1>4, <1>5, DisjointCount
<1>7. Cardinality(Analyzed) = Cardinality(week \union month) + Cardinality(older)
  BY <1>3, <1>4, <1>5, <1>6, DisjointCount
<1>8. Cardinality(week) \in Nat /\ Cardinality(month) \in Nat /\ Cardinality(older) \in Nat
  BY <1>5, FS_CardinalityType
<1> QED  BY <1>1, <1>6, <1>7, <1>8

LEMMA RolesAreCounted == PictureTyped => RolesCountOnce
<1> SUFFICES ASSUME PictureTyped PROVE RolesCountOnce
  OBVIOUS
<1> DEFINE K == {ClusterOf(r) : r \in Analyzed}
<1>1. DOMAIN Clusters = K /\ \A k \in K : Clusters[k] = {r \in Analyzed : ClusterOf(r) = k}
  BY DEF Clusters
<1>2. UNION {Clusters[k] : k \in DOMAIN Clusters} = Analyzed
  <2>1. ASSUME NEW r \in Analyzed
        PROVE  ClusterOf(r) \in DOMAIN Clusters /\ r \in Clusters[ClusterOf(r)]
    BY <1>1
  <2>2. \A k \in DOMAIN Clusters : Clusters[k] \subseteq Analyzed
    BY <1>1
  <2> HIDE DEF K
  <2> QED  BY <2>1, <2>2
<1> QED  BY <1>2, RolesAreDistinct, ApplicationsComeFirst, RecencyIsShared DEF RolesCountOnce

\* Whatever was searched for, saved and applied to, the picture of the account's
\* skills counts each role once, the applications first, and says of skills and
\* gaps what those roles and the resume say.
THEOREM PicturesAreTrue == PictureInit => PictureIsTrue
BY PicturesAreTyped, SkillsAreClassified, NamesAreMatched, GapsAreRanked, RolesAreCounted
   DEF PictureIsTrue

-------------------------------------------------------------------------------
(* Tailored documents.                                                         *)

IsSeq(s) == s \in Seq(ToSet(s))

TailoringTyped ==
  /\ IsSeq(Resume.skills) /\ IsSeq(Job.required)
  /\ IsSeq(Resume.experience) /\ IsSeq(Resume.projects) /\ IsSeq(Resume.achievements)
  /\ \A item \in ToSet(Resume.experience) \union ToSet(Resume.projects) : IsFiniteSet(item.terms)

LEMMA ListsAreSequences ==
  ASSUME NEW T, NEW s \in Seq(T)
  PROVE  IsSeq(s) /\ Len(s) \in Nat /\ DOMAIN s = 1..Len(s) /\ ToSet(s) = Held(s, 1..Len(s))
BY DEF IsSeq, ToSet, Held

LEMMA SequencesAreLists ==
  ASSUME NEW s, IsSeq(s)
  PROVE  /\ s \in Seq(ToSet(s)) /\ Len(s) \in Nat /\ DOMAIN s = 1..Len(s)
         /\ ToSet(s) = Held(s, 1..Len(s)) /\ (s = <<>> <=> Len(s) = 0)
         /\ \A i \in 1..Len(s) : s[i] \in ToSet(s)
         /\ \A x \in ToSet(s) : \E i \in 1..Len(s) : s[i] = x
<1>1. s \in Seq(ToSet(s))
  BY DEF IsSeq
<1>2. ToSet(s) = Held(s, 1..Len(s))
  BY <1>1 DEF ToSet, Held
<1>3. s = <<>> <=> Len(s) = 0
  BY <1>1, EmptySeq
<1>4. \A x \in ToSet(s) : \E i \in 1..Len(s) : s[i] = x
  BY <1>2 DEF Held
<1> QED  BY <1>1, <1>2, <1>3, <1>4

LEMMA FunctionsAreLists ==
  ASSUME NEW n \in Nat, NEW T, NEW s \in [1..n -> T]
  PROVE  s \in Seq(T) /\ IsSeq(s) /\ Len(s) = n /\ DOMAIN s = 1..n
<1>1. s \in Seq(T) /\ Len(s) = n
  OBVIOUS
<1> QED  BY <1>1, ListsAreSequences

LEMMA SingleIsList ==
  /\ \A x : IsSeq(<<x>>) /\ ToSet(<<x>>) = {x} /\ Len(<<x>>) = 1
  /\ IsSeq(<<>>) /\ ToSet(<<>>) = {} /\ Len(<<>>) = 0
<1>1. ASSUME NEW x PROVE IsSeq(<<x>>) /\ ToSet(<<x>>) = {x} /\ Len(<<x>>) = 1
  <2>1. <<x>> \in Seq({x}) /\ ToSet(<<x>>) = {x} /\ Len(<<x>>) = 1
    BY DEF ToSet
  <2> QED  BY <2>1, ListsAreSequences
<1>2. IsSeq(<<>>) /\ ToSet(<<>>) = {} /\ Len(<<>>) = 0
  BY DEF IsSeq, ToSet
<1> QED  BY <1>1, <1>2

LEMMA ListsAreJoined ==
  ASSUME NEW s, IsSeq(s), NEW t, IsSeq(t)
  PROVE  /\ IsSeq(s \o t) /\ Len(s \o t) = Len(s) + Len(t)
         /\ DOMAIN (s \o t) = 1..(Len(s) + Len(t))
         /\ \A i \in 1..(Len(s) + Len(t)) :
              (s \o t)[i] = IF i <= Len(s) THEN s[i] ELSE t[i - Len(s)]
         /\ ToSet(s \o t) = ToSet(s) \union ToSet(t)
<1> DEFINE T == ToSet(s) \union ToSet(t)
<1>1. /\ s \in Seq(ToSet(s)) /\ Len(s) \in Nat /\ DOMAIN s = 1..Len(s)
      /\ \A i \in 1..Len(s) : s[i] \in ToSet(s)
      /\ \A x \in ToSet(s) : \E i \in 1..Len(s) : s[i] = x
  BY SequencesAreLists
<1>2. /\ t \in Seq(ToSet(t)) /\ Len(t) \in Nat /\ DOMAIN t = 1..Len(t)
      /\ \A i \in 1..Len(t) : t[i] \in ToSet(t)
      /\ \A x \in ToSet(t) : \E i \in 1..Len(t) : t[i] = x
  BY SequencesAreLists
<1>3. s \in Seq(T) /\ t \in Seq(T)
  BY <1>1, <1>2
<1>4. PICK u : u = s \o t
  OBVIOUS
<1> HIDE DEF T
<1>5. /\ u \in Seq(T) /\ Len(u) = Len(s) + Len(t)
      /\ \A i \in 1..(Len(s) + Len(t)) : u[i] = IF i <= Len(s) THEN s[i] ELSE t[i - Len(s)]
  BY <1>3, <1>4, ConcatProperties
<1>6. IsSeq(u) /\ DOMAIN u = 1..(Len(s) + Len(t)) /\ ToSet(u) = Held(u, 1..(Len(s) + Len(t)))
  BY <1>5, ListsAreSequences
<1>7. ToSet(u) \subseteq T
  BY <1>5, <1>6 DEF Held
<1>8. ASSUME NEW i \in 1..Len(s) PROVE s[i] \in ToSet(u)
  <2>1. i \in 1..(Len(s) + Len(t)) /\ u[i] = s[i]
    BY <1>1, <1>2, <1>5
  <2> QED  BY <1>6, <2>1 DEF Held
<1>9. ASSUME NEW i \in 1..Len(t) PROVE t[i] \in ToSet(u)
  <2>1. PICK k \in 1..(Len(s) + Len(t)) : ~(k <= Len(s)) /\ k - Len(s) = i
    <3>1. Len(s) + i \in 1..(Len(s) + Len(t)) /\ Len(s) + i - Len(s) = i /\ ~(Len(s) + i <= Len(s))
      BY <1>1, <1>2
    <3> QED  BY <3>1
  <2>2. u[k] = t[i]
    BY <1>5, <2>1
  <2> QED  BY <1>6, <2>2 DEF Held
<1>10. ToSet(u) = ToSet(s) \union ToSet(t)
  BY <1>1, <1>2, <1>7, <1>8, <1>9 DEF T
<1> QED  BY <1>4, <1>5, <1>6, <1>10

LEMMA PickedIsList ==
  ASSUME NEW s, IsSeq(s), NEW S \in SUBSET DOMAIN s
  PROVE  /\ IsSeq(Picked(s, S)) /\ Len(Picked(s, S)) = Cardinality(S)
         /\ ToSet(Picked(s, S)) = Held(s, S)
<1>1. /\ s \in Seq(ToSet(s)) /\ DOMAIN s = 1..Len(s)
      /\ \A i \in 1..Len(s) : s[i] \in ToSet(s)
  BY SequencesAreLists
<1>2. S \in SUBSET Int /\ IsFiniteSet(S)
  BY <1>1, IndicesOf
<1>3. \A i \in S : s[i] \in ToSet(s)
  BY <1>1
<1>4. PICK p : p = Picked(s, S)
  OBVIOUS
<1>5. p \in Seq(ToSet(s)) /\ Len(p) = Cardinality(S) /\ Held(p, DOMAIN p) = Held(s, S)
  BY <1>2, <1>3, <1>4, PickedIsSequence
<1>6. IsSeq(p) /\ ToSet(p) = Held(p, DOMAIN p)
  BY <1>5, ListsAreSequences
<1> QED  BY <1>4, <1>5, <1>6

LEMMA LeadingIsList ==
  ASSUME NEW s, IsSeq(s), NEW n \in Nat
  PROVE  \E m \in Nat :
           /\ m = IF Len(s) < n THEN Len(s) ELSE n
           /\ IsSeq(Leading(s, n)) /\ Len(Leading(s, n)) = m /\ DOMAIN Leading(s, n) = 1..m
           /\ m <= Len(s) /\ \A k \in 1..m : Leading(s, n)[k] = s[k]
           /\ ToSet(Leading(s, n)) \subseteq ToSet(s)
<1>1. s \in Seq(ToSet(s)) /\ Len(s) \in Nat /\ \A i \in 1..Len(s) : s[i] \in ToSet(s)
  BY SequencesAreLists
<1>2. PICK m \in Nat :
        /\ m = IF Len(s) < n THEN Len(s) ELSE n
        /\ Leading(s, n) \in Seq(ToSet(s)) /\ Len(Leading(s, n)) = m /\ DOMAIN Leading(s, n) = 1..m
        /\ m <= Len(s) /\ \A k \in 1..m : Leading(s, n)[k] = s[k]
  BY <1>1, LeadingIsPrefix
<1>3. IsSeq(Leading(s, n)) /\ ToSet(Leading(s, n)) = Held(Leading(s, n), 1..m)
  BY <1>2, ListsAreSequences
<1>4. ToSet(Leading(s, n)) \subseteq ToSet(s)
  BY <1>1, <1>2, <1>3 DEF Held
<1> QED  BY <1>2, <1>3, <1>4

LEMMA ResumesAreTyped == TailoringInit => TailoringTyped
<1> SUFFICES ASSUME TailoringInit PROVE TailoringTyped
  OBVIOUS
<1> DEFINE sections == {Resume.experience, Resume.projects, Resume.achievements}
           items == UNION {ToSet(section) : section \in sections}
<1>1. /\ Resume.skills \in Seq(ToSet(Resume.skills)) /\ Job.required \in Seq(ToSet(Job.required))
      /\ sections \subseteq Seq(items) /\ \A item \in items : IsFiniteSet(item.terms)
  BY TailoringInputs DEF TailoringInit, Resume, Job
<1>2. \A section \in sections : IsSeq(section)
  <2> HIDE DEF sections, items
  <2> QED  BY <1>1, ListsAreSequences
<1>3. IsSeq(Resume.skills) /\ IsSeq(Job.required)
  BY <1>1 DEF IsSeq
<1>4. \A item \in ToSet(Resume.experience) \union ToSet(Resume.projects) : item \in items
  OBVIOUS
<1> QED  BY <1>1, <1>2, <1>3, <1>4 DEF TailoringTyped

LEMMA MembersAreAmong ==
  ASSUME NEW list, IsSeq(list), NEW skills
  PROVE  /\ IsSeq(Among(list, skills)) /\ ToSet(Among(list, skills)) = ToSet(list) \intersect skills
         /\ IsSeq(NotAmong(list, skills)) /\ ToSet(NotAmong(list, skills)) = ToSet(list) \ skills
         /\ \A others : (\A x \in ToSet(list) : x \in skills <=> x \in others)
              => Len(Among(list, skills)) + Len(NotAmong(list, others)) = Len(list)
<1> DEFINE In(set) == {i \in DOMAIN list : list[i] \in set}
           Out(set) == {i \in DOMAIN list : list[i] \notin set}
<1>1. /\ DOMAIN list = 1..Len(list) /\ Len(list) \in Nat
      /\ \A i \in 1..Len(list) : list[i] \in ToSet(list)
      /\ \A x \in ToSet(list) : \E i \in 1..Len(list) : list[i] = x
  BY SequencesAreLists
<1>2. /\ IsSeq(Among(list, skills)) /\ Len(Among(list, skills)) = Cardinality(In(skills))
      /\ ToSet(Among(list, skills)) = Held(list, In(skills))
  <2>1. In(skills) \in SUBSET DOMAIN list
    OBVIOUS
  <2> HIDE DEF In
  <2>2. /\ IsSeq(Picked(list, In(skills))) /\ Len(Picked(list, In(skills))) = Cardinality(In(skills))
        /\ ToSet(Picked(list, In(skills))) = Held(list, In(skills))
    BY <2>1, PickedIsList
  <2> QED  BY <2>2 DEF Among, In
<1>3. ASSUME NEW set
      PROVE  /\ IsSeq(NotAmong(list, set)) /\ Len(NotAmong(list, set)) = Cardinality(Out(set))
             /\ ToSet(NotAmong(list, set)) = Held(list, Out(set))
  <2>1. Out(set) \in SUBSET DOMAIN list
    OBVIOUS
  <2> HIDE DEF Out
  <2>2. /\ IsSeq(Picked(list, Out(set))) /\ Len(Picked(list, Out(set))) = Cardinality(Out(set))
        /\ ToSet(Picked(list, Out(set))) = Held(list, Out(set))
    BY <2>1, PickedIsList
  <2> QED  BY <2>2 DEF NotAmong, Out
<1>4. Held(list, In(skills)) = ToSet(list) \intersect skills
  BY <1>1 DEF Held
<1>5. Held(list, Out(skills)) = ToSet(list) \ skills
  BY <1>1 DEF Held
<1>6. ASSUME NEW others, \A x \in ToSet(list) : x \in skills <=> x \in others
      PROVE  Len(Among(list, skills)) + Len(NotAmong(list, others)) = Len(list)
  <2>1. In(skills) \union Out(others) = 1..Len(list) /\ In(skills) \intersect Out(others) = {}
    BY <1>1, <1>6
  <2>2. IsFiniteSet(1..Len(list)) /\ Cardinality(1..Len(list)) = Len(list)
    BY <1>1, FS_Interval
  <2>3. In(skills) \in SUBSET (1..Len(list)) /\ Out(others) \in SUBSET (1..Len(list))
    BY <1>1
  <2>4. IsFiniteSet(In(skills)) /\ IsFiniteSet(Out(others))
    BY <2>2, <2>3, FS_Subset
  <2> HIDE DEF In, Out
  <2>5. Cardinality(In(skills)) + Cardinality(Out(others)) = Len(list)
    BY <2>1, <2>2, <2>4, DisjointCount
  <2> QED  BY <1>2, <1>3, <2>5
<1> HIDE DEF In, Out
<1> QED  BY <1>2, <1>3, <1>4, <1>5, <1>6

\* The skills are the resume's, as often as it names them.
LEMMA SkillsAreReordered ==
  ASSUME TailoringTyped
  PROVE  /\ IsSeq(MatchedSkills)
         /\ ToSet(MatchedSkills) = ToSet(Resume.skills) \intersect (Job.mentions \union ToSet(Job.required))
         /\ ToSet(OrderedSkills) = ToSet(Resume.skills) /\ Len(OrderedSkills) = Len(Resume.skills)
         /\ IsSeq(MissingSkills) /\ ToSet(MissingSkills) = ToSet(Job.required) \ ToSet(Resume.skills)
<1> DEFINE wanted == Job.mentions \union ToSet(Job.required)
           matched == ToSet(MatchedSkills)
           others == NotAmong(Resume.skills, matched)
<1>1. PICK skills : skills = Resume.skills /\ IsSeq(skills)
  BY DEF TailoringTyped
<1>2. MatchedSkills = Among(skills, wanted)
  BY <1>1 DEF MatchedSkills
<1> HIDE DEF wanted
<1>3. IsSeq(MatchedSkills) /\ matched = ToSet(skills) \intersect wanted
  BY <1>1, <1>2, MembersAreAmong
<1> HIDE DEF matched
<1>4. IsSeq(others) /\ ToSet(others) = ToSet(skills) \ matched
  BY <1>1, MembersAreAmong
<1>5. Len(MatchedSkills) + Len(others) = Len(skills)
  <2>1. \A x \in ToSet(skills) : x \in wanted <=> x \in matched
    BY <1>3
  <2> QED  BY <1>1, <1>2, <2>1, MembersAreAmong
<1>6. OrderedSkills = MatchedSkills \o others
  BY DEF OrderedSkills, matched
<1> HIDE DEF others
<1>7. ToSet(OrderedSkills) = ToSet(MatchedSkills) \union ToSet(others)
      /\ Len(OrderedSkills) = Len(MatchedSkills) + Len(others)
  BY <1>3, <1>4, <1>6, ListsAreJoined
<1>8. IsSeq(MissingSkills) /\ ToSet(MissingSkills) = ToSet(Job.required) \ ToSet(Resume.skills)
  BY MembersAreAmong DEF MissingSkills, TailoringTyped
<1>9. ToSet(OrderedSkills) = ToSet(skills)
  BY <1>3, <1>4, <1>7 DEF matched
<1> QED  BY <1>1, <1>3, <1>5, <1>7, <1>8, <1>9 DEF wanted, matched

\* The items of a section, those with most terms first.
LEMMA ItemsAreRanked ==
  ASSUME TailoringTyped, NEW items \in {Resume.experience, Resume.projects}
  PROVE  /\ ToSet(Prioritized(items)) = DOMAIN items
         /\ \A i, j \in DOMAIN items :
              LET place(p) == CHOOSE k \in DOMAIN items : Prioritized(items)[k] = p
                  terms(p) == Cardinality(MatchedTerms(items[p]))
              IN place(i) < place(j) => terms(i) > terms(j) \/ (terms(i) = terms(j) /\ i < j)
<1> DEFINE terms(p) == Cardinality(MatchedTerms(items[p]))
           Before(i, j) == terms(i) > terms(j) \/ (terms(i) = terms(j) /\ i < j)
           Order == {x \in (DOMAIN items) \X (DOMAIN items) : Before(x[1], x[2])}
           place(p) == CHOOSE k \in DOMAIN items : Prioritized(items)[k] = p
<1>1. IsSeq(items) /\ \A item \in ToSet(items) : IsFiniteSet(item.terms)
  BY DEF TailoringTyped
<1>2. PICK n \in Nat : DOMAIN items = 1..n /\ \A i \in 1..n : items[i] \in ToSet(items)
  BY <1>1, SequencesAreLists
<1>3. \A i \in 1..n : terms(i) \in Nat
  <2>1. ASSUME NEW i \in 1..n PROVE IsFiniteSet(MatchedTerms(items[i]))
    BY <1>1, <1>2, FS_Subset DEF MatchedTerms
  <2> QED  BY <2>1, FS_CardinalityType
<1>4. PICK R : R = Order
  OBVIOUS
<1>5. Prioritized(items) = Arranged(1..n, R)
  BY <1>2, <1>4 DEF Prioritized
<1>6. \A i, j \in 1..n : <<i, j>> \in R <=> Before(i, j)
  BY <1>2, <1>4
<1> HIDE DEF terms
<1>7. IsStrictOrder(1..n, R)
  BY <1>3, <1>6 DEF IsStrictOrder
<1>8. PICK order : order = Prioritized(items)
  OBVIOUS
<1>9. order = Arranged(1..n, R)
  BY <1>5, <1>8
<1> HIDE DEF place, Before, Order
<1>10. order \in [1..n -> 1..n] /\ \A i \in 1..n : \E k \in 1..n : order[k] = i
  <2>1. /\ Arranged(1..n, R) \in [1..n -> 1..n]
        /\ \A i \in 1..n : \E k \in 1..n : Arranged(1..n, R)[k] = i
    BY <1>7, IndicesAreSorted
  <2> QED  BY <1>9, <2>1
<1>11. \A k, l \in 1..n : k < l => <<order[k], order[l]>> \in R
  <2>1. \A k, l \in 1..n : k < l => <<Arranged(1..n, R)[k], Arranged(1..n, R)[l]>> \in R
    BY <1>7, IndicesAreSorted
  <2> QED  BY <1>9, <2>1
<1>12. ToSet(order) = 1..n
  <2>1. DOMAIN order = 1..n /\ \A k \in 1..n : order[k] \in 1..n
    BY <1>10
  <2> QED  BY <1>10, <2>1 DEF ToSet
<1>13. ASSUME NEW p \in 1..n PROVE place(p) \in 1..n /\ order[place(p)] = p
  <2>1. place(p) = CHOOSE k \in 1..n : order[k] = p
    BY <1>2, <1>8 DEF place
  <2>2. \E k \in 1..n : order[k] = p
    BY <1>10
  <2> QED  BY <2>1, <2>2
<1>14. ASSUME NEW i \in 1..n, NEW j \in 1..n, place(i) < place(j)
       PROVE  Before(i, j)
  <2>1. \A p \in 1..n : order[p] \in 1..n
    BY <1>10
  <2> QED  BY <1>6, <1>11, <1>13, <1>14, <2>1
<1> QED  BY <1>2, <1>8, <1>12, <1>14 DEF place, terms, Before

LEMMA PlansAreReordered == TailoringTyped => PlanIsTheResumeReordered
<1>1. TailoringTyped => ToSet(MissingSkills) \intersect ToSet(Resume.skills) = {}
  BY SkillsAreReordered
<1> QED  BY <1>1, SkillsAreReordered, ItemsAreRanked DEF PlanIsTheResumeReordered

\* A section's evidence quotes its items, at their places.
Quotes(found, section, items) ==
  /\ IsSeq(found)
  /\ \A e \in ToSet(found) :
       e.kind = section /\ e.index \in DOMAIN items /\ e.text = items[e.index].text

LEMMA EvidenceQuotes ==
  ASSUME NEW items, IsSeq(items), NEW section
  PROVE  /\ Quotes(Evidence(section, items), section, items)
         /\ Quotes(Quoted(section, items), section, items)
         /\ ToSet(Quoted(section, items)) = {} <=> items = <<>>
<1> DEFINE Citing(i) == [kind |-> section, index |-> i, text |-> items[i].text]
           cited == [i \in DOMAIN items |-> Citing(i)]
           S == {i \in DOMAIN items : MatchedTerms(items[i]) # {}}
<1>1. PICK n \in Nat : n = Len(items) /\ DOMAIN items = 1..n /\ (items = <<>> <=> n = 0)
  BY SequencesAreLists
<1>2. cited \in [1..n -> {Citing(i) : i \in 1..n}]
  BY <1>1
<1>3. IsSeq(cited) /\ DOMAIN cited = 1..n
  BY <1>2, FunctionsAreLists
<1>4. PICK found : found = Evidence(section, items)
  OBVIOUS
<1>5. IsSeq(found) /\ ToSet(found) = Held(cited, S)
  <2>1. found = Picked(cited, S)
    BY <1>4 DEF Evidence
  <2>2. S \in SUBSET DOMAIN cited
    BY <1>1, <1>3
  <2> HIDE DEF cited, S
  <2> QED  BY <1>3, <2>1, <2>2, PickedIsList
<1>6. Quotes(found, section, items)
  BY <1>5 DEF Quotes, Held
<1>7. CASE found # <<>>
  <2>1. Quoted(section, items) = <<found[1]>>
    BY <1>4, <1>7 DEF Quoted
  <2>2. found[1] \in ToSet(found)
    BY <1>5, <1>7, SequencesAreLists
  <2>3. IsSeq(<<found[1]>>) /\ ToSet(<<found[1]>>) = {found[1]}
    BY SingleIsList
  <2>4. n # 0
    BY <1>1, <1>6, <2>2 DEF Quotes
  <2>5. Quotes(<<found[1]>>, section, items)
    BY <1>6, <2>2, <2>3 DEF Quotes
  <2> QED  BY <1>1, <1>4, <1>6, <2>1, <2>3, <2>4, <2>5
<1>8. CASE found = <<>> /\ items # <<>>
  <2>1. Quoted(section, items) = <<Citing(1)>>
    BY <1>4, <1>8 DEF Quoted
  <2>2. IsSeq(<<Citing(1)>>) /\ ToSet(<<Citing(1)>>) = {Citing(1)}
    BY SingleIsList
  <2>3. 1 \in DOMAIN items
    BY <1>1, <1>8
  <2>4. Quotes(<<Citing(1)>>, section, items)
    BY <2>2, <2>3 DEF Quotes
  <2> QED  BY <1>4, <1>6, <1>8, <2>1, <2>2, <2>4
<1>9. CASE found = <<>> /\ items = <<>>
  <2>1. Quoted(section, items) = <<>>
    BY <1>4, <1>9 DEF Quoted
  <2>2. IsSeq(<<>>) /\ ToSet(<<>>) = {}
    BY SingleIsList
  <2> QED  BY <1>4, <1>6, <1>9, <2>1, <2>2 DEF Quotes
<1> QED  BY <1>7, <1>8, <1>9

\* The skills of the letter.
Skills == [k \in DOMAIN LetterSkills |-> [kind |-> "skill", index |-> k, text |-> LetterSkills[k]]]

LEMMA SkillsAreQuoted ==
  ASSUME TailoringTyped
  PROVE  /\ IsSeq(Skills)
         /\ \A e \in ToSet(Skills) : /\ e.kind = "skill" /\ e.index \in DOMAIN MatchedSkills
                                   /\ e.text = MatchedSkills[e.index]
         /\ ToSet(Skills) = {} <=> LetterSkills = <<>>
<1>1. IsSeq(MatchedSkills)
  BY SkillsAreReordered
<1>2. PICK n \in Nat :
        /\ IsSeq(LetterSkills) /\ n = Len(LetterSkills) /\ DOMAIN LetterSkills = 1..n
        /\ n <= Len(MatchedSkills) /\ \A k \in 1..n : LetterSkills[k] = MatchedSkills[k]
  BY <1>1, LeadingIsList DEF LetterSkills
<1>3. LetterSkills = <<>> <=> n = 0
  BY <1>2, SequencesAreLists
<1> DEFINE Skill(k) == [kind |-> "skill", index |-> k, text |-> LetterSkills[k]]
<1>4. Skills = [k \in 1..n |-> Skill(k)]
  BY <1>2 DEF Skills
<1>5. Skills \in [1..n -> {Skill(k) : k \in 1..n}]
  BY <1>4
<1>6. IsSeq(Skills)
  BY <1>5, FunctionsAreLists
<1>7. ToSet(Skills) = {Skill(k) : k \in 1..n}
  BY <1>4 DEF ToSet
<1>8. ToSet(Skills) = {} <=> n = 0
  <2>1. n # 0 => 1 \in 1..n
    OBVIOUS
  <2>2. n # 0 => Skill(1) \in ToSet(Skills)
    BY <1>7, <2>1
  <2>3. n = 0 => 1..n = {}
    OBVIOUS
  <2>4. n = 0 => ToSet(Skills) = {}
    BY <1>7, <2>3
  <2> QED  BY <2>2, <2>4
<1>9. \A k \in 1..n : k \in DOMAIN MatchedSkills
  <2>1. Len(MatchedSkills) \in Nat /\ DOMAIN MatchedSkills = 1..Len(MatchedSkills)
    BY <1>1, SequencesAreLists
  <2> QED  BY <1>2, <2>1
<1> HIDE DEF Skills
<1> QED  BY <1>2, <1>3, <1>6, <1>7, <1>8, <1>9

LEMMA LetterIsQuoted ==
  ASSUME TailoringTyped
  PROVE  /\ IsSeq(Resume.experience) /\ IsSeq(Resume.projects)
         /\ ToSet(LetterEvidence) = (ToSet(Skills) \union ToSet(Quoted("experience", Resume.experience)))
                                      \union ToSet(Quoted("project", Resume.projects))
         /\ ToSet(PlanEvidence) = ToSet(Evidence("experience", Resume.experience))
                                    \union ToSet(Evidence("project", Resume.projects))
<1>1. IsSeq(Resume.experience) /\ IsSeq(Resume.projects)
  BY DEF TailoringTyped
<1>2. PICK worked : worked = Quoted("experience", Resume.experience) /\ IsSeq(worked)
  BY <1>1, EvidenceQuotes DEF Quotes
<1>3. PICK built : built = Quoted("project", Resume.projects) /\ IsSeq(built)
  BY <1>1, EvidenceQuotes DEF Quotes
<1>4. LetterEvidence = (Skills \o worked) \o built
  BY <1>2, <1>3 DEF LetterEvidence, Skills
<1>5. IsSeq(Skills \o worked) /\ ToSet(Skills \o worked) = ToSet(Skills) \union ToSet(worked)
  BY <1>2, SkillsAreQuoted, ListsAreJoined
<1>6. ToSet(LetterEvidence) = ToSet(Skills \o worked) \union ToSet(built)
  BY <1>3, <1>4, <1>5, ListsAreJoined
<1>7. PICK work : work = Evidence("experience", Resume.experience) /\ IsSeq(work)
  BY <1>1, EvidenceQuotes DEF Quotes
<1>8. PICK build : build = Evidence("project", Resume.projects) /\ IsSeq(build)
  BY <1>1, EvidenceQuotes DEF Quotes
<1>9. PlanEvidence = work \o build
  BY <1>7, <1>8 DEF PlanEvidence
<1>10. ToSet(PlanEvidence) = ToSet(work) \union ToSet(build)
  BY <1>7, <1>8, <1>9, ListsAreJoined
<1> QED  BY <1>1, <1>2, <1>3, <1>5, <1>6, <1>7, <1>8, <1>10

LEMMA QuotationsAreFound == TailoringTyped => QuotationsAreInTheResume
<1> SUFFICES ASSUME TailoringTyped PROVE QuotationsAreInTheResume
  OBVIOUS
<1>1. IsSeq(Resume.experience) /\ IsSeq(Resume.projects)
  BY LetterIsQuoted
<1>2. /\ Quotes(Evidence("experience", Resume.experience), "experience", Resume.experience)
      /\ Quotes(Quoted("experience", Resume.experience), "experience", Resume.experience)
      /\ Quotes(Evidence("project", Resume.projects), "project", Resume.projects)
      /\ Quotes(Quoted("project", Resume.projects), "project", Resume.projects)
  BY <1>1, EvidenceQuotes
<1>3. ASSUME NEW e \in ToSet(Skills)
      PROVE  /\ e.kind = "skill" /\ e.index \in DOMAIN MatchedSkills
             /\ e.text = MatchedSkills[e.index]
  BY SkillsAreQuoted
<1>4. ASSUME NEW e \in ToSet(Evidence("experience", Resume.experience))
                          \union ToSet(Quoted("experience", Resume.experience))
      PROVE  /\ e.kind = "experience" /\ e.index \in DOMAIN Resume.experience
             /\ e.text = Resume.experience[e.index].text
  BY <1>2 DEF Quotes
<1>5. ASSUME NEW e \in ToSet(Evidence("project", Resume.projects))
                          \union ToSet(Quoted("project", Resume.projects))
      PROVE  /\ e.kind = "project" /\ e.index \in DOMAIN Resume.projects
             /\ e.text = Resume.projects[e.index].text
  BY <1>2 DEF Quotes
<1>6. \A e \in ToSet(PlanEvidence) \union ToSet(LetterEvidence) :
        \/ e \in ToSet(Skills)
        \/ e \in ToSet(Evidence("experience", Resume.experience))
                 \union ToSet(Quoted("experience", Resume.experience))
        \/ e \in ToSet(Evidence("project", Resume.projects))
                 \union ToSet(Quoted("project", Resume.projects))
  BY LetterIsQuoted
<1>7. ToSet(MatchedSkills) \subseteq ToSet(Resume.skills)
  BY SkillsAreReordered
<1> QED  BY <1>3, <1>4, <1>5, <1>6, <1>7 DEF QuotationsAreInTheResume

LEMMA ClaimsAreEvidenced == TailoringTyped => LetterClaimsAreEvidenced
<1> SUFFICES ASSUME TailoringTyped PROVE LetterClaimsAreEvidenced
  OBVIOUS
<1> DEFINE kinds == {e.kind : e \in ToSet(LetterEvidence)}
           worked == Quoted("experience", Resume.experience)
           built == Quoted("project", Resume.projects)
<1>1. ToSet(LetterEvidence) = (ToSet(Skills) \union ToSet(worked)) \union ToSet(built)
  BY LetterIsQuoted
<1>2. \A e \in ToSet(Skills) : e.kind = "skill"
  BY SkillsAreQuoted
<1>3. /\ \A e \in ToSet(worked) : e.kind = "experience"
      /\ ToSet(worked) = {} <=> Resume.experience = <<>>
  BY LetterIsQuoted, EvidenceQuotes DEF Quotes
<1>4. /\ \A e \in ToSet(built) : e.kind = "project"
      /\ ToSet(built) = {} <=> Resume.projects = <<>>
  BY LetterIsQuoted, EvidenceQuotes DEF Quotes
<1>5. ToSet(Skills) = {} <=> LetterSkills = <<>>
  BY SkillsAreQuoted
<1> HIDE DEF worked, built
<1>6. /\ "skill" \in kinds <=> LetterSkills # <<>>
      /\ "experience" \in kinds <=> Resume.experience # <<>>
      /\ "project" \in kinds <=> Resume.projects # <<>>
  BY <1>1, <1>2, <1>3, <1>4, <1>5
<1>7. /\ "skills" \in ToSet(Paragraph) <=> LetterSkills # <<>>
      /\ "experience" \in ToSet(Paragraph) <=> Resume.experience # <<>>
  <2> DEFINE one == IF LetterSkills # <<>> THEN <<"skills">> ELSE <<>>
             two == IF Resume.experience # <<>> THEN <<"experience">> ELSE <<>>
  <2>1. IsSeq(one) /\ ToSet(one) = IF LetterSkills # <<>> THEN {"skills"} ELSE {}
    BY SingleIsList
  <2>2. IsSeq(two) /\ ToSet(two) = IF Resume.experience # <<>> THEN {"experience"} ELSE {}
    BY SingleIsList
  <2>3. Paragraph = IF one \o two = <<>> THEN <<"invitation">> ELSE one \o two
    BY DEF Paragraph
  <2> HIDE DEF one, two
  <2>4. PICK both : both = one \o two
    OBVIOUS
  <2>5. ToSet(both) = ToSet(one) \union ToSet(two)
    BY <2>1, <2>2, <2>4, ListsAreJoined
  <2>6. CASE both = <<>>
    <3>1. ToSet(both) = {}
      BY <2>6, SingleIsList
    <3>2. LetterSkills = <<>> /\ Resume.experience = <<>>
      BY <2>1, <2>2, <2>5, <3>1
    <3>3. ToSet(Paragraph) = {"invitation"}
      BY <2>3, <2>4, <2>6, SingleIsList
    <3> QED  BY <3>2, <3>3
  <2>7. CASE both # <<>>
    <3>1. ToSet(Paragraph) = ToSet(one) \union ToSet(two)
      BY <2>3, <2>4, <2>5, <2>7
    <3> QED  BY <2>1, <2>2, <3>1
  <2> QED  BY <2>6, <2>7
<1>8. Motivation = "project" <=> Resume.projects # <<>>
  BY DEF Motivation
<1> HIDE DEF kinds
<1> QED  BY <1>6, <1>7, <1>8 DEF LetterClaimsAreEvidenced, kinds

\* The first of those that are not among the skills.
LEMMA FirstIsLeading ==
  ASSUME NEW list, IsSeq(list), NEW n, DOMAIN list = 1..n, NEW skills,
         ToSet(NotAmong(list, skills)) # {}
  PROVE  \E i \in 1..n :
           /\ list[i] \notin skills /\ ToSet(Leading(NotAmong(list, skills), 1)) = {list[i]}
           /\ \A j \in 1..n : list[j] \notin skills => i <= j
<1> DEFINE S == {i \in DOMAIN list : list[i] \notin skills}
<1>1. list \in Seq(ToSet(list)) /\ DOMAIN list = 1..Len(list)
  BY SequencesAreLists
<1>2. S \in SUBSET DOMAIN list
  OBVIOUS
<1>3. S \in SUBSET Int /\ IsFiniteSet(S)
  BY <1>1, <1>2, IndicesOf
<1>4. PICK rest : rest = NotAmong(list, skills) /\ IsSeq(rest)
  BY MembersAreAmong
<1>5. rest = Picked(list, S)
  BY <1>4 DEF NotAmong
<1> HIDE DEF S
<1>6. PICK m, order : Lists(order, S, m) /\ Picked(list, S) = [k \in 1..m |-> list[order[k]]]
  BY <1>3, PickedIsInOrder
<1>7. /\ m \in Nat /\ order \in [1..m -> S] /\ \A j, k \in 1..m : j < k => order[j] < order[k]
      /\ \A i \in S : \E k \in 1..m : order[k] = i
  BY <1>6 DEF Lists
<1>8. DOMAIN rest = 1..m /\ \A k \in 1..m : rest[k] = list[order[k]]
  BY <1>5, <1>6
<1>9. m # 0 /\ Len(rest) = m
  <2>1. DOMAIN rest = 1..Len(rest) /\ Len(rest) \in Nat /\ ToSet(rest) = Held(rest, 1..Len(rest))
    BY <1>4, SequencesAreLists
  <2>2. Len(rest) = m
    BY <1>7, <1>8, <2>1
  <2>3. Len(rest) = 0 => 1..Len(rest) = {}
    OBVIOUS
  <2>4. Len(rest) = 0 => ToSet(rest) = {}
    BY <2>1, <2>3 DEF Held
  <2> QED  BY <1>4, <2>2, <2>4
<1>10. 1 \in 1..m
  BY <1>7, <1>9
<1>11. order[1] \in S
  BY <1>7, <1>10
<1>12. order[1] \in 1..n /\ list[order[1]] \notin skills
  BY <1>11 DEF S
<1>13. \A j \in S : order[1] <= j
  <2>1. ASSUME NEW j \in S PROVE order[1] <= j
    <3>1. PICK k \in 1..m : order[k] = j
      BY <1>7
    <3>2. order[1] \in Int /\ j \in Int
      BY <1>3, <1>11
    <3>3. k = 1 \/ 1 < k
      BY <1>7
    <3> QED  BY <1>7, <1>10, <3>1, <3>2, <3>3
  <2> QED  BY <2>1
<1>14. ToSet(Leading(rest, 1)) = {rest[1]}
  <2>1. PICK p \in Nat :
          /\ p = IF Len(rest) < 1 THEN Len(rest) ELSE 1
          /\ DOMAIN Leading(rest, 1) = 1..p /\ \A k \in 1..p : Leading(rest, 1)[k] = rest[k]
    BY <1>4, LeadingIsList
  <2>2. p = 1
    BY <1>7, <1>9, <2>1
  <2> QED  BY <2>1, <2>2 DEF ToSet
<1> QED  BY <1>4, <1>8, <1>10, <1>12, <1>13, <1>14 DEF S

Distinct(s) == \A j, k \in DOMAIN s : j < k => s[j] # s[k]

LEMMA PickedIsDistinct ==
  ASSUME NEW s, IsSeq(s), Distinct(s), NEW S \in SUBSET DOMAIN s
  PROVE  Distinct(Picked(s, S))
<1>1. DOMAIN s = 1..Len(s) /\ s \in Seq(ToSet(s))
  BY SequencesAreLists
<1>2. S \in SUBSET Int /\ IsFiniteSet(S)
  BY <1>1, IndicesOf
<1>3. PICK n, order : Lists(order, S, n) /\ Picked(s, S) = [k \in 1..n |-> s[order[k]]]
  BY <1>2, PickedIsInOrder
<1>4. /\ order \in [1..n -> S] /\ \A j, k \in 1..n : j < k => order[j] < order[k]
  BY <1>3 DEF Lists
<1>5. ASSUME NEW j \in 1..n, NEW k \in 1..n, j < k PROVE s[order[j]] # s[order[k]]
  <2>1. order[j] \in DOMAIN s /\ order[k] \in DOMAIN s /\ order[j] < order[k]
    BY <1>4, <1>5
  <2> QED  BY <2>1 DEF Distinct
<1> QED  BY <1>3, <1>5 DEF Distinct

\* What is asked of the job is asked once, where the job first names it.
LEMMA RequiredIsOnce ==
  ASSUME NEW required, IsSeq(required), NEW skills
  PROVE  LET once == Picked(required, Firsts(required))
         IN /\ IsSeq(once) /\ ToSet(once) = ToSet(required) /\ Distinct(once)
            /\ ToSet(Leading(NotAmong(once, skills), 1)) = ToSet(Leading(NotAmong(required, skills), 1))
<1> DEFINE F == Firsts(required)
<1>1. PICK n \in Nat : n = Len(required) /\ DOMAIN required = 1..n
  BY SequencesAreLists
<1>2. /\ F \in SUBSET (1..n) /\ F \in SUBSET Int /\ IsFiniteSet(F)
      /\ \A i \in 1..n : \E j \in F : j <= i /\ required[j] = required[i]
      /\ \A i, j \in F : required[i] = required[j] => i = j
  BY <1>1, FirstsHoldValues
<1> HIDE DEF F
<1>3. PICK m, order : Lists(order, F, m) /\ Picked(required, F) = [k \in 1..m |-> required[order[k]]]
  BY <1>2, PickedIsInOrder
<1>4. /\ m \in Nat /\ order \in [1..m -> F] /\ \A j, k \in 1..m : j < k => order[j] < order[k]
      /\ \A i \in F : \E k \in 1..m : order[k] = i
  BY <1>3 DEF Lists
<1>5. PICK once : once = Picked(required, F)
  OBVIOUS
<1>6. DOMAIN once = 1..m /\ \A k \in 1..m : once[k] = required[order[k]]
  BY <1>3, <1>5
<1>7. IsSeq(once) /\ ToSet(once) = Held(required, F)
  BY <1>1, <1>2, <1>5, PickedIsList
<1>8. ToSet(once) = ToSet(required)
  <2>1. ToSet(required) = Held(required, 1..n)
    BY <1>1 DEF Held, ToSet
  <2>2. \A i \in 1..n : required[i] \in Held(required, F)
    BY <1>2 DEF Held
  <2>3. \A i \in F : required[i] \in Held(required, 1..n)
    BY <1>2 DEF Held
  <2> QED  BY <1>7, <2>1, <2>2, <2>3 DEF Held
<1>9. Distinct(once)
  <2>1. ASSUME NEW j \in 1..m, NEW k \in 1..m, j < k, once[j] = once[k] PROVE FALSE
    <3>1. order[j] \in F /\ order[k] \in F /\ order[j] < order[k] /\ order[j] \in Int
      BY <1>2, <1>4, <2>1
    <3>2. required[order[j]] = required[order[k]]
      BY <1>6, <2>1
    <3>3. order[j] = order[k]
      BY <1>2, <3>1, <3>2
    <3> QED  BY <3>1, <3>3
  <2> QED  BY <1>6, <2>1 DEF Distinct
<1>10. ToSet(Leading(NotAmong(once, skills), 1)) = ToSet(Leading(NotAmong(required, skills), 1))
  <2>1. PICK a : a = NotAmong(once, skills) /\ IsSeq(a) /\ ToSet(a) = ToSet(required) \ skills
    BY <1>7, <1>8, MembersAreAmong
  <2>2. PICK b : b = NotAmong(required, skills) /\ IsSeq(b) /\ ToSet(b) = ToSet(required) \ skills
    BY MembersAreAmong
  <2>3. CASE ToSet(required) \ skills = {}
    <3>1. ToSet(Leading(a, 1)) = {} /\ ToSet(Leading(b, 1)) = {}
      BY <2>1, <2>2, <2>3, LeadingIsList
    <3> QED  BY <2>1, <2>2, <3>1
  <2>4. CASE ToSet(required) \ skills # {}
    <3>1. PICK k0 \in 1..m :
            /\ once[k0] \notin skills /\ ToSet(Leading(a, 1)) = {once[k0]}
            /\ \A k \in 1..m : once[k] \notin skills => k0 <= k
      BY <1>6, <1>7, <2>1, <2>4, FirstIsLeading
    <3>2. PICK i0 \in 1..n :
            /\ required[i0] \notin skills /\ ToSet(Leading(b, 1)) = {required[i0]}
            /\ \A i \in 1..n : required[i] \notin skills => i0 <= i
      BY <1>1, <2>2, <2>4, FirstIsLeading
    <3>3. PICK j \in F : j <= i0 /\ required[j] = required[i0]
      BY <1>2
    <3>4. j = i0
      BY <1>2, <3>2, <3>3
    <3>5. PICK k1 \in 1..m : order[k1] = i0
      BY <1>4, <3>4
    <3>6. k0 <= k1
      BY <1>6, <3>1, <3>2, <3>5
    <3>7. order[k0] \in 1..n /\ order[k0] <= i0
      <4>1. order[k0] \in F /\ order[k0] \in 1..n
        BY <1>2, <1>4
      <4>2. k0 = k1 \/ k0 < k1
        BY <1>4, <3>6
      <4>3. order[k0] = order[k1] \/ order[k0] < order[k1]
        BY <1>4, <4>2
      <4> QED  BY <3>5, <4>1, <4>3
    <3>8. order[k0] = i0
      BY <1>6, <3>1, <3>2, <3>7
    <3>9. once[k0] = required[i0]
      BY <1>6, <3>8
    <3> QED  BY <2>1, <2>2, <3>1, <3>2, <3>9
  <2> QED  BY <2>3, <2>4
<1> QED  BY <1>5, <1>7, <1>8, <1>9, <1>10 DEF F

AsksOnce(s) == \A i, j \in DOMAIN s : s[i].skills # {} /\ s[i].skills = s[j].skills => i = j

LEMMA AskedOnceJoined ==
  ASSUME NEW s, IsSeq(s), AsksOnce(s), NEW t, IsSeq(t), AsksOnce(t),
         \A p \in ToSet(s), q \in ToSet(t) : p.skills = {} \/ p.skills # q.skills
  PROVE  IsSeq(s \o t) /\ AsksOnce(s \o t) /\ ToSet(s \o t) = ToSet(s) \union ToSet(t)
<1>1. PICK u : u = s \o t
  OBVIOUS
<1>2. PICK m \in Nat : m = Len(s) /\ DOMAIN s = 1..m /\ \A i \in 1..m : s[i] \in ToSet(s)
  BY SequencesAreLists
<1>3. PICK n \in Nat : n = Len(t) /\ DOMAIN t = 1..n /\ \A i \in 1..n : t[i] \in ToSet(t)
  BY SequencesAreLists
<1>4. /\ IsSeq(u) /\ ToSet(u) = ToSet(s) \union ToSet(t) /\ DOMAIN u = 1..(m + n)
      /\ \A i \in 1..(m + n) : u[i] = IF i <= m THEN s[i] ELSE t[i - m]
  BY <1>1, <1>2, <1>3, ListsAreJoined
<1>5. ASSUME NEW i \in 1..(m + n), NEW j \in 1..(m + n), u[i].skills # {}, u[i].skills = u[j].skills
      PROVE  i = j
  <2>1. CASE i <= m /\ j <= m
    <3>1. i \in 1..m /\ j \in 1..m /\ u[i] = s[i] /\ u[j] = s[j]
      BY <1>4, <2>1
    <3> QED  BY <1>2, <1>5, <3>1 DEF AsksOnce
  <2>2. CASE ~(i <= m) /\ ~(j <= m)
    <3>1. i - m \in 1..n /\ j - m \in 1..n /\ u[i] = t[i - m] /\ u[j] = t[j - m]
      BY <1>4, <2>2
    <3>2. i - m = j - m
      BY <1>3, <1>5, <3>1 DEF AsksOnce
    <3> QED  BY <3>2
  <2>3. CASE i <= m /\ ~(j <= m)
    <3>1. i \in 1..m /\ j - m \in 1..n /\ u[i] = s[i] /\ u[j] = t[j - m]
      BY <1>4, <2>3
    <3>2. s[i] \in ToSet(s) /\ t[j - m] \in ToSet(t)
      BY <1>2, <1>3, <3>1
    <3> QED  BY <1>5, <3>1, <3>2
  <2>4. CASE ~(i <= m) /\ j <= m
    <3>1. i - m \in 1..n /\ j \in 1..m /\ u[i] = t[i - m] /\ u[j] = s[j]
      BY <1>4, <2>4
    <3>2. t[i - m] \in ToSet(t) /\ s[j] \in ToSet(s)
      BY <1>2, <1>3, <3>1
    <3> QED  BY <1>5, <3>1, <3>2
  <2> QED  BY <2>1, <2>2, <2>3, <2>4
<1>6. AsksOnce(u)
  BY <1>4, <1>5 DEF AsksOnce
<1> QED  BY <1>1, <1>4, <1>6

LEMMA ExperiencesAreListed ==
  ASSUME TailoringTyped
  PROVE  IsSeq(Experiences)
<1>1. PICK x : x = Resume.experience /\ IsSeq(x)
  BY DEF TailoringTyped
<1>2. PICK y : y = Resume.projects /\ IsSeq(y)
  BY DEF TailoringTyped
<1>3. PICK z : z = Resume.achievements /\ IsSeq(z)
  BY DEF TailoringTyped
<1>4. PICK xy : xy = x \o y /\ IsSeq(xy)
  BY <1>1, <1>2, ListsAreJoined
<1>5. IsSeq(xy \o z)
  BY <1>3, <1>4, ListsAreJoined
<1> QED  BY <1>1, <1>2, <1>3, <1>4, <1>5 DEF Experiences

Mentioning(skill) == Picked(Experiences, {i \in DOMAIN Experiences : skill \in Experiences[i].terms})

\* The prompts quote items of the resume, those that mention the skill.
LEMMA PromptsQuote ==
  ASSUME NEW items, IsSeq(items), NEW text \in ToSet(Prompts(items))
  PROVE  \E item \in ToSet(items) : item.text = text
<1>1. PICK m \in Nat : DOMAIN Leading(items, 2) = 1..m /\ m <= Len(items)
  BY LeadingIsList
<1>2. PICK k \in 1..m : text = items[k].text
  BY <1>1 DEF Prompts, ToSet
<1>3. items[k] \in ToSet(items)
  <2>1. Len(items) \in Nat /\ \A i \in 1..Len(items) : items[i] \in ToSet(items)
    BY SequencesAreLists
  <2> QED  BY <1>1, <2>1
<1> QED  BY <1>2, <1>3

LEMMA MentionsAreListed ==
  ASSUME TailoringTyped, NEW skill
  PROVE  /\ IsSeq(Mentioning(skill))
         /\ \A item \in ToSet(Mentioning(skill)) : item \in ToSet(Experiences) /\ skill \in item.terms
<1> DEFINE S == {i \in DOMAIN Experiences : skill \in Experiences[i].terms}
<1>1. S \in SUBSET DOMAIN Experiences
  OBVIOUS
<1>2. Mentioning(skill) = Picked(Experiences, S)
  BY DEF Mentioning
<1> HIDE DEF S
<1>3. IsSeq(Mentioning(skill)) /\ ToSet(Mentioning(skill)) = Held(Experiences, S)
  BY <1>1, <1>2, ExperiencesAreListed, PickedIsList
<1> QED  BY <1>3 DEF Held, S, ToSet

Asking(category, number, skills, items) ==
  [id |-> <<category, number>>, skills |-> skills, prompts |-> Prompts(items)]

\* The questions on a list of skills.
AskingOf(category, skills, items) ==
  [k \in DOMAIN skills |-> Asking(category, k, {skills[k]}, items[k])]

LEMMA SkillsAreAskedOf ==
  ASSUME NEW skills, IsSeq(skills), Distinct(skills), NEW category, NEW items
  PROVE  LET s == AskingOf(category, skills, items)
         IN /\ IsSeq(s) /\ AsksOnce(s)
            /\ \A q \in ToSet(s) :
                 \E k \in DOMAIN skills : q = Asking(category, k, {skills[k]}, items[k])
            /\ \A x \in ToSet(skills) : \E q \in ToSet(s) : q.skills = {x}
<1> DEFINE s == AskingOf(category, skills, items)
<1>1. PICK n \in Nat : DOMAIN skills = 1..n /\ \A x \in ToSet(skills) : \E i \in 1..n : skills[i] = x
  BY SequencesAreLists
<1> DEFINE Ask(k) == Asking(category, k, {skills[k]}, items[k])
<1>2. s = [k \in 1..n |-> Ask(k)]
  BY <1>1 DEF AskingOf
<1> HIDE DEF s
<1>3. PICK T : T = {Ask(k) : k \in 1..n}
  OBVIOUS
<1>4. s \in [1..n -> T]
  BY <1>2, <1>3
<1>5. IsSeq(s) /\ DOMAIN s = 1..n
  BY <1>4, FunctionsAreLists
<1>6. \A k \in 1..n : s[k] = Ask(k) /\ s[k].skills = {skills[k]}
  BY <1>2 DEF Asking
<1>7. ToSet(s) = {Ask(k) : k \in 1..n}
  BY <1>2 DEF ToSet
<1>8. AsksOnce(s)
  <2>1. ASSUME NEW i \in 1..n, NEW j \in 1..n, {skills[i]} = {skills[j]} PROVE i = j
    <3>1. skills[i] = skills[j]
      BY <2>1
    <3>2. ~(i < j) /\ ~(j < i)
      BY <1>1, <3>1 DEF Distinct
    <3> QED  BY <3>2
  <2>2. ASSUME NEW i \in 1..n, NEW j \in 1..n, s[i].skills = s[j].skills PROVE i = j
    <3>1. {skills[i]} = {skills[j]}
      BY <1>6, <2>2
    <3> QED  BY <2>1, <3>1
  <2> QED  BY <1>5, <2>2 DEF AsksOnce
<1>9. ASSUME NEW x \in ToSet(skills) PROVE \E q \in ToSet(s) : q.skills = {x}
  <2>1. PICK i \in 1..n : skills[i] = x
    BY <1>1
  <2>2. s[i] \in ToSet(s)
    BY <1>5 DEF ToSet
  <2> QED  BY <1>6, <2>1, <2>2
<1> QED  BY <1>1, <1>5, <1>7, <1>8, <1>9 DEF s

LEMMA LeadingIsDistinct ==
  ASSUME NEW s, IsSeq(s), Distinct(s), NEW n \in Nat
  PROVE  IsSeq(Leading(s, n)) /\ Distinct(Leading(s, n)) /\ ToSet(Leading(s, n)) \subseteq ToSet(s)
<1>1. PICK m \in Nat :
        /\ IsSeq(Leading(s, n)) /\ DOMAIN Leading(s, n) = 1..m /\ m <= Len(s)
        /\ \A k \in 1..m : Leading(s, n)[k] = s[k]
        /\ ToSet(Leading(s, n)) \subseteq ToSet(s)
  BY LeadingIsList
<1>2. DOMAIN s = 1..Len(s) /\ Len(s) \in Nat
  BY SequencesAreLists
<1> QED  BY <1>1, <1>2 DEF Distinct

LEMMA InterviewsFollow == TailoringTyped => InterviewFollowsThePlan
<1> SUFFICES ASSUME TailoringTyped PROVE InterviewFollowsThePlan
  OBVIOUS
<1> DEFINE known == ToSet(Resume.skills)
           shared == Leading(Among(RequiredOnce, known), 2)
           lacked == Leading(NotAmong(RequiredOnce, known), 1)
           S == [k \in DOMAIN shared |->
                   Asking("role_skill", k, {shared[k]}, Mentioning(shared[k]))]
           L == [k \in DOMAIN lacked |-> Asking("skill_gap", k, {lacked[k]}, <<>>)]
           opening == <<Asking("career_story", 1, {}, Experiences)>>
           closing == <<Asking("motivation", 1, {}, <<>>), Asking("behavioral", 1, {}, Experiences)>>
<1>1. Questions = ((opening \o S) \o L) \o closing
  BY DEF Questions, Asking, Mentioning
<1>2. PICK required : required = Job.required /\ IsSeq(required)
  BY DEF TailoringTyped
<1>3. /\ IsSeq(RequiredOnce) /\ ToSet(RequiredOnce) = ToSet(required) /\ Distinct(RequiredOnce)
      /\ ToSet(lacked) = ToSet(Leading(NotAmong(required, known), 1))
  <2> HIDE DEF known
  <2> QED  BY <1>2, RequiredIsOnce DEF RequiredOnce
<1>4. /\ IsSeq(shared) /\ Distinct(shared) /\ ToSet(shared) \subseteq ToSet(required) \intersect known
      /\ IsSeq(lacked) /\ Distinct(lacked) /\ ToSet(lacked) \subseteq ToSet(required) \ known
  <2> HIDE DEF known
  <2>1. PICK a : a = Among(RequiredOnce, known) /\ IsSeq(a) /\ ToSet(a) = ToSet(required) \intersect known
    BY <1>3, MembersAreAmong
  <2>2. PICK b : b = NotAmong(RequiredOnce, known) /\ IsSeq(b) /\ ToSet(b) = ToSet(required) \ known
    BY <1>3, MembersAreAmong
  <2>3. Distinct(a) /\ Distinct(b)
    BY <1>3, <2>1, <2>2, PickedIsDistinct DEF Among, NotAmong
  <2>4. IsSeq(Leading(a, 2)) /\ Distinct(Leading(a, 2)) /\ ToSet(Leading(a, 2)) \subseteq ToSet(a)
    BY <2>1, <2>3, LeadingIsDistinct
  <2>5. IsSeq(Leading(b, 1)) /\ Distinct(Leading(b, 1)) /\ ToSet(Leading(b, 1)) \subseteq ToSet(b)
    BY <2>2, <2>3, LeadingIsDistinct
  <2> QED  BY <2>1, <2>2, <2>4, <2>5
<1>5. ToSet(lacked) = ToSet(Leading(MissingSkills, 1))
  BY <1>2, <1>3 DEF MissingSkills
<1> HIDE DEF shared, lacked
<1> DEFINE mentions == [k \in DOMAIN shared |-> Mentioning(shared[k])]
           nothing == [k \in DOMAIN lacked |-> <<>>]
<1>6. /\ IsSeq(S) /\ AsksOnce(S)
      /\ \A q \in ToSet(S) : \E k \in DOMAIN shared :
           q = Asking("role_skill", k, {shared[k]}, mentions[k])
  <2>1. S = AskingOf("role_skill", shared, mentions)
    BY DEF AskingOf
  <2> HIDE DEF S, mentions
  <2> QED  BY <1>4, <2>1, SkillsAreAskedOf
<1>7. /\ IsSeq(L) /\ AsksOnce(L)
      /\ \A q \in ToSet(L) : \E k \in DOMAIN lacked :
           q = Asking("skill_gap", k, {lacked[k]}, nothing[k])
      /\ \A x \in ToSet(lacked) : \E q \in ToSet(L) : q.skills = {x}
  <2>1. L = AskingOf("skill_gap", lacked, nothing)
    BY DEF AskingOf
  <2> HIDE DEF L, nothing, S, opening, closing, mentions, known
  <2>2. PICK s, list, other :
          list = lacked /\ other = nothing /\ s = AskingOf("skill_gap", list, other)
    OBVIOUS
  <2>3. IsSeq(list) /\ Distinct(list)
    BY <1>4, <2>2
  <2>4. s = AskingOf("skill_gap", list, other)
    BY <2>2
  <2>5. IsSeq(s) /\ AsksOnce(s)
    BY <2>3, <2>4, SkillsAreAskedOf
  <2>6. \A q \in ToSet(s) : \E k \in DOMAIN list :
          q = Asking("skill_gap", k, {list[k]}, other[k])
    BY <2>3, <2>4, SkillsAreAskedOf
  <2>7. \A x \in ToSet(list) : \E q \in ToSet(s) : q.skills = {x}
    BY <2>3, <2>4, SkillsAreAskedOf
  <2>8. s = L /\ list = lacked /\ other = nothing
    BY <2>1, <2>2
  <2> QED  BY <2>5, <2>6, <2>7, <2>8
<1>8. \A q \in ToSet(S) : \E x \in ToSet(shared) :
        /\ q.id[1] = "role_skill" /\ q.skills = {x} /\ q.prompts = Prompts(Mentioning(x))
  <2> HIDE DEF S
  <2>1. ASSUME NEW q \in ToSet(S)
        PROVE  \E x \in ToSet(shared) :
                 /\ q.id[1] = "role_skill" /\ q.skills = {x} /\ q.prompts = Prompts(Mentioning(x))
    <3>1. PICK k \in DOMAIN shared : q = Asking("role_skill", k, {shared[k]}, mentions[k])
      BY <1>6
    <3>2. shared[k] \in ToSet(shared)
      BY DEF ToSet
    <3> QED  BY <3>1, <3>2 DEF Asking
  <2> QED  BY <2>1
<1>9. \A q \in ToSet(L) : \E x \in ToSet(lacked) :
        /\ q.id[1] = "skill_gap" /\ q.skills = {x} /\ q.prompts = Prompts(<<>>)
  <2> HIDE DEF L
  <2>1. ASSUME NEW q \in ToSet(L)
        PROVE  \E x \in ToSet(lacked) :
                 /\ q.id[1] = "skill_gap" /\ q.skills = {x} /\ q.prompts = Prompts(<<>>)
    <3>1. PICK k \in DOMAIN lacked : q = Asking("skill_gap", k, {lacked[k]}, nothing[k])
      BY <1>7
    <3>2. lacked[k] \in ToSet(lacked)
      BY DEF ToSet
    <3> QED  BY <3>1, <3>2 DEF Asking
  <2> QED  BY <2>1
<1>10. /\ IsSeq(opening) /\ IsSeq(closing) /\ AsksOnce(opening) /\ AsksOnce(closing)
       /\ \A q \in ToSet(opening) \union ToSet(closing) :
            /\ q.id[1] \notin {"role_skill", "skill_gap"} /\ q.skills = {}
            /\ q.prompts = Prompts(<<>>) \/ q.prompts = Prompts(Experiences)
  <2> DEFINE first == Asking("career_story", 1, {}, Experiences)
             second == Asking("motivation", 1, {}, <<>>)
             third == Asking("behavioral", 1, {}, Experiences)
             Plain(q) == /\ q.id[1] \notin {"role_skill", "skill_gap"} /\ q.skills = {}
                         /\ q.prompts = Prompts(<<>>) \/ q.prompts = Prompts(Experiences)
  <2>1. Plain(first) /\ Plain(second) /\ Plain(third)
    BY DEF Asking
  <2> HIDE DEF first, second, third
  <2>2. opening \in Seq({first}) /\ ToSet(opening) = {first} /\ DOMAIN opening = 1..1
        /\ opening[1] = first
    BY DEF ToSet, first
  <2>3. closing \in Seq({second, third}) /\ ToSet(closing) \subseteq {second, third}
        /\ DOMAIN closing = 1..2 /\ closing[1] = second /\ closing[2] = third
    BY DEF ToSet, second, third
  <2> HIDE DEF opening, closing
  <2>4. IsSeq(opening) /\ IsSeq(closing)
    BY <2>2, <2>3, ListsAreSequences
  <2>5. AsksOnce(opening)
    BY <2>1, <2>2 DEF AsksOnce
  <2>6. AsksOnce(closing)
    BY <2>1, <2>3 DEF AsksOnce
  <2>7. \A q \in ToSet(opening) \union ToSet(closing) : Plain(q)
    BY <2>1, <2>2, <2>3
  <2> HIDE DEF Plain
  <2> QED  BY <2>4, <2>5, <2>6, <2>7 DEF Plain
<1> HIDE DEF S, L, opening, closing, mentions, nothing
<1>11. IsSeq(opening \o S) /\ AsksOnce(opening \o S) /\ ToSet(opening \o S) = ToSet(opening) \union ToSet(S)
  BY <1>6, <1>10, AskedOnceJoined
<1>12. PICK one : one = opening \o S
  OBVIOUS
<1>13. IsSeq(one) /\ AsksOnce(one) /\ ToSet(one) = ToSet(opening) \union ToSet(S)
  BY <1>11, <1>12
<1>14. PICK two : two = one \o L
  OBVIOUS
<1>15. /\ IsSeq(two) /\ AsksOnce(two)
       /\ ToSet(two) = (ToSet(opening) \union ToSet(S)) \union ToSet(L)
  <2>1. \A p \in ToSet(one), q \in ToSet(L) : p.skills = {} \/ p.skills # q.skills
    BY <1>4, <1>8, <1>9, <1>10, <1>13
  <2>2. IsSeq(L) /\ AsksOnce(L)
    BY <1>7
  <2>3. IsSeq(one \o L) /\ AsksOnce(one \o L) /\ ToSet(one \o L) = ToSet(one) \union ToSet(L)
    BY <1>13, <2>1, <2>2, AskedOnceJoined
  <2> QED  BY <1>13, <1>14, <2>3
<1>16. /\ AsksOnce(Questions)
       /\ ToSet(Questions) = ((ToSet(opening) \union ToSet(S)) \union ToSet(L)) \union ToSet(closing)
  <2>1. \A p \in ToSet(two), q \in ToSet(closing) : p.skills = {} \/ p.skills # q.skills
    BY <1>8, <1>9, <1>10, <1>15
  <2>2. Questions = two \o closing
    BY <1>1, <1>12, <1>14
  <2> QED  BY <1>10, <1>15, <2>1, <2>2, AskedOnceJoined
<1> DEFINE asked == ToSet(Questions)
           Of(category) == UNION {q.skills : q \in {r \in asked : r.id[1] = category}}
<1>17. Of("role_skill") \subseteq ToSet(MatchedSkills)
  <2>1. \A q \in asked : q.id[1] = "role_skill" => q.skills \subseteq ToSet(shared)
    BY <1>8, <1>9, <1>10, <1>16
  <2>2. ToSet(shared) \subseteq ToSet(MatchedSkills)
    BY <1>2, <1>4, SkillsAreReordered
  <2> HIDE DEF asked
  <2> QED  BY <2>1, <2>2
<1>18. Of("skill_gap") = ToSet(lacked)
  <2>1. \A q \in asked : q.id[1] = "skill_gap" => q.skills \subseteq ToSet(lacked)
    BY <1>8, <1>9, <1>10, <1>16
  <2>2. \A x \in ToSet(lacked) : \E q \in asked : q.id[1] = "skill_gap" /\ q.skills = {x}
    BY <1>7, <1>9, <1>16
  <2> HIDE DEF asked
  <2> QED  BY <2>1, <2>2
<1>19. ASSUME NEW q \in asked, NEW text \in ToSet(q.prompts)
       PROVE  \E item \in ToSet(Experiences) : item.text = text /\ q.skills \subseteq item.terms
  <2>1. CASE q \in ToSet(S)
    <3>1. PICK x \in ToSet(shared) : q.skills = {x} /\ q.prompts = Prompts(Mentioning(x))
      BY <1>8, <2>1
    <3>2. PICK item \in ToSet(Mentioning(x)) : item.text = text
      BY <1>19, <3>1, MentionsAreListed, PromptsQuote
    <3>3. item \in ToSet(Experiences) /\ x \in item.terms
      BY <3>2, MentionsAreListed
    <3> QED  BY <3>1, <3>2, <3>3
  <2>2. CASE q.prompts = Prompts(<<>>)
    <3>1. PICK item \in ToSet(<<>>) : item.text = text
      BY <1>19, <2>2, SingleIsList, PromptsQuote
    <3> QED  BY <3>1, SingleIsList
  <2>3. CASE q.skills = {} /\ q.prompts = Prompts(Experiences)
    <3>1. PICK item \in ToSet(Experiences) : item.text = text
      BY <1>19, <2>3, ExperiencesAreListed, PromptsQuote
    <3> QED  BY <2>3, <3>1
  <2> QED  BY <1>9, <1>10, <1>16, <2>1, <2>2, <2>3
<1> DEFINE AboutSkill == {i \in DOMAIN Questions : Questions[i].skills # {}}
<1>20. \A i, j \in AboutSkill : Questions[i].skills = Questions[j].skills => i = j
  BY <1>16 DEF AsksOnce
<1> HIDE DEF AboutSkill
<1>21. Of("skill_gap") = ToSet(Leading(MissingSkills, 1))
  BY <1>5, <1>18
<1> HIDE DEF Of
<1> QED  BY <1>17, <1>19, <1>20, <1>21 DEF InterviewFollowsThePlan, Of, AboutSkill

\* Of every resume and job: the plan is the resume reordered, each quotation
\* stands where its index points, of a skill among the skills that the plan
\* matched and of an item in its list of the resume, the letter claims what its evidence shows, and
\* the interview asks of what the plan found.
THEOREM DocumentsSayWhatResumesSay == TailoringInit => DocumentsAreFactual
BY ResumesAreTyped, PlansAreReordered, QuotationsAreFound, ClaimsAreEvidenced, InterviewsFollow
   DEF DocumentsAreFactual

-------------------------------------------------------------------------------
(* The text of a resume. Each loop has read the lines up to one of them; what  *)
(* it has found is what stands under its headings there.                       *)

UnderSkills(n) == Under(n, SkillOpenings, SkillHeadings)
UnderSection(section, n) == Under(n, OpeningsOf(section), ContentHeadings)

LEMMA UnderNext ==
  ASSUME NEW headings \in SUBSET Nat, NEW opening \in SUBSET headings, NEW n \in Nat \ {0}
  PROVE  /\ n \in headings => (Under(n, opening, headings) <=> n \in opening)
         /\ n \notin headings => (Under(n, opening, headings) <=> Under(n - 1, opening, headings))
<1>1. /\ \A j \in headings : j \in Nat
      /\ \A k \in opening : k \in headings
  OBVIOUS
<1>2. ASSUME n \in headings PROVE Under(n, opening, headings) <=> n \in opening
  <2>1. ASSUME NEW k \in opening, k <= n, \A j \in headings : j <= k \/ n < j PROVE k = n
    BY <1>1, <1>2, <2>1
  <2>2. \A j \in headings : j <= n \/ n < j
    BY <1>1
  <2> QED  BY <2>1, <2>2 DEF Under
<1>3. ASSUME n \notin headings
      PROVE  Under(n, opening, headings) <=> Under(n - 1, opening, headings)
  <2>1. \A j \in headings : (n < j <=> n - 1 < j) /\ (j <= n <=> j <= n - 1)
    BY <1>1, <1>3
  <2> QED  BY <1>1, <2>1 DEF Under
<1> QED  BY <1>2, <1>3

LEMMA PlacedNext ==
  ASSUME NEW body \in SUBSET (Nat \ {0}), NEW opening \in SUBSET (Nat \ {0}), NEW headings
  PROVE  /\ ~Under(0, opening, headings) /\ Placed(body, opening, headings, 0) = {}
         /\ \A n \in Nat \ {0} :
              /\ Placed(body, opening, headings, n)
                   = IF n \in body /\ Under(n, opening, headings)
                       THEN Placed(body, opening, headings, n - 1) \union {n}
                       ELSE Placed(body, opening, headings, n - 1)
              /\ \A m \in Placed(body, opening, headings, n - 1) : m \in Nat /\ m < n
<1>1. \A k \in body \union opening : k \in Nat /\ ~(k <= 0)
  OBVIOUS
<1>2. ~Under(0, opening, headings) /\ Placed(body, opening, headings, 0) = {}
  BY <1>1 DEF Under, Placed
<1>3. ASSUME NEW n \in Nat \ {0}
      PROVE  \A m \in body : (m <= n <=> m <= n - 1 \/ m = n) /\ (m <= n - 1 => m < n)
  BY <1>1
<1>4. ASSUME NEW n \in Nat \ {0}
      PROVE  /\ Placed(body, opening, headings, n)
                  = IF n \in body /\ Under(n, opening, headings)
                      THEN Placed(body, opening, headings, n - 1) \union {n}
                      ELSE Placed(body, opening, headings, n - 1)
             /\ \A m \in Placed(body, opening, headings, n - 1) : m \in Nat /\ m < n
  <2> DEFINE U(m) == Under(m, opening, headings)
             here == Placed(body, opening, headings, n)
             before == Placed(body, opening, headings, n - 1)
  <2>1. n <= n /\ ~(n <= n - 1)
    OBVIOUS
  <2>2. \A m : m \in here <=> m \in body /\ m <= n /\ U(m)
    BY DEF Placed
  <2>3. \A m : m \in before <=> m \in body /\ m <= n - 1 /\ U(m)
    BY DEF Placed
  <2> HIDE DEF U, here, before
  <2>4. ASSUME NEW m PROVE m \in here <=> m \in before \/ (m = n /\ n \in body /\ U(n))
    <3>1. CASE m \in body
      <4>1. m <= n <=> m <= n - 1 \/ m = n
        BY <1>3, <3>1
      <4>2. CASE m = n
        BY <2>1, <2>2, <2>3, <4>2
      <4>3. CASE m # n
        BY <2>2, <2>3, <4>1, <4>3
      <4> QED  BY <4>2, <4>3
    <3>2. CASE m \notin body
      BY <2>2, <2>3, <3>2
    <3> QED  BY <3>1, <3>2
  <2>5. here = IF n \in body /\ U(n) THEN before \union {n} ELSE before
    BY <2>4
  <2>6. \A m \in before : m \in Nat /\ m < n
    BY <1>1, <1>3, <2>3
  <2> QED  BY <2>5, <2>6 DEF U, here, before
<1> QED  BY <1>2, <1>4

\* What the loop over the skills has met with one more line.
LEMMA SkillsNext ==
  ASSUME textLines \in Seq(LineKind), NEW n \in 1..Len(textLines)
  PROVE  /\ textLines[n].skills \in {"heading", "inline"} => UnderSkills(n)
         /\ textLines[n].skills = "end" => ~UnderSkills(n)
         /\ textLines[n].skills \in {"line", "blank"} => (UnderSkills(n) <=> UnderSkills(n - 1))
         /\ SkillsTo(n) = IF textLines[n].skills \in {"inline", "line"} /\ UnderSkills(n)
                            THEN SkillsTo(n - 1) \union {n} ELSE SkillsTo(n - 1)
         /\ n \in SkillLines <=> textLines[n].skills \in {"inline", "line"}
         /\ \A m \in SkillsTo(n - 1) : m \in Nat /\ m < n
<1>1. n \in DOMAIN textLines /\ n \in Nat \ {0} /\ DOMAIN textLines \in SUBSET (Nat \ {0})
  OBVIOUS
<1>2. /\ SkillHeadings \in SUBSET Nat /\ SkillOpenings \in SUBSET SkillHeadings
      /\ SkillLines \in SUBSET (Nat \ {0}) /\ SkillOpenings \in SUBSET (Nat \ {0})
  BY <1>1 DEF SkillHeadings, SkillOpenings, SkillLines
<1>3. /\ n \in SkillHeadings <=> textLines[n].skills \in {"heading", "inline", "end"}
      /\ n \in SkillOpenings <=> textLines[n].skills \in {"heading", "inline"}
      /\ n \in SkillLines <=> textLines[n].skills \in {"inline", "line"}
  BY <1>1 DEF SkillHeadings, SkillOpenings, SkillLines
<1>4. /\ n \in SkillHeadings => (UnderSkills(n) <=> n \in SkillOpenings)
      /\ n \notin SkillHeadings => (UnderSkills(n) <=> UnderSkills(n - 1))
  BY <1>1, <1>2, UnderNext DEF UnderSkills
<1>5. /\ SkillsTo(n) = IF n \in SkillLines /\ UnderSkills(n)
                         THEN SkillsTo(n - 1) \union {n} ELSE SkillsTo(n - 1)
      /\ \A m \in SkillsTo(n - 1) : m \in Nat /\ m < n
  BY <1>1, <1>2, PlacedNext DEF UnderSkills, SkillsTo
<1> QED  BY <1>3, <1>4, <1>5

IsHeading(line) == line.content \in DOMAIN ContentSections \union {"other"}

\* What the loop over the sections has met with one more line.
LEMMA ContentNext ==
  ASSUME textLines \in Seq(LineKind), NEW n \in 1..Len(textLines), NEW section
  PROVE  /\ IsHeading(textLines[n]) =>
              (UnderSection(section, n) <=> textLines[n].content \in HeadingsOf(section))
         /\ ~IsHeading(textLines[n]) => (UnderSection(section, n) <=> UnderSection(section, n - 1))
         /\ ContentTo(section, n)
              = IF textLines[n].content \in Kept(section) /\ UnderSection(section, n)
                  THEN ContentTo(section, n - 1) \union {n} ELSE ContentTo(section, n - 1)
         /\ \A m \in ContentTo(section, n - 1) : m \in Nat /\ m < n
<1>1. n \in DOMAIN textLines /\ n \in Nat \ {0} /\ DOMAIN textLines \in SUBSET (Nat \ {0})
  OBVIOUS
<1>2. /\ ContentHeadings \in SUBSET Nat /\ OpeningsOf(section) \in SUBSET ContentHeadings
      /\ LinesFor(section) \in SUBSET (Nat \ {0}) /\ OpeningsOf(section) \in SUBSET (Nat \ {0})
  BY <1>1 DEF ContentHeadings, OpeningsOf, LinesFor, HeadingsOf
<1>3. /\ n \in ContentHeadings <=> IsHeading(textLines[n])
      /\ n \in OpeningsOf(section) <=> textLines[n].content \in HeadingsOf(section)
      /\ n \in LinesFor(section) <=> textLines[n].content \in Kept(section)
  BY <1>1 DEF ContentHeadings, OpeningsOf, LinesFor, IsHeading
<1>4. /\ n \in ContentHeadings => (UnderSection(section, n) <=> n \in OpeningsOf(section))
      /\ n \notin ContentHeadings => (UnderSection(section, n) <=> UnderSection(section, n - 1))
  BY <1>1, <1>2, UnderNext DEF UnderSection
<1>5. /\ ContentTo(section, n) = IF n \in LinesFor(section) /\ UnderSection(section, n)
                                   THEN ContentTo(section, n - 1) \union {n}
                                   ELSE ContentTo(section, n - 1)
      /\ \A m \in ContentTo(section, n - 1) : m \in Nat /\ m < n
  BY <1>1, <1>2, PlacedNext DEF UnderSection, ContentTo
<1> QED  BY <1>3, <1>4, <1>5

LEMMA NothingIsPlaced ==
  ASSUME textLines \in Seq(LineKind)
  PROVE  /\ ~UnderSkills(0) /\ SkillsTo(0) = {}
         /\ \A section : ~UnderSection(section, 0) /\ ContentTo(section, 0) = {}
<1>1. DOMAIN textLines \in SUBSET (Nat \ {0})
  OBVIOUS
<1>2. SkillLines \in SUBSET (Nat \ {0}) /\ SkillOpenings \in SUBSET (Nat \ {0})
  BY <1>1 DEF SkillOpenings, SkillLines
<1>3. ASSUME NEW section PROVE ~UnderSection(section, 0) /\ ContentTo(section, 0) = {}
  <2>1. LinesFor(section) \in SUBSET (Nat \ {0}) /\ OpeningsOf(section) \in SUBSET (Nat \ {0})
    BY <1>1 DEF OpeningsOf, LinesFor
  <2> QED  BY <2>1, PlacedNext DEF UnderSection, ContentTo
<1> QED  BY <1>2, <1>3, PlacedNext DEF UnderSkills, SkillsTo

LEMMA LinesAreKnown ==
  ASSUME textLines \in Seq(LineKind), NEW n \in 1..Len(textLines)
  PROVE  textLines[n] \in Line
BY ResumeTextBound

Entries == Seq(Seq(Nat))

LEMMA LinesAreEntries ==
  ASSUME NEW entries \in Entries
  PROVE  /\ \A n : n \in LinesOf(entries) <=>
                     \E e \in DOMAIN entries : \E k \in DOMAIN entries[e] : entries[e][k] = n
         /\ LinesOf(entries) \subseteq Nat
<1>1. \A e \in DOMAIN entries : entries[e] \in Seq(Nat)
  BY DEF Entries
<1>2. \A e \in DOMAIN entries : \A k \in DOMAIN entries[e] : entries[e][k] \in Nat
  BY <1>1
<1> QED  BY <1>2 DEF LinesOf, ToSet

LEMMA EntriesAreJoined ==
  ASSUME NEW x \in Entries, NEW y \in Entries
  PROVE  /\ x \o y \in Entries
         /\ LinesOf(x \o y) = LinesOf(x) \union LinesOf(y)
         /\ InTextOrder(x) /\ InTextOrder(y) /\ (\A m \in LinesOf(x), n \in LinesOf(y) : m < n)
              => InTextOrder(x \o y)
         /\ \A e \in DOMAIN (x \o y) :
              \/ e \in DOMAIN x /\ (x \o y)[e] = x[e]
              \/ e - Len(x) \in DOMAIN y /\ (x \o y)[e] = y[e - Len(x)]
<1>1. PICK u : u = x \o y
  OBVIOUS
<1>2. PICK a \in Nat, b \in Nat : a = Len(x) /\ DOMAIN x = 1..a /\ b = Len(y) /\ DOMAIN y = 1..b
  BY DEF Entries
<1>3. /\ u \in Entries /\ DOMAIN u = 1..(a + b)
      /\ \A e \in 1..(a + b) : u[e] = IF e <= a THEN x[e] ELSE y[e - a]
  <2>1. PICK T : T = Seq(Nat)
    OBVIOUS
  <2>2. x \in Seq(T) /\ y \in Seq(T)
    BY <2>1 DEF Entries
  <2>3. /\ u \in Seq(T) /\ Len(u) = Len(x) + Len(y)
        /\ \A e \in 1..(Len(x) + Len(y)) : u[e] = IF e <= Len(x) THEN x[e] ELSE y[e - Len(x)]
    BY <1>1, <2>2, ConcatProperties
  <2>4. Len(u) = a + b /\ DOMAIN u = 1..(a + b)
    BY <1>2, <2>3
  <2>5. u \in Entries
    BY <2>1, <2>3 DEF Entries
  <2> QED  BY <1>2, <2>3, <2>4, <2>5
<1>4. \A e \in 1..a : e \in 1..(a + b) /\ u[e] = x[e]
  BY <1>3
<1>5. \A e \in 1..b : a + e \in 1..(a + b) /\ u[a + e] = y[e]
  <2>1. ASSUME NEW e \in 1..b PROVE a + e \in 1..(a + b) /\ u[a + e] = y[e]
    <3>1. a + e \in 1..(a + b) /\ ~(a + e <= a) /\ (a + e) - a = e
      OBVIOUS
    <3> QED  BY <1>3, <3>1
  <2> QED  BY <2>1
<1>6. ASSUME NEW e \in 1..(a + b)
      PROVE  \/ e \in 1..a /\ u[e] = x[e]
             \/ e > a /\ e - a \in 1..b /\ u[e] = y[e - a]
  BY <1>3
<1>7. LinesOf(u) = LinesOf(x) \union LinesOf(y)
  <2>1. ASSUME NEW n \in LinesOf(u) PROVE n \in LinesOf(x) \union LinesOf(y)
    <3>1. PICK e \in 1..(a + b) : \E k \in DOMAIN u[e] : u[e][k] = n
      BY <1>3, LinesAreEntries
    <3> QED  BY <1>2, <1>6, <3>1, LinesAreEntries
  <2>2. ASSUME NEW n \in LinesOf(x) PROVE n \in LinesOf(u)
    <3>1. PICK e \in 1..a : \E k \in DOMAIN x[e] : x[e][k] = n
      BY <1>2, LinesAreEntries
    <3> QED  BY <1>3, <1>4, <3>1, LinesAreEntries
  <2>3. ASSUME NEW n \in LinesOf(y) PROVE n \in LinesOf(u)
    <3>1. PICK e \in 1..b : \E k \in DOMAIN y[e] : y[e][k] = n
      BY <1>2, LinesAreEntries
    <3> QED  BY <1>3, <1>5, <3>1, LinesAreEntries
  <2> QED  BY <2>1, <2>2, <2>3
<1>8. ASSUME InTextOrder(x), InTextOrder(y), \A m \in LinesOf(x), n \in LinesOf(y) : m < n
      PROVE  InTextOrder(u)
  <2>1. SUFFICES ASSUME NEW e \in 1..(a + b), NEW f \in 1..(a + b),
                        NEW k \in DOMAIN u[e], NEW l \in DOMAIN u[f], e < f \/ (e = f /\ k < l)
                 PROVE  u[e][k] < u[f][l]
    BY <1>3 DEF InTextOrder
  <2>2. CASE e <= a /\ f <= a
    <3>1. e \in 1..a /\ f \in 1..a /\ u[e] = x[e] /\ u[f] = x[f]
      BY <1>3, <2>2
    <3> QED  BY <1>2, <1>8, <2>1, <3>1 DEF InTextOrder
  <2>3. CASE e > a /\ f > a
    <3>1. e - a \in 1..b /\ f - a \in 1..b /\ u[e] = y[e - a] /\ u[f] = y[f - a]
      BY <1>3, <2>3
    <3>2. e - a < f - a \/ (e - a = f - a /\ k < l)
      BY <2>1
    <3> QED  BY <1>2, <1>8, <3>1, <3>2 DEF InTextOrder
  <2>4. CASE e <= a /\ f > a
    <3>1. e \in 1..a /\ f - a \in 1..b /\ u[e] = x[e] /\ u[f] = y[f - a]
      BY <1>3, <2>4
    <3>2. u[e][k] \in LinesOf(x) /\ u[f][l] \in LinesOf(y)
      BY <1>2, <3>1, LinesAreEntries
    <3> QED  BY <1>8, <3>2
  <2> QED  BY <2>1, <2>2, <2>3, <2>4
<1>9. ASSUME NEW e \in DOMAIN u
      PROVE  \/ e \in DOMAIN x /\ u[e] = x[e]
             \/ e - Len(x) \in DOMAIN y /\ u[e] = y[e - Len(x)]
  BY <1>2, <1>3, <1>6
<1> QED  BY <1>1, <1>3, <1>7, <1>8, <1>9

Increasing(numbers) ==
  \A i, j \in DOMAIN numbers : i < j => numbers[i] < numbers[j]

BulletsOpen(entries) ==
  \A e \in DOMAIN entries : \A k \in 2..Len(entries[e]) : textLines[entries[e][k]].content # "bullet"

\* The lines of a section, in entries that their bullets open.
LEMMA LinesAreGrouped ==
  ASSUME NEW numbers \in Seq(Nat), Increasing(numbers), NEW section
  PROVE  /\ Grouped(section, numbers) \in Entries
         /\ LinesOf(Grouped(section, numbers)) = ToSet(numbers)
         /\ InTextOrder(Grouped(section, numbers)) /\ BulletsOpen(Grouped(section, numbers))
<1> DEFINE opening == {k \in DOMAIN numbers :
                         k = 1 \/ section = "education" \/ textLines[numbers[k]].content = "bullet"}
<1>1. PICK m \in Nat : m = Len(numbers) /\ DOMAIN numbers = 1..m /\ \A k \in 1..m : numbers[k] \in Nat
  OBVIOUS
<1>2. opening \in SUBSET DOMAIN numbers
  OBVIOUS
<1>3. opening \in SUBSET Int /\ IsFiniteSet(opening)
  BY <1>2, IndicesOf
<1>4. PICK starts : starts = Arranged(opening, Upwards(opening))
  OBVIOUS
<1>5. /\ 1 \in 1..m => 1 \in opening
      /\ \A k \in 1..m : k \notin opening => textLines[numbers[k]].content # "bullet"
      /\ opening \in SUBSET (1..m)
  BY <1>1
<1> DEFINE last(e) == IF e = Len(starts) THEN Len(numbers) ELSE starts[e + 1] - 1
           g == Grouped(section, numbers)
<1>6. g = [e \in DOMAIN starts |-> SubSeq(numbers, starts[e], last(e))]
  BY <1>4 DEF Grouped
<1> HIDE DEF opening, g
<1>7. PICK n \in Nat :
        /\ starts \in [1..n -> opening]
        /\ \A k, l \in 1..n : k < l => starts[k] < starts[l]
        /\ \A i \in opening : \E k \in 1..n : starts[k] = i
  <2>1. IsStrictOrder(opening, Upwards(opening))
    BY <1>3, NumbersAreOrdered
  <2>2. PICK n \in Nat : n = Cardinality(opening)
    BY <1>3, FS_CardinalityType
  <2>3. /\ starts \in [1..n -> opening]
        /\ \A k, l \in 1..n : k < l => <<starts[k], starts[l]>> \in Upwards(opening)
        /\ \A i \in opening : \E k \in 1..n : starts[k] = i
    BY <1>3, <1>4, <2>1, <2>2, ArrangedIsSorted
  <2>4. \A i, j : <<i, j>> \in Upwards(opening) => i < j
    BY DEF Upwards
  <2> QED  BY <2>3, <2>4
<1>8. Len(starts) = n /\ DOMAIN starts = 1..n
  BY <1>7
<1>9. \A e \in 1..n : starts[e] \in 1..m
  BY <1>5, <1>7
<1>10. ASSUME NEW e \in 1..n PROVE last(e) \in starts[e]..m
  <2>1. CASE e = n
    BY <1>1, <1>8, <1>9, <2>1
  <2>2. CASE e # n
    <3>1. e + 1 \in 1..n /\ e < e + 1
      BY <2>2
    <3>2. starts[e] < starts[e + 1] /\ starts[e] \in 1..m /\ starts[e + 1] \in 1..m
      BY <1>7, <1>9, <3>1
    <3> QED  BY <1>8, <2>2, <3>2
  <2> QED  BY <2>1, <2>2
<1>11. ASSUME NEW e \in 1..n, NEW f \in 1..n, e < f PROVE last(e) < starts[f]
  <2>1. e + 1 \in 1..n /\ e # n
    BY <1>11
  <2>2. starts[e + 1] \in 1..m /\ starts[f] \in 1..m
    BY <1>9, <2>1
  <2>3. starts[e + 1] <= starts[f]
    <3>1. e + 1 = f \/ e + 1 < f
      BY <1>11
    <3> QED  BY <1>7, <2>1, <2>2, <3>1
  <2> QED  BY <1>8, <2>1, <2>2, <2>3
<1> HIDE DEF last
<1>12. DOMAIN g = 1..n
  BY <1>6, <1>8
<1>13. ASSUME NEW e \in 1..n
       PROVE  /\ g[e] \in Seq(Nat) /\ DOMAIN g[e] = 1..(last(e) - starts[e] + 1)
              /\ Len(g[e]) = last(e) - starts[e] + 1
              /\ \A k \in 1..(last(e) - starts[e] + 1) :
                   starts[e] + k - 1 \in starts[e]..last(e) /\ g[e][k] = numbers[starts[e] + k - 1]
  <2>1. PICK a \in 1..m, b \in 1..m : a = starts[e] /\ b = last(e) /\ a <= b
    <3>1. starts[e] \in 1..m /\ last(e) \in 1..m /\ starts[e] <= last(e)
      BY <1>9, <1>10
    <3> QED  BY <3>1
  <2>2. g[e] = SubSeq(numbers, a, b)
    BY <1>6, <1>8, <2>1
  <2>3. \A i \in a..b : numbers[i] \in Nat
    <3>1. \A i \in a..b : i \in 1..m
      OBVIOUS
    <3> QED  BY <1>1, <3>1
  <2>4. /\ SubSeq(numbers, a, b) \in Seq(Nat)
        /\ Len(SubSeq(numbers, a, b)) = IF a <= b THEN b - a + 1 ELSE 0
        /\ \A k \in 1..(b - a + 1) : SubSeq(numbers, a, b)[k] = numbers[a + k - 1]
    <3>1. a \in Int /\ b \in Int
      OBVIOUS
    <3> QED  BY <2>3, <3>1, SubSeqProperties
  <2>5. \A k \in 1..(b - a + 1) : a + k - 1 \in a..b
    OBVIOUS
  <2>6. PICK u \in Seq(Nat) : u = SubSeq(numbers, a, b)
    BY <2>4
  <2>7. Len(u) = b - a + 1 /\ DOMAIN u = 1..(b - a + 1)
    <3>1. Len(u) = b - a + 1
      BY <2>1, <2>4, <2>6
    <3> QED  BY <3>1
  <2>8. \A k \in 1..(b - a + 1) : a + k - 1 \in a..b /\ u[k] = numbers[a + k - 1]
    BY <2>4, <2>5, <2>6
  <2>9. g[e] = u
    BY <2>2, <2>6
  <2> QED  BY <2>1, <2>7, <2>8, <2>9
<1>14. g \in Entries
  <2>1. g \in [1..n -> Seq(Nat)]
    BY <1>6, <1>8, <1>12, <1>13
  <2> QED  BY <2>1 DEF Entries
<1>15. \A e \in 1..n : \A i \in starts[e]..last(e) : i \in 1..m
  BY <1>9, <1>10
<1>16. ASSUME NEW i \in 1..m
       PROVE  \E e \in 1..n : i \in starts[e]..last(e)
  <2> DEFINE later == {e \in 1..n : e = n \/ starts[e + 1] > i}
  <2>1. \E e \in 1..n : starts[e] = 1
    BY <1>5, <1>7
  <2>2. later \in SUBSET Nat /\ n \in later
    BY <2>1
  <2>3. PICK e \in later : \A f \in later : e <= f
    BY <2>2, LeastOf
  <2>4. starts[e] <= i
    <3>1. CASE e = 1
      <4>1. PICK f \in 1..n : starts[f] = 1
        BY <2>1
      <4>2. f = 1 \/ 1 < f
        OBVIOUS
      <4>3. ~(1 < f)
        <5>1. 1 < f => starts[1] < starts[f] /\ starts[1] \in 1..m
          BY <1>7, <1>9
        <5> QED  BY <4>1, <5>1
      <4> QED  BY <3>1, <4>1, <4>2, <4>3
    <3>2. CASE e # 1
      <4>1. e - 1 \in 1..n /\ e - 1 # n /\ (e - 1) + 1 = e /\ e \in 1..n
        BY <3>2
      <4>2. e - 1 \notin later
        <5>1. e \in Int /\ ~(e <= e - 1)
          BY <4>1
        <5> QED  BY <2>3, <5>1
      <4>3. ~(starts[(e - 1) + 1] > i)
        BY <4>1, <4>2
      <4>4. starts[e] \in 1..m
        BY <1>9, <4>1
      <4> QED  BY <4>1, <4>3, <4>4
    <3> QED  BY <3>1, <3>2
  <2>5. i <= last(e)
    <3>1. CASE e = n
      BY <1>1, <1>8, <3>1 DEF last
    <3>2. CASE e # n
      <4>1. starts[e + 1] > i /\ e + 1 \in 1..n
        BY <2>3, <3>2
      <4>2. starts[e + 1] \in 1..m
        BY <1>9, <4>1
      <4> QED  BY <1>8, <3>2, <4>1, <4>2 DEF last
    <3> QED  BY <3>1, <3>2
  <2> QED  BY <1>9, <1>10, <2>3, <2>4, <2>5
<1>17. LinesOf(g) = ToSet(numbers)
  <2>1. ASSUME NEW x \in LinesOf(g) PROVE x \in ToSet(numbers)
    <3>1. PICK e \in 1..n : \E k \in DOMAIN g[e] : g[e][k] = x
      BY <1>12, <1>14, LinesAreEntries
    <3>2. PICK k \in 1..(last(e) - starts[e] + 1) : g[e][k] = x
      BY <1>13, <3>1
    <3>3. PICK i \in 1..m : x = numbers[i]
      BY <1>13, <1>15, <3>2
    <3> QED  BY <1>1, <3>3 DEF ToSet
  <2>2. ASSUME NEW x \in ToSet(numbers) PROVE x \in LinesOf(g)
    <3>1. PICK i \in 1..m : x = numbers[i]
      BY <1>1 DEF ToSet
    <3>2. PICK e \in 1..n : i \in starts[e]..last(e)
      BY <1>16
    <3>3. /\ i - starts[e] + 1 \in 1..(last(e) - starts[e] + 1)
          /\ starts[e] + (i - starts[e] + 1) - 1 = i
      <4>1. starts[e] \in Int /\ last(e) \in Int
        BY <1>9, <1>10
      <4> QED  BY <3>2, <4>1
    <3>4. g[e][i - starts[e] + 1] = x
      BY <1>13, <3>1, <3>3
    <3> QED  BY <1>12, <1>13, <1>14, <3>3, <3>4, LinesAreEntries
  <2> QED  BY <2>1, <2>2
<1>18. InTextOrder(g)
  <2>1. SUFFICES ASSUME NEW e \in 1..n, NEW f \in 1..n,
                        NEW k \in DOMAIN g[e], NEW l \in DOMAIN g[f], e < f \/ (e = f /\ k < l)
                 PROVE  g[e][k] < g[f][l]
    BY <1>12 DEF InTextOrder
  <2>2. k \in 1..(last(e) - starts[e] + 1) /\ l \in 1..(last(f) - starts[f] + 1)
    BY <1>13
  <2>3. PICK i \in starts[e]..last(e) : i = starts[e] + k - 1 /\ g[e][k] = numbers[i]
    BY <1>13, <2>2
  <2>4. PICK j \in starts[f]..last(f) : j = starts[f] + l - 1 /\ g[f][l] = numbers[j]
    BY <1>13, <2>2
  <2>5. i \in 1..m /\ j \in 1..m
    BY <1>15
  <2>6. starts[e] \in Int /\ starts[f] \in Int /\ last(e) \in Int
    BY <1>9, <1>10
  <2>7. i < j
    <3>1. CASE e < f
      <4>1. last(e) < starts[f]
        BY <1>11, <3>1
      <4>2. i <= last(e) /\ starts[f] <= j
        BY <2>3, <2>4, <2>6
      <4> QED  BY <2>5, <2>6, <4>1, <4>2
    <3>2. CASE e = f /\ k < l
      BY <2>2, <2>3, <2>4, <2>6, <3>2
    <3> QED  BY <2>1, <3>1, <3>2
  <2> QED  BY <1>1, <2>3, <2>4, <2>5, <2>7 DEF Increasing
<1>19. BulletsOpen(g)
  <2>1. SUFFICES ASSUME NEW e \in 1..n, NEW k \in 2..Len(g[e])
                 PROVE  textLines[g[e][k]].content # "bullet"
    BY <1>12 DEF BulletsOpen
  <2>2. starts[e] \in 1..m /\ last(e) \in starts[e]..m
    BY <1>9, <1>10
  <2>3. PICK i \in starts[e]..last(e) : i = starts[e] + k - 1 /\ g[e][k] = numbers[i]
    <3>1. k \in 1..(last(e) - starts[e] + 1)
      <4>1. Len(g[e]) = last(e) - starts[e] + 1
        BY <1>13
      <4> QED  BY <4>1
    <3>2. starts[e] + k - 1 \in starts[e]..last(e) /\ g[e][k] = numbers[starts[e] + k - 1]
      BY <1>13, <3>1
    <3>3. PICK i : i = starts[e] + k - 1
      OBVIOUS
    <3> QED  BY <3>2, <3>3
  <2>4. i \in 1..m /\ starts[e] < i
    <3>1. i \in 1..m
      BY <1>15
    <3>2. starts[e] \in Int /\ k \in Int /\ k >= 2
      BY <2>2
    <3> QED  BY <2>3, <3>1, <3>2
  <2>5. i \notin opening
    <3>1. ASSUME i \in opening PROVE FALSE
      <4>1. PICK f \in 1..n : starts[f] = i
        BY <1>7, <3>1
      <4>2. e < f
        <5>1. ~(f < e) /\ f # e
          BY <1>7, <2>2, <2>4, <4>1
        <5> QED  BY <5>1
      <4>3. last(e) < i
        BY <1>11, <4>1, <4>2
      <4> QED  BY <2>2, <2>3, <4>3
    <3> QED  BY <3>1
  <2> QED  BY <1>5, <2>3, <2>4, <2>5
<1> QED  BY <1>14, <1>17, <1>18, <1>19 DEF g

\* A line that opens an entry, after the lines that are held.
LEMMA EntryIsOpened ==
  ASSUME NEW x \in Entries, NEW n \in Nat, InTextOrder(x), \A m \in LinesOf(x) : m < n
  PROVE  /\ Append(x, <<n>>) \in Entries /\ Append(x, <<n>>) # <<>>
         /\ LinesOf(Append(x, <<n>>)) = LinesOf(x) \union {n}
         /\ InTextOrder(Append(x, <<n>>))
         /\ \A e \in DOMAIN x : e \in DOMAIN Append(x, <<n>>) /\ Append(x, <<n>>)[e] = x[e]
         /\ \A e \in DOMAIN Append(x, <<n>>) :
              \/ e \in DOMAIN x /\ Append(x, <<n>>)[e] = x[e]
              \/ Len(Append(x, <<n>>)[e]) = 1
         /\ n \in ToSet(Append(x, <<n>>)[Len(Append(x, <<n>>))])
<1>1. PICK one \in Seq(Nat) : one = <<n>>
  <2>1. <<n>> \in Seq(Nat)
    OBVIOUS
  <2> QED  BY <2>1
<1>2. DOMAIN one = 1..1 /\ one[1] = n /\ ToSet(one) = {n}
  BY <1>1 DEF ToSet
<1>3. PICK y : y = Append(x, one)
  OBVIOUS
<1>4. PICK a \in Nat : a = Len(x) /\ DOMAIN x = 1..a /\ \A e \in 1..a : x[e] \in Seq(Nat)
  BY DEF Entries
<1>5. /\ y \in Entries /\ Len(y) = a + 1 /\ DOMAIN y = 1..(a + 1)
      /\ y[a + 1] = one /\ \A e \in 1..a : y[e] = x[e]
  <2>1. PICK T : T = Seq(Nat)
    OBVIOUS
  <2>2. x \in Seq(T) /\ one \in T
    BY <2>1 DEF Entries
  <2>3. /\ y \in Seq(T) /\ Len(y) = a + 1 /\ DOMAIN y = 1..(a + 1)
        /\ y[a + 1] = one /\ \A e \in 1..a : y[e] = x[e]
    BY <1>3, <1>4, <2>2
  <2> QED  BY <2>1, <2>3 DEF Entries
<1>6. a + 1 \in 1..(a + 1) /\ \A e \in 1..(a + 1) : e \in 1..a \/ e = a + 1
  OBVIOUS
<1>7. \A e \in 1..a : e \in 1..(a + 1)
  OBVIOUS
<1>8. LinesOf(y) = LinesOf(x) \union {n}
  <2>1. ASSUME NEW m \in LinesOf(y) PROVE m \in LinesOf(x) \union {n}
    <3>1. PICK e \in 1..(a + 1) : \E k \in DOMAIN y[e] : y[e][k] = m
      <4>1. \E e \in DOMAIN y : \E k \in DOMAIN y[e] : y[e][k] = m
        BY <1>5, LinesAreEntries
      <4> QED  BY <1>5, <4>1
    <3>2. CASE e \in 1..a
      <4>1. y[e] = x[e] /\ e \in DOMAIN x
        BY <1>4, <1>5, <3>2
      <4> QED  BY <3>1, <4>1, LinesAreEntries
    <3>3. CASE e = a + 1
      BY <1>2, <1>5, <3>1, <3>3
    <3> QED  BY <1>6, <3>2, <3>3
  <2>2. ASSUME NEW m \in LinesOf(x) PROVE m \in LinesOf(y)
    <3>1. PICK e \in 1..a : \E k \in DOMAIN x[e] : x[e][k] = m
      BY <1>4, LinesAreEntries
    <3> QED  BY <1>5, <1>7, <3>1, LinesAreEntries
  <2>3. n \in LinesOf(y)
    <3>1. 1 \in DOMAIN y[a + 1] /\ y[a + 1][1] = n
      BY <1>2, <1>5
    <3> QED  BY <1>5, <1>6, <3>1, LinesAreEntries
  <2> QED  BY <2>1, <2>2, <2>3
<1>9. InTextOrder(y)
  <2>1. SUFFICES ASSUME NEW e \in 1..(a + 1), NEW f \in 1..(a + 1),
                        NEW k \in DOMAIN y[e], NEW l \in DOMAIN y[f], e < f \/ (e = f /\ k < l)
                 PROVE  y[e][k] < y[f][l]
    BY <1>5 DEF InTextOrder
  <2>2. CASE e \in 1..a /\ f \in 1..a
    <3>1. y[e] = x[e] /\ y[f] = x[f]
      BY <1>5, <2>2
    <3> QED  BY <1>4, <2>1, <2>2, <3>1 DEF InTextOrder
  <2>3. CASE e \in 1..a /\ f = a + 1
    <3>1. y[e] = x[e] /\ y[e][k] \in LinesOf(x)
      BY <1>4, <1>5, <2>3, LinesAreEntries
    <3>2. y[f][l] = n
      BY <1>2, <1>5, <2>3
    <3> QED  BY <3>1, <3>2
  <2>4. e = a + 1 => f = a + 1
    BY <1>4, <2>1
  <2>5. CASE e = a + 1 /\ f = a + 1
    <3>1. k = 1 /\ l = 1
      BY <1>2, <1>5, <2>5
    <3> QED  BY <2>1, <2>5, <3>1
  <2> QED  BY <1>6, <2>2, <2>3, <2>4, <2>5
<1>10. n \in ToSet(y[Len(y)]) /\ y # <<>>
  BY <1>2, <1>4, <1>5
<1>11. \A e \in DOMAIN x : e \in DOMAIN y /\ y[e] = x[e]
  BY <1>4, <1>5, <1>7
<1>12. \A e \in DOMAIN y : (e \in DOMAIN x /\ y[e] = x[e]) \/ Len(y[e]) = 1
  <2>1. Len(one) = 1
    BY <1>2
  <2> QED  BY <1>4, <1>5, <1>6, <2>1
<1> QED  BY <1>1, <1>3, <1>5, <1>8, <1>9, <1>10, <1>11, <1>12

\* The last entry goes on with this line.
Continued(x, n) == [x EXCEPT ![Len(x)] = Append(@, n)]

LEMMA EntryIsContinued ==
  ASSUME NEW x \in Entries, x # <<>>, NEW n \in Nat, InTextOrder(x),
         \A m \in LinesOf(x) : m < n,
         NEW y, y = Continued(x, n)
  PROVE  /\ y \in Entries /\ y # <<>> /\ Len(y) = Len(x)
         /\ LinesOf(y) = LinesOf(x) \union {n}
         /\ InTextOrder(y)
         /\ \A e \in DOMAIN x : e \in DOMAIN y /\ ToSet(x[e]) \subseteq ToSet(y[e])
         /\ \A e \in DOMAIN y : \A k \in DOMAIN y[e] :
              \/ e \in DOMAIN x /\ k \in DOMAIN x[e] /\ y[e][k] = x[e][k]
              \/ y[e][k] = n
         /\ n \in ToSet(y[Len(y)])
<1>1. PICK a \in Nat : a = Len(x) /\ DOMAIN x = 1..a /\ \A e \in 1..a : x[e] \in Seq(Nat)
  BY DEF Entries
<1>2. a \in 1..a
  BY <1>1 DEF Entries
<1>3. PICK z \in Seq(Nat), b \in Nat : z = x[a] /\ b = Len(z) /\ DOMAIN z = 1..b
  BY <1>1, <1>2
<1>4. PICK w : w = Append(z, n)
  OBVIOUS
<1>5. /\ w \in Seq(Nat) /\ DOMAIN w = 1..(b + 1) /\ w[b + 1] = n
      /\ \A k \in 1..b : w[k] = z[k]
  BY <1>3, <1>4
<1>6. /\ DOMAIN y = 1..a /\ y[a] = w /\ \A e \in 1..a : e # a => y[e] = x[e]
  BY <1>1, <1>2, <1>3, <1>4 DEF Continued
<1>7. y \in Entries /\ Len(y) = a /\ y # <<>>
  <2>1. y \in [1..a -> Seq(Nat)]
    <3>1. y = [e \in 1..a |-> IF e = a THEN w ELSE x[e]]
      BY <1>1, <1>3, <1>4 DEF Continued
    <3> QED  BY <1>1, <1>5, <3>1
  <2> QED  BY <1>2, <2>1 DEF Entries
<1>8. /\ b + 1 \in 1..(b + 1) /\ (\A k \in 1..(b + 1) : k \in 1..b \/ k = b + 1)
      /\ \A k \in 1..b : k \in 1..(b + 1)
  OBVIOUS
<1>9. n \in ToSet(y[Len(y)])
  <2>1. n = w[b + 1] /\ b + 1 \in DOMAIN w
    BY <1>5, <1>8
  <2> QED  BY <1>6, <1>7, <2>1 DEF ToSet
<1>10. ASSUME NEW e \in 1..a PROVE ToSet(x[e]) \subseteq ToSet(y[e])
  <2>1. CASE e = a
    <3>1. \A k \in DOMAIN z : k \in DOMAIN w /\ w[k] = z[k]
      BY <1>3, <1>5, <1>8
    <3>2. ToSet(z) \subseteq ToSet(w)
      BY <3>1 DEF ToSet
    <3> QED  BY <1>3, <1>6, <2>1, <3>2
  <2>2. CASE e # a
    BY <1>6, <2>2
  <2> QED  BY <2>1, <2>2
<1>11. ASSUME NEW e \in 1..a, NEW k \in DOMAIN y[e]
       PROVE  \/ k \in DOMAIN x[e] /\ y[e][k] = x[e][k]
              \/ e = a /\ k = b + 1 /\ y[e][k] = n
  <2>1. CASE e = a
    BY <1>3, <1>5, <1>6, <1>8, <2>1
  <2>2. CASE e # a
    BY <1>6, <2>2
  <2> QED  BY <2>1, <2>2
<1>12. LinesOf(y) = LinesOf(x) \union {n}
  <2>1. ASSUME NEW m \in LinesOf(y) PROVE m \in LinesOf(x) \union {n}
    <3>1. PICK e \in 1..a : \E k \in DOMAIN y[e] : y[e][k] = m
      BY <1>6, <1>7, LinesAreEntries
    <3>2. PICK k \in DOMAIN y[e] : y[e][k] = m
      BY <3>1
    <3>3. CASE k \in DOMAIN x[e] /\ m = x[e][k]
      BY <1>1, <3>3, LinesAreEntries
    <3> QED  BY <1>11, <3>2, <3>3
  <2>2. ASSUME NEW m \in LinesOf(x) PROVE m \in LinesOf(y)
    <3>1. PICK e \in 1..a : m \in ToSet(x[e])
      BY <1>1 DEF LinesOf
    <3>2. m \in ToSet(y[e])
      BY <1>10, <3>1
    <3> QED  BY <1>6, <3>2 DEF LinesOf
  <2>3. n \in LinesOf(y)
    BY <1>2, <1>6, <1>7, <1>9 DEF LinesOf
  <2> QED  BY <2>1, <2>2, <2>3
<1>13. InTextOrder(y)
  <2>1. SUFFICES ASSUME NEW e \in 1..a, NEW f \in 1..a,
                        NEW k \in DOMAIN y[e], NEW l \in DOMAIN y[f], e < f \/ (e = f /\ k < l)
                 PROVE  y[e][k] < y[f][l]
    BY <1>6 DEF InTextOrder
  <2>2. CASE k \in DOMAIN x[e] /\ y[e][k] = x[e][k]
    <3>1. x[e][k] \in LinesOf(x)
      BY <1>1, <2>2, LinesAreEntries
    <3>2. CASE l \in DOMAIN x[f] /\ y[f][l] = x[f][l]
      BY <1>1, <2>1, <2>2, <3>2 DEF InTextOrder
    <3>3. CASE y[f][l] = n
      BY <2>2, <3>1, <3>3
    <3> QED  BY <1>11, <3>2, <3>3
  <2>3. CASE e = a /\ k = b + 1
    <3>1. f = a /\ l \in 1..(b + 1)
      BY <1>1, <1>5, <1>6, <2>1, <2>3
    <3> QED  BY <2>1, <2>3, <3>1
  <2> QED  BY <1>11, <2>2, <2>3
<1> QED  BY <1>1, <1>6, <1>7, <1>9, <1>10, <1>11, <1>12, <1>13

-------------------------------------------------------------------------------
(* The first loop. What follows a bullet is told by whether it was wrapped.    *)

\* A line of skills that a bullet starts and no separator ends.
BreaksOff(n) ==
  n \in SkillLines /\ UnderSkills(n) /\ textLines[n].bulleted /\ ~textLines[n].listed

HeldTogether(entries, end) ==
  \A n \in 2..end :
    BreaksOff(n - 1) /\ n \in SkillLines /\ UnderSkills(n) /\ ~textLines[n].bulleted =>
      \E e \in DOMAIN entries : {n - 1, n} \subseteq ToSet(entries[e])

DashesOpen(entries) ==
  \A e \in DOMAIN entries : \A k \in 2..Len(entries[e]) : ~textLines[entries[e][k]].bulleted

\* The lines to this one have been read for the skills.
SkillsAt(state, end) ==
  /\ state \in [open : BOOLEAN, wrapped : BOOLEAN, declared : Entries]
  /\ state.open <=> UnderSkills(end)
  /\ LinesOf(state.declared) = SkillsTo(end)
  /\ InTextOrder(state.declared)
  /\ DashesOpen(state.declared)
  /\ HeldTogether(state.declared, end)
  /\ state.wrapped => state.open /\ state.declared # <<>>
  /\ BreaksOff(end) => state.wrapped /\ end \in ToSet(state.declared[Len(state.declared)])

LEMMA NoLineDeclares == textLines \in Seq(LineKind) => SkillsAt(NoSkills, 0)
<1> SUFFICES ASSUME textLines \in Seq(LineKind) PROVE SkillsAt(NoSkills, 0)
  OBVIOUS
<1>1. NoSkills.declared = <<>> /\ <<>> \in Entries /\ DOMAIN <<>> = {}
  BY DEF NoSkills, Entries
<1>2. /\ LinesOf(<<>>) = {} /\ InTextOrder(<<>>) /\ DashesOpen(<<>>)
      /\ HeldTogether(<<>>, 0)
  BY <1>1 DEF LinesOf, InTextOrder, DashesOpen, HeldTogether
<1>3. ~BreaksOff(0)
  BY NothingIsPlaced DEF BreaksOff
<1> QED  BY <1>1, <1>2, <1>3, NothingIsPlaced DEF SkillsAt, NoSkills

LEMMA LineDeclares ==
  ASSUME textLines \in Seq(LineKind), NEW n \in 1..Len(textLines),
         NEW state, SkillsAt(state, n - 1)
  PROVE  SkillsAt(DeclaresSkills(state, n), n)
<1> DEFINE next == DeclaresSkills(state, n)
<1>1. PICK line \in Line : line = textLines[n]
  BY LinesAreKnown
<1>2. PICK x \in Entries : x = state.declared
  BY DEF SkillsAt
<1>3. /\ state \in [open : BOOLEAN, wrapped : BOOLEAN, declared : Entries]
      /\ state.open <=> UnderSkills(n - 1)
      /\ LinesOf(x) = SkillsTo(n - 1)
      /\ InTextOrder(x) /\ DashesOpen(x)
      /\ HeldTogether(x, n - 1)
      /\ state.wrapped => state.open /\ x # <<>>
      /\ BreaksOff(n - 1) => state.wrapped /\ n - 1 \in ToSet(x[Len(x)])
  BY <1>2 DEF SkillsAt
<1>4. /\ line.skills \in {"heading", "inline"} => UnderSkills(n)
      /\ line.skills = "end" => ~UnderSkills(n)
      /\ line.skills \in {"line", "blank"} => (UnderSkills(n) <=> UnderSkills(n - 1))
      /\ SkillsTo(n) = IF line.skills \in {"inline", "line"} /\ UnderSkills(n)
                         THEN SkillsTo(n - 1) \union {n} ELSE SkillsTo(n - 1)
      /\ n \in SkillLines <=> line.skills \in {"inline", "line"}
      /\ \A m \in SkillsTo(n - 1) : m \in Nat /\ m < n
  BY <1>1, SkillsNext
<1>5. line.skills \in {"heading", "inline", "end", "line", "blank"} /\ line.bulleted \in BOOLEAN
      /\ line.listed \in BOOLEAN
  BY DEF Line
<1>6. n \in Nat /\ \A m \in LinesOf(x) : m < n
  BY <1>3, <1>4
\* The lines that were held together still are, and only a line of skills adds a pair.
<1>7. ASSUME NEW y, \A e \in DOMAIN x : e \in DOMAIN y /\ ToSet(x[e]) \subseteq ToSet(y[e]),
             n >= 2 /\ BreaksOff(n - 1) /\ n \in SkillLines /\ UnderSkills(n) /\ ~line.bulleted
               => \E e \in DOMAIN y : {n - 1, n} \subseteq ToSet(y[e])
      PROVE  HeldTogether(y, n)
  <2>1. SUFFICES ASSUME NEW k \in 2..n, BreaksOff(k - 1), k \in SkillLines, UnderSkills(k),
                        ~textLines[k].bulleted
                 PROVE  \E e \in DOMAIN y : {k - 1, k} \subseteq ToSet(y[e])
    BY DEF HeldTogether
  <2>2. CASE k = n
    BY <1>1, <1>7, <2>1, <2>2
  <2>3. CASE k # n
    <3>1. k \in 2..(n - 1)
      BY <2>3
    <3>2. PICK e \in DOMAIN x : {k - 1, k} \subseteq ToSet(x[e])
      BY <1>3, <2>1, <3>1 DEF HeldTogether
    <3>3. e \in DOMAIN y /\ ToSet(x[e]) \subseteq ToSet(y[e])
      BY <1>7
    <3> QED  BY <3>2, <3>3
  <2> QED  BY <2>2, <2>3
<1>8. CASE line.skills = "end"
  <2>1. next = IF state.open THEN [state EXCEPT !.open = FALSE, !.wrapped = FALSE] ELSE state
    BY <1>1, <1>8 DEF DeclaresSkills
  <2>2. next \in [open : BOOLEAN, wrapped : BOOLEAN, declared : Entries] /\ ~next.open
        /\ ~next.wrapped /\ next.declared = x
    BY <1>2, <1>3, <2>1
  <2>3. ~UnderSkills(n) /\ SkillsTo(n) = SkillsTo(n - 1) /\ ~BreaksOff(n)
    BY <1>4, <1>8 DEF BreaksOff
  <2>4. HeldTogether(x, n)
    BY <1>7, <2>3
  <2> QED  BY <1>3, <2>2, <2>3, <2>4 DEF SkillsAt
<1>9. CASE line.skills = "heading"
  <2>1. next = [state EXCEPT !.open = TRUE]
    BY <1>1, <1>9 DEF DeclaresSkills
  <2>2. next \in [open : BOOLEAN, wrapped : BOOLEAN, declared : Entries] /\ next.open
        /\ next.wrapped = state.wrapped /\ next.declared = x
    BY <1>2, <1>3, <2>1
  <2>3. UnderSkills(n) /\ SkillsTo(n) = SkillsTo(n - 1) /\ n \notin SkillLines
    BY <1>4, <1>9
  <2>4. HeldTogether(x, n)
    BY <1>7, <2>3
  <2>5. ~BreaksOff(n)
    BY <2>3 DEF BreaksOff
  <2> QED  BY <1>3, <2>2, <2>3, <2>4, <2>5 DEF SkillsAt
<1>10. CASE line.skills = "blank" \/ (line.skills = "line" /\ ~state.open)
  <2>1. next = state
    <3>1. next = [state EXCEPT !.open = state.open \/ line.skills \in {"heading", "inline"}]
      BY <1>1, <1>10 DEF DeclaresSkills
    <3>2. (state.open \/ line.skills \in {"heading", "inline"}) = state.open
      BY <1>3, <1>10
    <3> QED  BY <1>3, <3>1, <3>2
  <2>2. /\ UnderSkills(n) <=> UnderSkills(n - 1)
        /\ ~(line.skills \in {"inline", "line"} /\ UnderSkills(n))
    BY <1>3, <1>4, <1>10
  <2>3. SkillsTo(n) = SkillsTo(n - 1) /\ ~(n \in SkillLines /\ UnderSkills(n))
    BY <1>4, <2>2
  <2>4. HeldTogether(x, n) /\ ~BreaksOff(n)
    BY <1>7, <2>3 DEF BreaksOff
  <2> QED  BY <1>2, <1>3, <2>1, <2>2, <2>3, <2>4 DEF SkillsAt
<1>11. CASE line.skills = "inline" \/ (line.skills = "line" /\ state.open)
  <2>1. next = [open |-> TRUE,
                wrapped |-> (line.bulleted \/ state.wrapped) /\ ~line.listed,
                declared |-> IF state.wrapped /\ ~line.bulleted
                               THEN [x EXCEPT ![Len(x)] = Append(@, n)]
                               ELSE Append(x, <<n>>)]
    BY <1>1, <1>2, <1>11 DEF DeclaresSkills
  <2>2. PICK y : y = next.declared
    OBVIOUS
  <2>3. /\ y \in Entries /\ y # <<>>
        /\ LinesOf(y) = LinesOf(x) \union {n} /\ InTextOrder(y)
        /\ \A e \in DOMAIN x : e \in DOMAIN y /\ ToSet(x[e]) \subseteq ToSet(y[e])
        /\ n \in ToSet(y[Len(y)])
        /\ state.wrapped /\ ~line.bulleted => Len(y) = Len(x)
        /\ DashesOpen(y)
    <3>1. CASE state.wrapped /\ ~line.bulleted
      <4>1. y = Continued(x, n) /\ x # <<>>
        BY <1>3, <2>1, <2>2, <3>1 DEF Continued
      <4>2. /\ y \in Entries /\ y # <<>> /\ Len(y) = Len(x)
            /\ LinesOf(y) = LinesOf(x) \union {n} /\ InTextOrder(y)
            /\ \A e \in DOMAIN x : e \in DOMAIN y /\ ToSet(x[e]) \subseteq ToSet(y[e])
            /\ \A e \in DOMAIN y : \A k \in DOMAIN y[e] :
                 \/ e \in DOMAIN x /\ k \in DOMAIN x[e] /\ y[e][k] = x[e][k]
                 \/ y[e][k] = n
            /\ n \in ToSet(y[Len(y)])
        <5>1. InTextOrder(x) /\ n \in Nat /\ \A m \in LinesOf(x) : m < n
          BY <1>3, <1>6
        <5> QED  BY <4>1, <5>1, EntryIsContinued
      <4>3. DashesOpen(y)
        <5>1. SUFFICES ASSUME NEW e \in DOMAIN y, NEW k \in 2..Len(y[e])
                       PROVE  ~textLines[y[e][k]].bulleted
          BY DEF DashesOpen
        <5>2. k \in DOMAIN y[e]
          <6>1. y[e] \in Seq(Nat)
            BY <4>2 DEF Entries
          <6> QED  BY <6>1
        <5>3. CASE y[e][k] = n
          BY <1>1, <3>1, <5>3
        <5>4. CASE e \in DOMAIN x /\ k \in DOMAIN x[e] /\ y[e][k] = x[e][k]
          <6>1. x[e] \in Seq(Nat)
            BY <5>4 DEF Entries
          <6>2. k \in 2..Len(x[e])
            BY <5>4, <6>1
          <6> QED  BY <1>3, <5>4, <6>2 DEF DashesOpen
        <5> QED  BY <4>2, <5>2, <5>3, <5>4
      <4> QED  BY <4>2, <4>3
    <3>2. CASE ~(state.wrapped /\ ~line.bulleted)
      <4>1. y = Append(x, <<n>>)
        BY <2>1, <2>2, <3>2
      <4>2. /\ y \in Entries /\ y # <<>>
            /\ LinesOf(y) = LinesOf(x) \union {n} /\ InTextOrder(y)
            /\ \A e \in DOMAIN x : e \in DOMAIN y /\ y[e] = x[e]
            /\ \A e \in DOMAIN y : (e \in DOMAIN x /\ y[e] = x[e]) \/ Len(y[e]) = 1
            /\ n \in ToSet(y[Len(y)])
        <5>1. InTextOrder(x) /\ n \in Nat /\ \A m \in LinesOf(x) : m < n
          BY <1>3, <1>6
        <5>2. PICK z : z = Append(x, <<n>>)
          OBVIOUS
        <5>3. /\ z \in Entries /\ z # <<>>
              /\ LinesOf(z) = LinesOf(x) \union {n} /\ InTextOrder(z)
              /\ \A e \in DOMAIN x : e \in DOMAIN z /\ z[e] = x[e]
              /\ \A e \in DOMAIN z : (e \in DOMAIN x /\ z[e] = x[e]) \/ Len(z[e]) = 1
              /\ n \in ToSet(z[Len(z)])
          BY <5>1, <5>2, EntryIsOpened
        <5> QED  BY <4>1, <5>2, <5>3
      <4>3. DashesOpen(y)
        <5>1. SUFFICES ASSUME NEW e \in DOMAIN y, NEW k \in 2..Len(y[e])
                       PROVE  ~textLines[y[e][k]].bulleted
          BY DEF DashesOpen
        <5>2. Len(y[e]) # 1
          <6>1. y[e] \in Seq(Nat)
            BY <4>2 DEF Entries
          <6>2. PICK length \in Nat : length = Len(y[e])
            BY <6>1
          <6>3. k \in 2..length
            BY <5>1, <6>2
          <6>4. length # 1
            BY <6>3
          <6> QED  BY <6>2, <6>4
        <5> QED  BY <1>3, <4>2, <5>2 DEF DashesOpen
      <4> QED  BY <3>2, <4>2, <4>3
    <3> QED  BY <3>1, <3>2
  <2>4. UnderSkills(n) /\ SkillsTo(n) = LinesOf(y)
    BY <1>3, <1>4, <1>11, <2>3
  <2>5. HeldTogether(y, n)
    <3>1. ASSUME n >= 2, BreaksOff(n - 1), ~line.bulleted
          PROVE  \E e \in DOMAIN y : {n - 1, n} \subseteq ToSet(y[e])
      <4>1. state.wrapped /\ n - 1 \in ToSet(x[Len(x)]) /\ x # <<>>
        BY <1>3, <3>1
      <4>2. Len(x) \in DOMAIN x
        BY <4>1 DEF Entries
      <4>3. Len(y) \in DOMAIN y /\ n - 1 \in ToSet(y[Len(y)])
        BY <2>3, <3>1, <4>1, <4>2
      <4> QED  BY <2>3, <4>3
    <3> QED  BY <1>7, <2>3, <3>1
  <2>6. /\ next \in [open : BOOLEAN, wrapped : BOOLEAN, declared : Entries] /\ next.open
        /\ line.bulleted /\ ~line.listed => next.wrapped
    <3>1. PICK w \in BOOLEAN :
            w = ((line.bulleted \/ state.wrapped) /\ ~line.listed)
      OBVIOUS
    <3>2. next = [open |-> TRUE, wrapped |-> w, declared |-> y]
      BY <2>1, <2>2, <3>1
    <3>3. line.bulleted /\ ~line.listed => w
      BY <3>1
    <3> QED  BY <2>3, <3>2, <3>3
  <2>7. BreaksOff(n) => next.wrapped
    BY <1>1, <2>6 DEF BreaksOff
  <2> QED  BY <2>2, <2>3, <2>4, <2>5, <2>6, <2>7 DEF SkillsAt
<1> QED  BY <1>5, <1>8, <1>9, <1>10, <1>11

-------------------------------------------------------------------------------
(* The second loop. The lines of the open section are joined to what was kept  *)
(* of it when it ends.                                                         *)

ContentType == [section : Sections \union {"none"}, lines : Seq(Nat),
                captured : [Sections -> Entries]]

\* The lines that were read and not kept yet.
Pending(state, section) == IF state.section = section THEN ToSet(state.lines) ELSE {}

\* The lines to this one have been read for the sections.
SectionAt(state, end, section) ==
  /\ state.section = section <=> UnderSection(section, end)
  /\ LinesOf(state.captured[section]) \union Pending(state, section)
       = ContentTo(section, end)
  /\ \A m \in LinesOf(state.captured[section]), n \in Pending(state, section) : m < n
  /\ InTextOrder(state.captured[section])
  /\ BulletsOpen(state.captured[section])

ContentAt(state, end) ==
  /\ state \in ContentType
  /\ Increasing(state.lines)
  /\ state.section = "none" => state.lines = <<>>
  /\ \A section \in Sections : SectionAt(state, end, section)

\* All that stands under the section's headings to this line is kept.
SectionKept(state, end, section) ==
  /\ LinesOf(state.captured[section]) = ContentTo(section, end)
  /\ InTextOrder(state.captured[section])
  /\ BulletsOpen(state.captured[section])

LEMMA NoneIsNoSection == "none" \notin Sections
<1>1. Sections \subseteq {"education", "experience", "projects", "certifications", "achievements"}
  BY DEF Sections, ContentSections
<1> QED  BY <1>1

LEMMA NoLineIsKept == textLines \in Seq(LineKind) => ContentAt(NoSection, 0)
<1> SUFFICES ASSUME textLines \in Seq(LineKind) PROVE ContentAt(NoSection, 0)
  OBVIOUS
<1>1. <<>> \in Entries /\ <<>> \in Seq(Nat) /\ DOMAIN <<>> = {}
  BY DEF Entries
<1>2. LinesOf(<<>>) = {} /\ InTextOrder(<<>>) /\ BulletsOpen(<<>>) /\ Increasing(<<>>)
  BY <1>1 DEF LinesOf, InTextOrder, BulletsOpen, Increasing
<1>3. /\ NoSection \in ContentType /\ NoSection.section = "none" /\ NoSection.lines = <<>>
      /\ \A section \in Sections : NoSection.captured[section] = <<>>
  BY <1>1 DEF NoSection, ContentType
<1>4. ASSUME NEW section \in Sections PROVE SectionAt(NoSection, 0, section)
  <2>1. Pending(NoSection, section) = {} /\ NoSection.section # section
    BY <1>3, NoneIsNoSection DEF Pending
  <2> QED  BY <1>2, <1>3, <2>1, NothingIsPlaced DEF SectionAt
<1> QED  BY <1>2, <1>3, <1>4 DEF ContentAt

LEMMA SectionIsKept ==
  ASSUME NEW state, NEW end, ContentAt(state, end)
  PROVE  /\ SectionEnds(state) \in ContentType
         /\ SectionEnds(state).section = state.section
         /\ SectionEnds(state).lines = <<>>
         /\ \A section \in Sections : SectionKept(SectionEnds(state), end, section)
<1>1. PICK next : next = SectionEnds(state)
  OBVIOUS
<1>2. CASE state.section = "none"
  <2>1. next = state /\ next \in ContentType /\ next.lines = <<>>
    BY <1>1, <1>2 DEF SectionEnds, ContentAt
  <2>2. ASSUME NEW section \in Sections PROVE SectionKept(next, end, section)
    <3>1. Pending(state, section) = {}
      BY <1>2, NoneIsNoSection DEF Pending
    <3> QED  BY <2>1, <3>1 DEF ContentAt, SectionAt, SectionKept
  <2> QED  BY <1>1, <2>1, <2>2
<1>3. CASE state.section # "none"
  <2>1. PICK s \in Sections : s = state.section
    BY <1>3 DEF ContentAt, ContentType
  <2>2. PICK x \in Entries, numbers \in Seq(Nat) :
          x = state.captured[s] /\ numbers = state.lines /\ Increasing(numbers)
    BY <2>1 DEF ContentAt, ContentType
  <2>3. PICK y \in Entries : /\ y = Grouped(s, numbers) /\ LinesOf(y) = ToSet(numbers)
                             /\ InTextOrder(y) /\ BulletsOpen(y)
    BY <2>2, LinesAreGrouped
  <2>4. PICK z : z = x \o y
    OBVIOUS
  <2>5. next = [state EXCEPT !.captured[s] = z, !.lines = <<>>]
    BY <1>1, <1>3, <2>1, <2>2, <2>3, <2>4 DEF SectionEnds
  <2>6. Pending(state, s) = LinesOf(y)
    BY <2>1, <2>2, <2>3 DEF Pending
  <2>7. /\ LinesOf(x) \union LinesOf(y) = ContentTo(s, end)
        /\ \A m \in LinesOf(x), n \in LinesOf(y) : m < n
        /\ InTextOrder(x) /\ BulletsOpen(x)
    BY <2>1, <2>2, <2>6 DEF ContentAt, SectionAt
  <2>8. /\ z \in Entries
        /\ LinesOf(z) = LinesOf(x) \union LinesOf(y)
        /\ InTextOrder(x) /\ InTextOrder(y) /\ (\A m \in LinesOf(x), n \in LinesOf(y) : m < n)
             => InTextOrder(z)
        /\ \A e \in DOMAIN z :
             \/ e \in DOMAIN x /\ z[e] = x[e]
             \/ e - Len(x) \in DOMAIN y /\ z[e] = y[e - Len(x)]
    BY <2>4, EntriesAreJoined
  <2>9. BulletsOpen(z)
    BY <2>3, <2>7, <2>8 DEF BulletsOpen
  <2>10. /\ next \in ContentType /\ next.section = s /\ next.lines = <<>>
         /\ next.captured[s] = z
         /\ \A section \in Sections : section # s => next.captured[section] = state.captured[section]
    <3>1. <<>> \in Seq(Nat)
      OBVIOUS
    <3>2. state \in ContentType
      BY DEF ContentAt
    <3> QED  BY <2>1, <2>5, <2>8, <3>1, <3>2 DEF ContentType
  <2>11. ASSUME NEW section \in Sections PROVE SectionKept(next, end, section)
    <3>1. CASE section = s
      BY <2>3, <2>7, <2>8, <2>9, <2>10, <3>1 DEF SectionKept
    <3>2. CASE section # s
      <4>1. Pending(state, section) = {}
        BY <2>1, <3>2 DEF Pending
      <4> QED  BY <2>10, <3>2, <4>1 DEF ContentAt, SectionAt, SectionKept
    <3> QED  BY <3>1, <3>2
  <2> QED  BY <1>1, <2>1, <2>10, <2>11
<1> QED  BY <1>2, <1>3

LEMMA HeadingsAreNotKept ==
  ASSUME NEW section
  PROVE  /\ \A h \in DOMAIN ContentSections \union {"other"} : h \notin Kept(section)
         /\ "other" \notin DOMAIN ContentSections
BY DEF ContentSections, Kept

\* A heading: what is under it is empty yet, and the other sections are not open.
LEMMA HeadingOpens ==
  ASSUME textLines \in Seq(LineKind), NEW n \in 1..Len(textLines), IsHeading(textLines[n]),
         NEW state, ContentAt(state, n - 1),
         NEW opened \in Sections \union {"none"},
         \A section \in Sections : opened = section <=> textLines[n].content \in HeadingsOf(section)
  PROVE  ContentAt([SectionEnds(state) EXCEPT !.section = opened], n)
<1>1. PICK kept \in ContentType :
        /\ kept = SectionEnds(state) /\ kept.lines = <<>>
        /\ \A section \in Sections : SectionKept(kept, n - 1, section)
  BY SectionIsKept
<1>2. PICK next : next = [kept EXCEPT !.section = opened]
  OBVIOUS
<1>3. /\ next \in ContentType /\ next.section = opened /\ next.lines = <<>>
      /\ next.captured = kept.captured
  BY <1>1, <1>2 DEF ContentType
<1>4. Increasing(next.lines)
  BY <1>3 DEF Increasing
<1>5. ASSUME NEW section \in Sections PROVE textLines[n].content \notin Kept(section)
  BY HeadingsAreNotKept DEF IsHeading
<1>6. ASSUME NEW section \in Sections PROVE SectionAt(next, n, section)
  <2>1. UnderSection(section, n) <=> next.section = section
    BY <1>3, ContentNext
  <2>2. ContentTo(section, n) = ContentTo(section, n - 1)
    BY <1>5, ContentNext
  <2>3. Pending(next, section) = {}
    BY <1>3 DEF Pending, ToSet
  <2>4. SectionKept(kept, n - 1, section)
    BY <1>1
  <2> QED  BY <1>3, <2>1, <2>2, <2>3, <2>4 DEF SectionAt, SectionKept
<1> QED  BY <1>1, <1>2, <1>3, <1>4, <1>6 DEF ContentAt

LEMMA LineIsRead ==
  ASSUME textLines \in Seq(LineKind), NEW n \in 1..Len(textLines),
         NEW state, ContentAt(state, n - 1)
  PROVE  ContentAt(ReadsLine(state, n), n)
<1>1. PICK line : line = textLines[n].content
  OBVIOUS
<1>2. CASE line \in DOMAIN ContentSections
  <2>1. PICK opened \in Sections : opened = ContentSections[line]
    BY <1>2 DEF Sections
  <2>2. ReadsLine(state, n) = [SectionEnds(state) EXCEPT !.section = opened]
    BY <1>1, <1>2, <2>1 DEF ReadsLine
  <2>3. \A section \in Sections : opened = section <=> line \in HeadingsOf(section)
    BY <1>2, <2>1 DEF HeadingsOf
  <2>4. IsHeading(textLines[n])
    BY <1>1, <1>2 DEF IsHeading
  <2> QED  BY <1>1, <2>2, <2>3, <2>4, HeadingOpens
<1>3. CASE line = "other"
  <2>1. line \notin DOMAIN ContentSections
    BY <1>3, HeadingsAreNotKept
  <2>2. PICK opened \in Sections \union {"none"} : opened = "none"
    OBVIOUS
  <2>3. ReadsLine(state, n) = [SectionEnds(state) EXCEPT !.section = opened]
    BY <1>1, <1>3, <2>1, <2>2 DEF ReadsLine
  <2>4. \A section \in Sections : opened = section <=> line \in HeadingsOf(section)
    BY <2>1, <2>2, NoneIsNoSection DEF HeadingsOf
  <2>5. IsHeading(textLines[n])
    BY <1>1, <1>3 DEF IsHeading
  <2> QED  BY <1>1, <2>3, <2>4, <2>5, HeadingOpens
<1>4. CASE line \notin DOMAIN ContentSections /\ line # "other"
  <2>1. PICK next : next = ReadsLine(state, n)
    OBVIOUS
  <2>2. next = IF state.section # "none" /\ line \in Kept(state.section)
                 THEN [state EXCEPT !.lines = Append(@, n)] ELSE state
    BY <1>1, <1>4, <2>1 DEF ReadsLine
  <2>3. n \in Nat \ {0} /\ ~IsHeading(textLines[n])
    BY <1>1, <1>4 DEF IsHeading
  <2>4. ASSUME NEW section \in Sections
        PROVE  /\ UnderSection(section, n) <=> state.section = section
               /\ ContentTo(section, n)
                    = IF line \in Kept(section) /\ state.section = section
                        THEN ContentTo(section, n - 1) \union {n}
                        ELSE ContentTo(section, n - 1)
               /\ \A m \in ContentTo(section, n - 1) : m \in Nat /\ m < n
    <3>1. UnderSection(section, n) <=> UnderSection(section, n - 1)
      BY <2>3, ContentNext
    <3>2. UnderSection(section, n - 1) <=> state.section = section
      BY DEF ContentAt, SectionAt
    <3>3. /\ ContentTo(section, n)
               = IF line \in Kept(section) /\ UnderSection(section, n)
                   THEN ContentTo(section, n - 1) \union {n}
                   ELSE ContentTo(section, n - 1)
          /\ \A m \in ContentTo(section, n - 1) : m \in Nat /\ m < n
      BY <1>1, ContentNext
    <3> QED  BY <3>1, <3>2, <3>3
  <2>5. state \in ContentType /\ Increasing(state.lines)
    BY DEF ContentAt
  <2>6. CASE state.section = "none" \/ line \notin Kept(state.section)
    <3>1. next = state
      BY <2>2, <2>6
    <3>2. ASSUME NEW section \in Sections PROVE SectionAt(next, n, section)
      <4>1. ContentTo(section, n) = ContentTo(section, n - 1)
        BY <2>4, <2>6, NoneIsNoSection
      <4>2. SectionAt(state, n - 1, section)
        BY DEF ContentAt
      <4> QED  BY <2>4, <3>1, <4>1, <4>2 DEF SectionAt
    <3> QED  BY <2>1, <3>1, <3>2 DEF ContentAt
  <2>7. CASE state.section # "none" /\ line \in Kept(state.section)
    <3>1. PICK numbers \in Seq(Nat) : numbers = state.lines
      BY <2>5 DEF ContentType
    <3>2. PICK longer \in Seq(Nat) : longer = Append(numbers, n)
      <4>1. Append(numbers, n) \in Seq(Nat)
        BY <2>3
      <4> QED  BY <4>1
    <3>3. PICK b \in Nat : b = Len(numbers)
      OBVIOUS
    <3>4. /\ DOMAIN numbers = 1..b /\ DOMAIN longer = 1..(b + 1)
          /\ longer[b + 1] = n /\ \A k \in 1..b : longer[k] = numbers[k]
      BY <2>3, <3>2, <3>3
    <3>5. next = [state EXCEPT !.lines = longer]
      BY <2>2, <2>7, <3>1, <3>2
    <3>6. /\ next \in ContentType /\ next.section = state.section /\ next.lines = longer
          /\ next.captured = state.captured
      BY <2>5, <3>5 DEF ContentType
    <3>7. ToSet(longer) = ToSet(numbers) \union {n}
      <4>1. /\ b + 1 \in 1..(b + 1) /\ (\A k \in 1..(b + 1) : k \in 1..b \/ k = b + 1)
            /\ \A k \in 1..b : k \in 1..(b + 1)
        OBVIOUS
      <4> QED  BY <3>4, <4>1 DEF ToSet
    <3>8. PICK s \in Sections : s = state.section
      BY <2>5, <2>7 DEF ContentType
    <3>9. \A m \in ToSet(numbers) : m \in Nat /\ m < n
      <4>1. Pending(state, s) = ToSet(numbers)
        BY <3>1, <3>8 DEF Pending
      <4>2. ToSet(numbers) \subseteq ContentTo(s, n - 1)
        BY <4>1 DEF ContentAt, SectionAt
      <4> QED  BY <2>4, <4>2
    <3>10. Increasing(longer)
      <4>1. SUFFICES ASSUME NEW i \in 1..(b + 1), NEW j \in 1..(b + 1), i < j
                     PROVE  longer[i] < longer[j]
        BY <3>4 DEF Increasing
      <4>2. i \in 1..b /\ longer[i] = numbers[i] /\ numbers[i] \in ToSet(numbers)
        <5>1. i \in 1..b
          BY <4>1
        <5> QED  BY <3>4, <5>1 DEF ToSet
      <4>3. CASE j = b + 1
        BY <3>4, <3>9, <4>2, <4>3
      <4>4. CASE j # b + 1
        <5>1. j \in 1..b
          BY <4>4
        <5> QED  BY <2>5, <3>1, <3>4, <4>1, <4>2, <5>1 DEF Increasing
      <4> QED  BY <4>3, <4>4
    <3>11. ASSUME NEW section \in Sections PROVE SectionAt(next, n, section)
      <4>1. SectionAt(state, n - 1, section)
        BY DEF ContentAt
      <4>2. CASE section = s
        <5>1. /\ Pending(state, section) = ToSet(numbers)
              /\ Pending(next, section) = ToSet(numbers) \union {n}
          BY <3>1, <3>6, <3>7, <3>8, <4>2 DEF Pending
        <5>2. ContentTo(section, n) = ContentTo(section, n - 1) \union {n}
          BY <2>4, <2>7, <3>8, <4>2
        <5>3. /\ LinesOf(state.captured[section]) \union Pending(state, section)
                   = ContentTo(section, n - 1)
              /\ \A m \in LinesOf(state.captured[section]), k \in Pending(state, section) : m < k
          BY <4>1 DEF SectionAt
        <5>4. \A m \in LinesOf(state.captured[section]) : m < n
          BY <2>4, <5>3
        <5> QED  BY <2>4, <3>6, <4>1, <5>1, <5>2, <5>3, <5>4 DEF SectionAt
      <4>3. CASE section # s
        <5>1. Pending(state, section) = {} /\ Pending(next, section) = {}
          BY <3>6, <3>8, <4>3 DEF Pending
        <5>2. ContentTo(section, n) = ContentTo(section, n - 1)
          BY <2>4, <3>8, <4>3
        <5> QED  BY <2>4, <3>6, <4>1, <5>1, <5>2 DEF SectionAt
      <4> QED  BY <4>2, <4>3
    <3> QED  BY <2>1, <2>7, <3>6, <3>10, <3>11 DEF ContentAt
  <2> QED  BY <2>1, <2>6, <2>7
<1> QED  BY <1>2, <1>3, <1>4

-------------------------------------------------------------------------------
(* Both loops.                                                                 *)

TextType ==
  /\ textLines \in Seq(LineKind)
  /\ reader \in {"skills", "content", "done"}
  /\ lineAt \in 1..(Len(textLines) + 1)

TextInv ==
  /\ TextType
  /\ SkillsAt(skillsRead, IF reader = "skills" THEN lineAt - 1 ELSE Len(textLines))
  /\ reader = "skills" => ContentAt(contentRead, 0)
  /\ reader = "content" => ContentAt(contentRead, lineAt - 1)
  /\ reader = "done" =>
       \A section \in Sections : SectionKept(contentRead, Len(textLines), section)

LEMMA TextInvInit == TextInit => TextInv
<1> SUFFICES ASSUME TextInit PROVE TextInv
  OBVIOUS
<1>1. textLines \in Seq(LineKind)
  BY DEF TextInit
<1>2. reader = "skills" /\ lineAt = 1 /\ lineAt \in 1..(Len(textLines) + 1) /\ lineAt - 1 = 0
  BY <1>1 DEF TextInit, ReaderInit
<1>3. SkillsAt(skillsRead, 0) /\ ContentAt(contentRead, 0)
  BY <1>1, NoLineDeclares, NoLineIsKept DEF TextInit, ReaderInit
<1> QED  BY <1>1, <1>2, <1>3 DEF TextInv, TextType

\* What is said of the lines to one of them is said of the text only.
LEMMA TextIsKept ==
  ASSUME textLines' = textLines, NEW state, NEW n
  PROVE  /\ SkillsAt(state, n)' <=> SkillsAt(state, n)
         /\ ContentAt(state, n)' <=> ContentAt(state, n)
         /\ \A section \in Sections :
              SectionKept(state, n, section)' <=> SectionKept(state, n, section)
<1>1. /\ \A k : UnderSkills(k)' <=> UnderSkills(k)
      /\ \A k : SkillsTo(k)' = SkillsTo(k)
      /\ SkillLines' = SkillLines
  BY DEF UnderSkills, SkillsTo, SkillHeadings, SkillOpenings, SkillLines, Under, Placed
<1>2. ASSUME NEW section
      PROVE  /\ \A k : UnderSection(section, k)' <=> UnderSection(section, k)
             /\ \A k : ContentTo(section, k)' = ContentTo(section, k)
  BY DEF UnderSection, ContentTo, ContentHeadings, OpeningsOf, LinesFor, Under, Placed
<1>3. /\ HeldTogether(state.declared, n)' <=> HeldTogether(state.declared, n)
      /\ DashesOpen(state.declared)' <=> DashesOpen(state.declared)
      /\ BreaksOff(n)' <=> BreaksOff(n)
  BY <1>1 DEF HeldTogether, DashesOpen, BreaksOff
<1>4. \A entries : BulletsOpen(entries)' <=> BulletsOpen(entries)
  BY DEF BulletsOpen
<1>5. SkillsAt(state, n)' <=> SkillsAt(state, n)
  BY <1>1, <1>3 DEF SkillsAt
<1>6. \A section : SectionAt(state, n, section)' <=> SectionAt(state, n, section)
  BY <1>2, <1>4 DEF SectionAt
<1>7. ContentAt(state, n)' <=> ContentAt(state, n)
  BY <1>6 DEF ContentAt
<1>8. \A section : SectionKept(state, n, section)' <=> SectionKept(state, n, section)
  BY <1>2, <1>4 DEF SectionKept
<1> QED  BY <1>5, <1>7, <1>8

LEMMA TextInvNext == TextInv /\ [TextNext]_textVars => TextInv'
<1> SUFFICES ASSUME TextInv, [TextNext]_textVars PROVE TextInv'
  OBVIOUS
<1>1. TextType /\ Len(textLines) \in Nat
  BY DEF TextInv, TextType
<1>2. CASE DeclareLine
  <2>1. PICK n, x : n = lineAt /\ x = DeclaresSkills(skillsRead, n)
    OBVIOUS
  <2>2. n \in 1..Len(textLines) /\ reader = "skills"
    BY <1>1, <1>2, <2>1 DEF DeclareLine, TextType
  <2>3. SkillsAt(skillsRead, n - 1)
    BY <2>1, <2>2 DEF TextInv
  <2>4. SkillsAt(x, n)
    BY <1>1, <2>1, <2>2, <2>3, LineDeclares DEF TextType
  <2>5. /\ textLines' = textLines /\ reader' = "skills" /\ lineAt' = n + 1
        /\ skillsRead' = x /\ contentRead' = contentRead
    BY <1>2, <2>1 DEF DeclareLine
  <2>6. lineAt' - 1 = n /\ lineAt' \in 1..(Len(textLines) + 1)
    BY <1>1, <2>2, <2>5
  <2>7. SkillsAt(x, n)' /\ (ContentAt(contentRead, 0) => ContentAt(contentRead, 0)')
    BY <2>4, <2>5, TextIsKept
  <2> QED  BY <1>1, <2>2, <2>5, <2>6, <2>7 DEF TextInv, TextType
<1>3. CASE SkillsAreRead
  <2>1. reader = "skills" /\ lineAt - 1 = Len(textLines)
    BY <1>1, <1>3 DEF SkillsAreRead, TextType
  <2>2. SkillsAt(skillsRead, Len(textLines)) /\ ContentAt(contentRead, 0)
    BY <2>1 DEF TextInv
  <2>3. /\ textLines' = textLines /\ reader' = "content" /\ lineAt' = 1
        /\ skillsRead' = skillsRead /\ contentRead' = contentRead
    BY <1>3 DEF SkillsAreRead
  <2>4. lineAt' - 1 = 0 /\ lineAt' \in 1..(Len(textLines) + 1)
    BY <1>1, <2>3
  <2>5. SkillsAt(skillsRead, Len(textLines))' /\ ContentAt(contentRead, 0)'
    BY <2>2, <2>3, TextIsKept
  <2> QED  BY <1>1, <2>3, <2>4, <2>5 DEF TextInv, TextType
<1>4. CASE KeepLine
  <2>1. PICK n, x : n = lineAt /\ x = ReadsLine(contentRead, n)
    OBVIOUS
  <2>2. n \in 1..Len(textLines) /\ reader = "content"
    BY <1>1, <1>4, <2>1 DEF KeepLine, TextType
  <2>3. ContentAt(contentRead, n - 1) /\ SkillsAt(skillsRead, Len(textLines))
    BY <2>1, <2>2 DEF TextInv
  <2>4. ContentAt(x, n)
    BY <1>1, <2>1, <2>2, <2>3, LineIsRead DEF TextType
  <2>5. /\ textLines' = textLines /\ reader' = "content" /\ lineAt' = n + 1
        /\ skillsRead' = skillsRead /\ contentRead' = x
    BY <1>4, <2>1, <2>2 DEF KeepLine
  <2>6. lineAt' - 1 = n /\ lineAt' \in 1..(Len(textLines) + 1)
    BY <1>1, <2>2, <2>5
  <2>7. ContentAt(x, n)' /\ SkillsAt(skillsRead, Len(textLines))'
    BY <2>3, <2>4, <2>5, TextIsKept
  <2> QED  BY <1>1, <2>5, <2>6, <2>7 DEF TextInv, TextType
<1>5. CASE ContentIsRead
  <2>1. reader = "content" /\ lineAt - 1 = Len(textLines)
    BY <1>1, <1>5 DEF ContentIsRead, TextType
  <2>2. PICK n, x : n = Len(textLines) /\ x = SectionEnds(contentRead)
    OBVIOUS
  <2>3. ContentAt(contentRead, n) /\ SkillsAt(skillsRead, n)
    BY <2>1, <2>2 DEF TextInv
  <2>4. \A section \in Sections : SectionKept(x, n, section)
    BY <2>2, <2>3, SectionIsKept
  <2>5. /\ textLines' = textLines /\ reader' = "done" /\ lineAt' = lineAt
        /\ skillsRead' = skillsRead /\ contentRead' = x
    BY <1>5, <2>2 DEF ContentIsRead
  <2>6. SkillsAt(skillsRead, n)' /\ \A section \in Sections : SectionKept(x, n, section)'
    BY <2>3, <2>4, <2>5, TextIsKept
  <2> QED  BY <1>1, <2>2, <2>5, <2>6 DEF TextInv, TextType
<1>6. CASE UNCHANGED textVars
  <2>1. /\ textLines' = textLines /\ reader' = reader /\ lineAt' = lineAt
        /\ skillsRead' = skillsRead /\ contentRead' = contentRead
    BY <1>6 DEF textVars
  <2>2. TextType'
    BY <1>1, <2>1 DEF TextType
  <2>3. PICK n, m, x, y :
          /\ n = (IF reader = "skills" THEN lineAt - 1 ELSE Len(textLines))
          /\ m = lineAt - 1 /\ x = skillsRead /\ y = contentRead
    OBVIOUS
  <2>4. /\ SkillsAt(x, n)' <=> SkillsAt(x, n)
        /\ ContentAt(y, 0)' <=> ContentAt(y, 0)
        /\ ContentAt(y, m)' <=> ContentAt(y, m)
        /\ \A section \in Sections :
             SectionKept(y, Len(textLines), section)' <=> SectionKept(y, Len(textLines), section)
    BY <2>1, TextIsKept
  <2> QED  BY <2>1, <2>2, <2>3, <2>4 DEF TextInv
<1> QED  BY <1>2, <1>3, <1>4, <1>5, <1>6 DEF TextNext

\* However the lines of a resume follow one another, and whatever either loop takes
\* them for, each line that is under a heading its loop knows is read once: of the
\* skills, with the line that completes it, when the first loop ends, and in its
\* section and its entry when the second does.
THEOREM ResumesAreReadWhole == TextSpec => []ResumeIsReadWhole
<1>1. TextInv => ResumeIsReadWhole
  <2>1. ASSUME SkillsAt(skillsRead, Len(textLines)), TextType PROVE WrappedSkillsAreWhole
    <3>1. ASSUME NEW n \in SkillsTo(Len(textLines)), n - 1 \in SkillsTo(Len(textLines)),
                 textLines[n - 1].bulleted, ~textLines[n - 1].listed, ~textLines[n].bulleted
          PROVE  \E e \in DOMAIN skillsRead.declared :
                   {n - 1, n} \subseteq ToSet(skillsRead.declared[e])
      <4>1. n \in 1..Len(textLines) /\ n - 1 \in 1..Len(textLines)
        BY <2>1, <3>1 DEF TextType, SkillsTo, Placed, SkillLines
      <4>2. n \in 2..Len(textLines)
        BY <4>1
      <4>3. BreaksOff(n - 1) /\ n \in SkillLines /\ UnderSkills(n)
        BY <3>1 DEF BreaksOff, SkillsTo, Placed, UnderSkills
      <4> QED  BY <2>1, <3>1, <4>2, <4>3 DEF SkillsAt, HeldTogether
    <3>2. /\ LinesOf(skillsRead.declared) = SkillsTo(Len(textLines))
          /\ InTextOrder(skillsRead.declared) /\ DashesOpen(skillsRead.declared)
      BY <2>1 DEF SkillsAt
    <3> QED  BY <3>1, <3>2 DEF DashesOpen, WrappedSkillsAreWhole
  <2>2. ASSUME \A section \in Sections : SectionKept(contentRead, Len(textLines), section)
        PROVE  LinesAreKeptInTheirSection /\ BulletsOpenEntries
    BY <2>2 DEF SectionKept, BulletsOpen, LinesAreKeptInTheirSection, BulletsOpenEntries
  <2> QED  BY <2>1, <2>2 DEF TextInv, ResumeIsReadWhole
<1> QED  BY <1>1, TextInvInit, TextInvNext, PTL DEF TextSpec
===============================================================================
