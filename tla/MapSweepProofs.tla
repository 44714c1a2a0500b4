--------------------------- MODULE MapSweepProofs ---------------------------
(***************************************************************************)
(* The sweep's iterator is valid after every call.                         *)
(***************************************************************************)
EXTENDS MapSweep, FiniteSetTheorems, WellFoundedInduction, TLAPS

(***************************************************************************)
(* Induction on natural numbers, in its least-element form                 *)
(***************************************************************************)
LEMMA LeastElement ==
    ASSUME NEW T, T \subseteq Nat, T # {}
    PROVE  \E m \in T : \A k \in T : m <= k
<1> DEFINE Initial(n) == 0 .. n
           I == {Initial(n) : n \in T}
<1>1. IsWellFoundedOn(StrictSubsetOrdering(Nat), FiniteSubsetsOf(Nat))
  BY FS_StrictSubsetOrderingWellFounded
<1>2. I \subseteq FiniteSubsetsOf(Nat)
  <2>1. \A n \in T : IsFiniteSet(0 .. n)
    BY FS_Interval
  <2> QED BY <2>1 DEF FiniteSubsetsOf
<1>3. I # {}
  OBVIOUS
<1> HIDE DEF I
<1>4. PICK x \in I : \A y \in I : ~(<<y, x>> \in StrictSubsetOrdering(Nat))
  BY <1>1, <1>2, <1>3, WFMin
<1> USE DEF I
<1>5. PICK m \in T : x = 0 .. m
  OBVIOUS
<1>6. \A k \in T : ~(k < m)
  <2> SUFFICES ASSUME NEW k \in T, k < m PROVE FALSE
    OBVIOUS
  <2>1. 0 .. k \in I
    OBVIOUS
  <2>2. 0 .. k \in SUBSET Nat /\ 0 .. m \in SUBSET Nat /\ 0 .. k \subseteq 0 .. m
    OBVIOUS
  <2>3. m \in 0 .. m /\ m \notin 0 .. k
    OBVIOUS
  <2> QED BY <2>1, <2>2, <2>3, <1>4, <1>5 DEF StrictSubsetOrdering
<1> QED BY <1>6

\* The usual form, for a set that has the numbers with the property.
LEMMA NatInSteps ==
    ASSUME NEW T, 0 \in T, \A n \in Nat : n \in T => n + 1 \in T
    PROVE  Nat \subseteq T
<1> SUFFICES ASSUME Nat \ T # {} PROVE FALSE
  OBVIOUS
<1>1. PICK m \in Nat \ T : \A k \in Nat \ T : m <= k
  BY LeastElement
<1>2. m # 0 /\ m - 1 \in Nat /\ m - 1 \notin Nat \ T
  BY <1>1
<1>3. (m - 1) + 1 \in T
  BY <1>2
<1> QED BY <1>1, <1>3

LEMMA UpToInSteps ==
    ASSUME NEW n \in Nat, NEW T, 0 \in T, \A i \in 1 .. n : i - 1 \in T => i \in T
    PROVE  0 .. n \subseteq T
<1> DEFINE S == {i \in Nat : i <= n => i \in T}
<1>1. 0 \in S
  OBVIOUS
<1>2. ASSUME NEW i \in Nat, i \in S PROVE i + 1 \in S
  <2> SUFFICES ASSUME i + 1 <= n PROVE i + 1 \in T
    OBVIOUS
  <2>1. i \in T /\ i + 1 \in 1 .. n /\ (i + 1) - 1 = i
    BY <1>2
  <2> QED BY <2>1
<1> HIDE DEF S
<1>3. Nat \subseteq S
  BY <1>1, <1>2, NatInSteps
<1> QED BY <1>3 DEF S

(***************************************************************************)
(* Recursion on the numbers up to n: from base, by step                    *)
(***************************************************************************)
IsRecursion(f, n, base, step) ==
    f = [i \in 0 .. n |-> IF i = 0 THEN base ELSE step[<<f[i - 1], i>>]]

\* It defines a function, if step stays in a set.
LEMMA RecursionDefines ==
    ASSUME NEW V, NEW n \in Nat, NEW base \in V, NEW step \in [V \X (1 .. n) -> V]
    PROVE  \E f \in [0 .. n -> V] : IsRecursion(f, n, base, step)
<1> DEFINE Is(f, k) == /\ f \in [0 .. k -> V]
                       /\ f[0] = base
                       /\ \A i \in 1 .. k : f[i] = step[<<f[i - 1], i>>]
           T == {k \in Nat : k <= n => \E f \in [0 .. k -> V] : Is(f, k)}
<1>1. 0 \in T
  <2> DEFINE f == [i \in 0 .. 0 |-> base]
  <2>1. Is(f, 0)
    OBVIOUS
  <2> QED BY <2>1
<1>2. ASSUME NEW k \in Nat, k \in T PROVE k + 1 \in T
  <2> SUFFICES ASSUME k + 1 <= n PROVE \E f \in [0 .. k + 1 -> V] : Is(f, k + 1)
    OBVIOUS
  <2>1. PICK f \in [0 .. k -> V] : Is(f, k)
    BY <1>2
  <2> DEFINE g == [i \in 0 .. k + 1 |-> IF i = k + 1 THEN step[<<f[k], k + 1>>] ELSE f[i]]
  <2>2. f[k] \in V /\ k + 1 \in 1 .. n
    OBVIOUS
  <2>3. step[<<f[k], k + 1>>] \in V
    BY <2>2
  <2>4. \A i \in 0 .. k + 1 : g[i] \in V
    BY <2>3
  <2>5. g[0] = base
    BY <2>1
  <2>6. ASSUME NEW i \in 1 .. k + 1 PROVE g[i] = step[<<g[i - 1], i>>]
    <3>1. i - 1 \in 0 .. k /\ g[i - 1] = f[i - 1]
      OBVIOUS
    <3>2. CASE i = k + 1
      <4>1. g[k + 1] = step[<<f[k], k + 1>>]
        OBVIOUS
      <4>2. i - 1 = k /\ g[i - 1] = f[k] /\ g[i] = g[k + 1]
        BY <3>1, <3>2
      <4> HIDE DEF g
      <4> QED BY <3>2, <4>1, <4>2
    <3>3. CASE i # k + 1
      <4>1. i \in 1 .. k /\ g[i] = f[i]
        BY <3>3
      <4> QED BY <2>1, <3>1, <4>1
    <3> QED BY <3>2, <3>3
  <2>7. g \in [0 .. k + 1 -> V]
    BY <2>4
  <2> HIDE DEF g
  <2> QED BY <2>5, <2>6, <2>7
<1> HIDE DEF Is
<1>3. n \in T
  BY <1>1, <1>2, NatInSteps
<1>4. PICK f \in [0 .. n -> V] : Is(f, n)
  BY <1>3
<1>5. f = [i \in 0 .. n |-> IF i = 0 THEN base ELSE step[<<f[i - 1], i>>]]
  <2>1. \A i \in 0 .. n : f[i] = IF i = 0 THEN base ELSE step[<<f[i - 1], i>>]
    BY <1>4 DEF Is
  <2>2. f = [i \in 0 .. n |-> f[i]]
    OBVIOUS
  <2> QED BY <2>1, <2>2
<1> QED BY <1>5 DEF IsRecursion

-----------------------------------------------------------------------------
\* The place the iterator moves to exists, and is a key of the map or end().
LEMMA FirstFromInMap ==
    ASSUME NEW S, S \subseteq Nat, NEW k \in Nat, k <= End
    PROVE  /\ FirstFrom(S, k) \in S \cup {End} /\ FirstFrom(S, k) >= k
           /\ \A b \in S : b >= k => FirstFrom(S, k) <= b
<1> DEFINE T == {a \in S \cup {End} : a >= k}
<1>1. T \subseteq Nat /\ T # {}
  BY EndAssumption
<1>2. PICK m \in T : \A a \in T : m <= a
  BY <1>1, LeastElement
<1>3. m \in S \cup {End} /\ m >= k /\ \A b \in S : b >= k => m <= b
  BY <1>2
<1> QED BY <1>3 DEF FirstFrom

\* An iterator at a key or at end() is, after a call that erases only keys it
\* goes through, at a key that is left or at end().
THEOREM PlaceAfterValid ==
    ASSUME NEW S, S \subseteq Nat, \A a \in S : a < End,
           NEW it \in S \cup {End}, NEW count,
           NEW erased, erased \subseteq VisitedFrom(S, it, count)
    PROVE  PlaceAfter(S, it, count, erased) \in (S \ erased) \cup {End}
<1> DEFINE visited == VisitedFrom(S, it, count)
<1>1. it \in Nat /\ it <= End
  BY EndAssumption
<1> HIDE DEF visited
<1>2. FirstFrom(S \ visited, it) \in (S \ visited) \cup {End}
  BY <1>1, FirstFromInMap
<1>3. FirstFrom(S \ erased, 0) \in (S \ erased) \cup {End}
  <2>1. S \ erased \subseteq Nat
    OBVIOUS
  <2>2. 0 \in Nat /\ 0 <= End
    BY EndAssumption
  <2> QED BY <2>1, <2>2, FirstFromInMap
<1> QED BY <1>2, <1>3 DEF PlaceAfter, visited

-----------------------------------------------------------------------------
(***************************************************************************)
(* How many calls it takes until the sweep comes to a key, when keys of U  *)
(* come and go around the iterator                                         *)
(***************************************************************************)
Rank(U, x) == Cardinality({u \in U : u < x})

\* At c keys a call, k is among those of the next d calls: from the iterator
\* on, or, if that is past k, in calls to the end and others from the beginning.
Calls(U, c, it, k, d) ==
    \/ it <= k /\ Rank(U, k) - Rank(U, it) < d * c
    \/ it > k /\ \E e \in Nat \ {0}, f \in Nat : /\ d = e + f
                                                 /\ Cardinality(U) - Rank(U, it) <= e * c
                                                 /\ Rank(U, k) < f * c

LEMMA RankType ==
    ASSUME NEW U, IsFiniteSet(U), U \subseteq Nat, NEW x \in Nat
    PROVE  /\ Rank(U, x) \in Nat /\ Cardinality(U) \in Nat /\ Rank(U, x) <= Cardinality(U)
           /\ x \in U => Rank(U, x) < Cardinality(U)
<1> DEFINE below == {u \in U : u < x}
<1>1. below \in SUBSET U /\ (x \in U => x \notin below)
  OBVIOUS
<1> HIDE DEF below
<1>2. IsFiniteSet(below) /\ Cardinality(below) <= Cardinality(U)
      /\ (Cardinality(U) = Cardinality(below) => U = below)
  BY <1>1, FS_Subset
<1>3. Cardinality(below) \in Nat /\ Cardinality(U) \in Nat
  BY <1>2, FS_CardinalityType
<1>4. Rank(U, x) = Cardinality(below)
  BY DEF Rank, below
<1> QED BY <1>1, <1>2, <1>3, <1>4

\* Between two places lie at least the keys that are there now.
LEMMA RankBetween ==
    ASSUME NEW U, IsFiniteSet(U), U \subseteq Nat, NEW S \in SUBSET U,
           NEW x \in Nat, NEW y \in Nat, x <= y
    PROVE  Rank(U, x) + Cardinality({b \in S : x <= b /\ b < y}) <= Rank(U, y)
<1> DEFINE low  == {u \in U : u < x}
           high == {u \in U : u < y}
           mid  == {b \in S : x <= b /\ b < y}
<1>1. /\ low \in SUBSET U /\ high \in SUBSET U /\ mid \in SUBSET U
      /\ low \cup mid \in SUBSET high /\ low \cap mid = {}
  <2>1. low \in SUBSET U /\ high \in SUBSET U /\ mid \in SUBSET U
    OBVIOUS
  <2>2. \A b \in low : b \in high /\ b \notin mid
    OBVIOUS
  <2>3. \A b \in mid : b \in high
    OBVIOUS
  <2> QED BY <2>1, <2>2, <2>3
<1>2. Rank(U, x) = Cardinality(low) /\ Rank(U, y) = Cardinality(high)
  BY DEF Rank
<1> HIDE DEF low, mid, high
<1>3. IsFiniteSet(low) /\ IsFiniteSet(mid) /\ IsFiniteSet(high)
  BY <1>1, FS_Subset
<1>4. Cardinality(low \cup mid) = Cardinality(low) + Cardinality(mid)
  <2>1. Cardinality(low \cup mid) = Cardinality(low) + Cardinality(mid) - Cardinality(low \cap mid)
    BY <1>3, FS_Union
  <2>2. Cardinality(low \cap mid) = 0
    BY <1>1, FS_EmptySet
  <2>3. Cardinality(low) \in Nat /\ Cardinality(mid) \in Nat
    BY <1>3, FS_CardinalityType
  <2> QED BY <2>1, <2>2, <2>3
<1>5. Cardinality(low \cup mid) <= Cardinality(high)
  BY <1>1, <1>3, FS_Subset
<1>6. Rank(U, x) + Cardinality(mid) <= Rank(U, y)
  BY <1>2, <1>4, <1>5
<1> QED BY <1>6 DEF mid

LEMMA RankMonotone ==
    ASSUME NEW U, IsFiniteSet(U), U \subseteq Nat, NEW x \in Nat, NEW y \in Nat, x <= y
    PROVE  Rank(U, x) <= Rank(U, y)
<1> DEFINE mid == {b \in U : x <= b /\ b < y}
<1>1. Rank(U, x) + Cardinality(mid) <= Rank(U, y)
  BY RankBetween
<1>2. mid \in SUBSET U
  OBVIOUS
<1> HIDE DEF mid
<1>3. Cardinality(mid) \in Nat
  BY <1>2, FS_Subset, FS_CardinalityType
<1>4. Rank(U, x) \in Nat /\ Rank(U, y) \in Nat
  BY RankType
<1> QED BY <1>1, <1>3, <1>4

\* A call that does not come to the end moves the iterator by count - 1 keys.
LEMMA CallAdvances ==
    ASSUME NEW U, IsFiniteSet(U), U \subseteq Nat, NEW S \in SUBSET U,
           NEW it \in Nat, NEW count \in Nat,
           NEW next \in S \ VisitedFrom(S, it, count), next >= it
    PROVE  Rank(U, it) + (count - 1) <= Rank(U, next)
<1> DEFINE passed == {b \in S : it <= b /\ b < next}
           upto   == {b \in S : it <= b /\ b <= next}
<1>1. ~(Cardinality(upto) < count)
  BY DEF VisitedFrom
<1>2. passed \in SUBSET U /\ upto = passed \cup {next} /\ next \notin passed /\ next \in Nat
  <2>1. passed \in SUBSET U /\ next \in S /\ next \in Nat /\ S \subseteq Nat
    OBVIOUS
  <2> HIDE DEF passed, upto
  <2>2. \A b : b \in passed <=> b \in S /\ it <= b /\ b < next
    BY DEF passed
  <2>3. \A b : b \in upto <=> b \in S /\ it <= b /\ b <= next
    BY DEF upto
  <2>4. next \notin passed
    BY <2>1, <2>2
  <2>5. \A b \in S : b <= next <=> b < next \/ b = next
    BY <2>1
  <2>6. upto = passed \cup {next}
    BY <2>1, <2>2, <2>3, <2>5
  <2> QED BY <2>1, <2>4, <2>6
<1> HIDE DEF passed, upto
<1>3. IsFiniteSet(passed)
  BY <1>2, FS_Subset
<1>4. Cardinality(upto) = Cardinality(passed) + 1 /\ Cardinality(passed) \in Nat
  BY <1>2, <1>3, FS_AddElement, FS_CardinalityType
<1>5. Rank(U, it) + Cardinality(passed) <= Rank(U, next)
  BY <1>2, RankBetween DEF passed
<1>6. Rank(U, it) \in Nat /\ Rank(U, next) \in Nat
  BY <1>2, RankType
<1> QED BY <1>1, <1>4, <1>5, <1>6

\* Every call brings the sweep closer to a key it does not visit.
LEMMA CallsCloser ==
    ASSUME NEW U, IsFiniteSet(U), U \subseteq Nat, \A u \in U : u < End, NEW S \in SUBSET U,
           NEW it \in S \cup {End}, NEW count \in Nat, count >= 2,
           NEW k \in S \ VisitedFrom(S, it, count),
           NEW erased, erased \subseteq VisitedFrom(S, it, count),
           NEW d \in Nat, Calls(U, count - 1, it, k, d)
    PROVE  \E g \in Nat : g < d /\ Calls(U, count - 1, PlaceAfter(S, it, count, erased), k, g)
<1> DEFINE visited == VisitedFrom(S, it, count)
           next    == FirstFrom(S \ visited, it)
           place   == PlaceAfter(S, it, count, erased)
           c       == count - 1
<1>1. it \in Nat /\ it <= End /\ k \in Nat /\ k < End /\ c \in Nat /\ c >= 1 /\ End \in Nat
  BY EndAssumption
<1>2. next \in (S \ visited) \cup {End} /\ next >= it /\ \A b \in S \ visited : b >= it => next <= b
  <2> HIDE DEF visited
  <2>1. S \ visited \subseteq Nat
    OBVIOUS
  <2> QED BY <1>1, <2>1, FirstFromInMap
<1>3. place = IF next = End THEN FirstFrom(S \ erased, 0) ELSE next
  BY DEF PlaceAfter
<1>4. k \in S \ visited /\ k \in S \ erased
  OBVIOUS
<1>5. next # End => Rank(U, it) + c <= Rank(U, next) /\ next \in U /\ next \in Nat
  <2> SUFFICES ASSUME next # End PROVE Rank(U, it) + c <= Rank(U, next) /\ next \in U /\ next \in Nat
    OBVIOUS
  <2>1. next \in S \ VisitedFrom(S, it, count)
    BY <1>2
  <2> QED BY <1>1, <1>2, <2>1, CallAdvances
<1>6. Rank(U, it) \in Nat /\ Rank(U, k) \in Nat /\ Cardinality(U) \in Nat
  BY <1>1, RankType
<1>7. CASE it <= k
  <2>1. Rank(U, k) - Rank(U, it) < d * c
    BY <1>1, <1>7 DEF Calls
  <2>2. next <= k /\ next # End
    BY <1>1, <1>2, <1>4, <1>7
  <2>3. Rank(U, it) <= Rank(U, k) /\ Rank(U, next) <= Rank(U, k) /\ Rank(U, next) \in Nat
    BY <1>1, <1>5, <1>7, <2>2, RankMonotone, RankType
  <2>4. d >= 1
    BY <1>1, <1>6, <2>1, <2>3
  <2>5. Rank(U, k) - Rank(U, next) < (d - 1) * c
    <3>1. (d - 1) * c = d * c - c
      BY <1>1
    <3>2. d * c \in Nat
      BY <1>1
    <3> HIDE DEF c, next
    <3> QED BY <1>1, <1>5, <1>6, <2>1, <2>2, <2>3, <3>1, <3>2
  <2>6. Calls(U, c, next, k, d - 1)
    BY <2>2, <2>5 DEF Calls
  <2> QED BY <1>3, <2>2, <2>4, <2>6
<1>8. CASE it > k
  <2>1. PICK e \in Nat \ {0}, f \in Nat : /\ d = e + f
                                          /\ Cardinality(U) - Rank(U, it) <= e * c
                                          /\ Rank(U, k) < f * c
    BY <1>1, <1>8 DEF Calls
  <2>2. CASE next = End
    <3>1. place = FirstFrom(S \ erased, 0)
      BY <1>3, <2>2
    <3>2. place \in Nat /\ place <= k
      <4>1. S \ erased \subseteq Nat /\ 0 \in Nat /\ 0 <= End
        <5>1. 0 <= End
          BY EndAssumption
        <5> QED BY <5>1
      <4>2. FirstFrom(S \ erased, 0) \in (S \ erased) \cup {End}
            /\ \A b \in S \ erased : b >= 0 => FirstFrom(S \ erased, 0) <= b
        BY <4>1, FirstFromInMap
      <4>3. FirstFrom(S \ erased, 0) \in Nat /\ FirstFrom(S \ erased, 0) <= k
        BY <1>1, <1>4, <4>1, <4>2
      <4> QED BY <3>1, <4>3
    <3>3. Rank(U, place) \in Nat
      BY <3>2, RankType
    <3> HIDE DEF place
    <3>4. Rank(U, k) - Rank(U, place) < f * c
      BY <1>1, <1>6, <2>1, <3>3
    <3>5. Calls(U, c, place, k, f)
      BY <3>2, <3>4 DEF Calls
    <3> QED BY <2>1, <3>5 DEF place
  <2>3. CASE next # End
    <3>1. Rank(U, next) < Cardinality(U) /\ Rank(U, next) \in Nat
      BY <1>5, <2>3, RankType
    <3>2. (e - 1) * c = e * c - c /\ e * c \in Nat
      BY <1>1
    <3>3. Cardinality(U) - Rank(U, next) <= (e - 1) * c
      <4> HIDE DEF c, next
      <4> QED BY <1>1, <1>5, <1>6, <2>1, <2>3, <3>1, <3>2
    <3>4. e - 1 # 0
      <4> HIDE DEF next
      <4> QED BY <1>1, <1>6, <3>1, <3>3
    <3>5. next > k
      BY <1>1, <1>2, <1>5, <1>8, <2>3
    <3>6. e - 1 \in Nat \ {0} /\ d - 1 = (e - 1) + f
      BY <2>1, <3>4
    <3>7. Calls(U, c, next, k, d - 1)
      BY <2>1, <3>3, <3>5, <3>6 DEF Calls
    <3> QED BY <1>3, <2>1, <2>3, <3>7
  <2> QED BY <2>2, <2>3
<1> QED BY <1>1, <1>7, <1>8

LEMMA CallsPositive ==
    ASSUME NEW U, IsFiniteSet(U), U \subseteq Nat, NEW it \in Nat, NEW k \in Nat,
           NEW c \in Nat, NEW d \in Nat, Calls(U, c, it, k, d)
    PROVE  d >= 1
<1>1. CASE it <= k
  <2>1. Rank(U, it) <= Rank(U, k) /\ Rank(U, it) \in Nat /\ Rank(U, k) \in Nat
    BY <1>1, RankMonotone, RankType
  <2>2. Rank(U, k) - Rank(U, it) < d * c
    BY <1>1 DEF Calls
  <2>3. d = 0 => d * c = 0
    OBVIOUS
  <2> QED BY <2>1, <2>2, <2>3
<1>2. CASE it > k
  BY <1>2 DEF Calls
<1> QED BY <1>1, <1>2

LEMMA Quotient ==
    ASSUME NEW n \in Nat, NEW c \in Nat \ {0}, NEW q, q = n \div c
    PROVE  q \in Nat /\ q * c <= n /\ n < q * c + c
OBVIOUS

\* From any place, a round of calls comes to every key.
LEMMA CallsBounded ==
    ASSUME NEW U, IsFiniteSet(U), U \subseteq Nat, \A u \in U : u < End,
           NEW it \in U \cup {End}, NEW k \in U, NEW c \in Nat \ {0},
           NEW size \in Nat, Cardinality(U) <= size,
           NEW d, d = (size + c - 1) \div c + 1
    PROVE  d \in Nat /\ Calls(U, c, it, k, d)
<1> DEFINE q == (size + c - 1) \div c
           r == Rank(U, k)
           p == r \div c
<1>1. q \in Nat /\ size <= q * c /\ q * c \in Nat
  <2>1. size + c - 1 \in Nat
    OBVIOUS
  <2>2. q \in Nat /\ q * c <= size + c - 1 /\ size + c - 1 < q * c + c
    BY <2>1, Quotient
  <2> HIDE DEF q
  <2> QED BY <2>2
<1>2. it \in Nat /\ k \in Nat
  BY EndAssumption
<1>3. r \in Nat /\ r < Cardinality(U) /\ Cardinality(U) \in Nat
      /\ Rank(U, it) \in Nat /\ Rank(U, it) <= Cardinality(U)
  BY <1>2, RankType
<1> HIDE DEF q, r
<1>4. p \in Nat /\ p * c <= r /\ r < p * c + c /\ p * c \in Nat
  <2>1. r \in Nat /\ c \in Nat \ {0} /\ p = r \div c
    BY <1>3
  <2> HIDE DEF p
  <2>2. p \in Nat /\ p * c <= r /\ r < p * c + c
    BY <2>1, Quotient
  <2> QED BY <2>2
<1> HIDE DEF p
<1>5. d = q + 1 /\ d * c = q * c + c
  BY <1>1 DEF q
<1>6. CASE it <= k
  <2>1. r - Rank(U, it) < d * c
    BY <1>1, <1>3, <1>5
  <2> QED BY <1>1, <1>5, <1>6, <2>1 DEF Calls, r
<1>7. CASE it > k
  <2>1. p < q
    <3>1. p * c < q * c
      BY <1>1, <1>3, <1>4
    <3>2. ASSUME p >= q PROVE FALSE
      <4>1. PICK x \in Nat : p = q + x
        BY <1>1, <1>4, <3>2, p - q \in Nat, p = q + (p - q)
      <4>2. p * c = q * c + x * c /\ x * c \in Nat
        BY <1>1, <4>1
      <4> QED BY <1>1, <3>1, <4>2
    <3> QED BY <1>1, <1>4, <3>2
  <2>2. (p + 1) * c = p * c + c /\ (q - p) * c = q * c - p * c
    BY <1>1, <1>4
  <2>3. r < (p + 1) * c
    BY <1>4, <2>2
  <2>4. Cardinality(U) - Rank(U, it) <= (q - p) * c
    <3>1. r <= Rank(U, it)
      <4>1. k <= it
        BY <1>2, <1>7
      <4> QED BY <1>2, <4>1, RankMonotone DEF r
    <3> QED BY <1>1, <1>3, <1>4, <2>2, <3>1
  <2>5. q - p \in Nat \ {0} /\ p + 1 \in Nat /\ d = (q - p) + (p + 1)
    BY <1>1, <1>4, <1>5, <2>1
  <2>6. d \in Nat
    BY <1>1, <1>5
  <2>7. \E e \in Nat \ {0}, f \in Nat : /\ d = e + f
                                       /\ Cardinality(U) - Rank(U, it) <= e * c
                                       /\ Rank(U, k) < f * c
    BY <2>3, <2>4, <2>5 DEF r
  <2> QED BY <1>7, <2>6, <2>7 DEF Calls
<1>8. it <= k \/ it > k
  BY <1>2
<1> QED BY <1>6, <1>7, <1>8

=============================================================================
