------------------------- MODULE TypesResponseProofs -------------------------
(***************************************************************************)
(* AllTypesSent and HalvesNearlyFit for every size of packets and every    *)
(* set of type names.                                                      *)
(***************************************************************************)
EXTENDS TypesResponse, SequenceTheorems, TLAPS

\* For recursion and induction on numbers, which are no matter of End.
Sweep == INSTANCE MapSweepProofs WITH End <- 0

-----------------------------------------------------------------------------
(***************************************************************************)
(* The bytes the names of a list take                                      *)
(***************************************************************************)

\* A list of names; the total does not matter here.
Names(list) == list.lengths \in Seq(Length)

IsSums(f, list) ==
    /\ f \in [0 .. Count(list) -> Nat]
    /\ f[0] = 0
    /\ \A k \in 1 .. Count(list) : f[k] = f[k - 1] + list.lengths[k] + 1

LEMMA CountType ==
    ASSUME NEW list, Names(list)
    PROVE  /\ Count(list) \in Nat
           /\ \A k \in 1 .. Count(list) : /\ list.lengths[k] \in Length
                                        /\ list.lengths[k] \in Nat /\ list.lengths[k] <= MaxString
<1>1. Count(list) \in Nat /\ \A k \in 1 .. Count(list) : list.lengths[k] \in Length
  BY DEF Names, Count
<1>2. \A n \in Length : n \in Nat /\ n <= MaxString
  BY SizeAssumption DEF MaxString
<1> QED BY <1>1, <1>2

LEMMA SumsDefined == ASSUME NEW list, Names(list) PROVE IsSums(Sums(list), list)
<1> DEFINE n == Count(list)
           Body(f) == [k \in 0 .. n |-> IF k = 0 THEN 0 ELSE f[k - 1] + list.lengths[k] + 1]
           step == [x \in Nat \X (1 .. n) |-> x[1] + list.lengths[x[2]] + 1]
<1>1. n \in Nat /\ \A k \in 1 .. n : list.lengths[k] \in Nat
  BY CountType
<1>2. step \in [Nat \X (1 .. n) -> Nat]
  <2>1. \A x \in Nat \X (1 .. n) : x[1] + list.lengths[x[2]] + 1 \in Nat
    BY <1>1
  <2> QED BY <2>1
<1>3. \A m \in Nat, k \in 1 .. n : step[<<m, k>>] = m + list.lengths[k] + 1
  OBVIOUS
<1> HIDE DEF step, n
<1>4. PICK f \in [0 .. n -> Nat] : Sweep!IsRecursion(f, n, 0, step)
  BY <1>1, <1>2, Sweep!RecursionDefines
<1>5. \A k \in 0 .. n : f[k] = IF k = 0 THEN 0 ELSE f[k - 1] + list.lengths[k] + 1
  <2>1. f = [k \in 0 .. n |-> IF k = 0 THEN 0 ELSE step[<<f[k - 1], k>>]]
    BY <1>4 DEF Sweep!IsRecursion
  <2>2. \A k \in 0 .. n : f[k] = IF k = 0 THEN 0 ELSE step[<<f[k - 1], k>>]
    BY <2>1
  <2>3. \A k \in 0 .. n : k # 0 => k - 1 \in 0 .. n /\ k \in 1 .. n
    BY <1>1
  <2>4. \A k \in 0 .. n : f[k] \in Nat
    OBVIOUS
  <2> QED BY <1>3, <2>2, <2>3, <2>4
<1>6. f = Body(f)
  <2>1. f = [k \in 0 .. n |-> f[k]]
    OBVIOUS
  <2> QED BY <1>5, <2>1
<1> DEFINE g == CHOOSE g : g = Body(g)
<1>7. g = Body(g)
  BY <1>6
<1>8. Sums(list) = g
  BY DEF Sums, n
<1> HIDE DEF g
<1>9. \A k \in 0 .. n : g[k] = IF k = 0 THEN 0 ELSE g[k - 1] + list.lengths[k] + 1
  BY <1>7
<1> DEFINE T == {k \in 0 .. n : g[k] \in Nat}
<1>10. 0 .. n \subseteq T
  <2>1. 0 \in T
    BY <1>1, <1>9
  <2>2. ASSUME NEW k \in 1 .. n, k - 1 \in T PROVE k \in T
    <3>1. k \in 0 .. n /\ k # 0 /\ g[k - 1] \in Nat /\ list.lengths[k] \in Nat
      BY <1>1, <2>2
    <3> QED BY <1>9, <3>1
  <2> HIDE DEF T
  <2> QED BY <1>1, <2>1, <2>2, Sweep!UpToInSteps
<1>11. DOMAIN g = 0 .. n /\ g = [k \in 0 .. n |-> g[k]]
  BY <1>7
<1>12. g \in [0 .. n -> Nat]
  BY <1>10, <1>11
<1> QED BY <1>1, <1>8, <1>9, <1>12 DEF IsSums, n

\* Lists that begin with the same names have the same sums there.
LEMMA SumsOfFront ==
    ASSUME NEW one, NEW two, Names(one), Names(two),
           NEW n \in 0 .. Count(one), n <= Count(two),
           \A k \in 1 .. n : one.lengths[k] = two.lengths[k]
    PROVE  \A k \in 0 .. n : Sums(one)[k] = Sums(two)[k]
<1> DEFINE T == {k \in 0 .. n : Sums(one)[k] = Sums(two)[k]}
<1>1. IsSums(Sums(one), one) /\ IsSums(Sums(two), two) /\ Count(one) \in Nat /\ Count(two) \in Nat
  BY SumsDefined, CountType
<1>2. 0 \in T
  BY <1>1 DEF IsSums
<1>3. ASSUME NEW k \in 1 .. n, k - 1 \in T PROVE k \in T
  <2>1. k \in 1 .. Count(one) /\ k \in 1 .. Count(two) /\ k \in 0 .. n
    BY <1>1
  <2>2. /\ Sums(one)[k] = Sums(one)[k - 1] + one.lengths[k] + 1
        /\ Sums(two)[k] = Sums(two)[k - 1] + two.lengths[k] + 1
    BY <1>1, <2>1 DEF IsSums
  <2> QED BY <1>3, <2>1, <2>2
<1> HIDE DEF T
<1>4. 0 .. n \subseteq T
  BY <1>1, <1>2, <1>3, Sweep!UpToInSteps
<1> QED BY <1>4 DEF T

\* The sums grow.
LEMMA SumsMonotone ==
    ASSUME NEW list, Names(list), NEW j \in 0 .. Count(list)
    PROVE  \A k \in j .. Count(list) : Sums(list)[j] + (k - j) <= Sums(list)[k]
<1> DEFINE sums == Sums(list)
           n == Count(list)
           T == {d \in 0 .. n - j : sums[j] + d <= sums[j + d]}
<1>1. IsSums(sums, list) /\ n \in Nat /\ n - j \in Nat /\ \A k \in 1 .. n : list.lengths[k] \in Nat
  <2>1. IsSums(sums, list)
    BY SumsDefined
  <2>2. n \in Nat /\ \A k \in 1 .. n : list.lengths[k] \in Nat
    BY CountType
  <2> QED BY <2>1, <2>2
<1>2. sums \in [0 .. n -> Nat] /\ \A k \in 1 .. n : sums[k] = sums[k - 1] + list.lengths[k] + 1
  BY <1>1 DEF IsSums
<1> HIDE DEF sums
<1>3. 0 \in T
  BY <1>1, <1>2
<1>4. ASSUME NEW d \in 1 .. n - j, d - 1 \in T PROVE d \in T
  <2>1. j + d \in 1 .. n /\ (j + d) - 1 \in 0 .. n /\ j + (d - 1) = (j + d) - 1 /\ j + d \in 0 .. n
    BY <1>1
  <2>2. sums[j] \in Nat /\ sums[(j + d) - 1] \in Nat /\ sums[j + d] = sums[(j + d) - 1] + list.lengths[j + d] + 1
    BY <1>2, <2>1
  <2>3. sums[j] + (d - 1) <= sums[(j + d) - 1]
    BY <1>4, <2>1
  <2>4. list.lengths[j + d] \in Nat
    BY <1>1, <2>1
  <2>5. sums[j] + d <= sums[j + d]
    BY <2>2, <2>3, <2>4
  <2> QED BY <1>1, <2>5
<1> HIDE DEF T
<1>5. 0 .. n - j \subseteq T
  BY <1>1, <1>3, <1>4, Sweep!UpToInSteps
<1>6. ASSUME NEW k \in j .. n PROVE sums[j] + (k - j) <= sums[k]
  <2>1. k - j \in T
    BY <1>1, <1>5
  <2> QED BY <1>1, <2>1 DEF T
<1> QED BY <1>6 DEF sums

\* A name more at the end, or one gone from the middle.
LEMMA SumsAfterPush ==
    ASSUME NEW list, Names(list), NEW n \in Length
    PROVE  /\ Names(Push(list, n))
           /\ Count(Push(list, n)) = Count(list) + 1
           /\ Sums(Push(list, n))[Count(list) + 1] = Sums(list)[Count(list)] + n + 1
<1> DEFINE more == Push(list, n)
           c == Count(list)
<1>1. /\ more.lengths = Append(list.lengths, n)
      /\ c \in Nat /\ c = Len(list.lengths)
  BY CountType DEF Push, Count
<1> HIDE DEF more
<1>2. Names(more) /\ Count(more) = c + 1
  BY <1>1, AppendProperties DEF Names, Count
<1>3. \A k \in 1 .. c : more.lengths[k] = list.lengths[k]
  BY <1>1, AppendProperties DEF Names
<1>4. more.lengths[c + 1] = n
  BY <1>1, AppendProperties DEF Names
<1> HIDE DEF c
<1>5. c \in 0 .. Count(more) /\ c <= Count(list) /\ Count(list) = c
  BY <1>1, <1>2 DEF c
<1>6. Sums(more)[c] = Sums(list)[c]
  BY <1>1, <1>2, <1>3, <1>5, SumsOfFront
<1>7. Sums(more)[c + 1] = Sums(more)[(c + 1) - 1] + more.lengths[c + 1] + 1
  BY <1>1, <1>2, SumsDefined DEF IsSums
<1>8. (c + 1) - 1 = c
  BY <1>1
<1> QED BY <1>2, <1>4, <1>6, <1>7, <1>8 DEF more, c

LEMMA SumsAfterDrop ==
    ASSUME NEW list, Names(list), NEW i \in 1 .. Count(list)
    PROVE  /\ Names(Drop(list, i))
           /\ Count(Drop(list, i)) = Count(list) - 1
           /\ Sums(Drop(list, i))[Count(list) - 1] = Sums(list)[Count(list)] - list.lengths[i] - 1
<1> DEFINE fewer == Drop(list, i)
           c == Count(list)
           front == SubSeq(list.lengths, 1, i - 1)
           back  == SubSeq(list.lengths, i + 1, Len(list.lengths))
<1>1. c \in Nat /\ c = Len(list.lengths) /\ i \in 1 .. c /\ \A k \in 1 .. c : list.lengths[k] \in Length
  BY CountType DEF Count
<1>2. fewer.lengths = front \o back
  BY DEF Drop
<1>3. /\ front \in Seq(Length) /\ Len(front) = i - 1
      /\ \A k \in 1 .. i - 1 : front[k] = list.lengths[k]
  <2>1. \A k \in 1 .. i - 1 : list.lengths[k] \in Length
    BY <1>1
  <2>2. front \in Seq(Length) /\ Len(front) = (IF 1 <= i - 1 THEN (i - 1) - 1 + 1 ELSE 0)
        /\ \A k \in 1 .. (i - 1) - 1 + 1 : front[k] = list.lengths[1 + k - 1]
    BY <1>1, <2>1, SubSeqProperties
  <2> QED BY <1>1, <2>2
<1>4. /\ back \in Seq(Length) /\ Len(back) = c - i
      /\ \A k \in 1 .. c - i : back[k] = list.lengths[i + k]
  <2>1. \A k \in i + 1 .. c : list.lengths[k] \in Length
    BY <1>1
  <2>2. back \in Seq(Length) /\ Len(back) = (IF i + 1 <= c THEN c - (i + 1) + 1 ELSE 0)
        /\ \A k \in 1 .. c - (i + 1) + 1 : back[k] = list.lengths[(i + 1) + k - 1]
    BY <1>1, <2>1, SubSeqProperties
  <2>3. c - (i + 1) + 1 = c - i /\ \A k \in 1 .. c - i : (i + 1) + k - 1 = i + k
    BY <1>1
  <2> QED BY <1>1, <2>2, <2>3
<1> HIDE DEF fewer, front, back
<1>5. Names(fewer) /\ Count(fewer) = c - 1
  <2>1. fewer.lengths \in Seq(Length) /\ Len(fewer.lengths) = Len(front) + Len(back)
    BY <1>2, <1>3, <1>4, ConcatProperties
  <2>2. Len(front) + Len(back) = c - 1
    BY <1>1, <1>3, <1>4
  <2> QED BY <2>1, <2>2 DEF Names, Count
<1>6. \A k \in 1 .. c - 1 : fewer.lengths[k] = IF k < i THEN list.lengths[k] ELSE list.lengths[k + 1]
  <2> SUFFICES ASSUME NEW k \in 1 .. c - 1
               PROVE  fewer.lengths[k] = IF k < i THEN list.lengths[k] ELSE list.lengths[k + 1]
    OBVIOUS
  <2>1. fewer.lengths[k] = IF k <= Len(front) THEN front[k] ELSE back[k - Len(front)]
    BY <1>1, <1>2, <1>3, <1>4, ConcatProperties
  <2>2. CASE k < i
    BY <1>1, <1>3, <2>1, <2>2
  <2>3. CASE ~(k < i)
    <3>1. k - (i - 1) \in 1 .. c - i /\ i + (k - (i - 1)) = k + 1 /\ ~(k <= i - 1)
      BY <1>1, <2>3
    <3> QED BY <1>3, <1>4, <2>1, <2>3, <3>1
  <2> QED BY <2>2, <2>3
<1>7. IsSums(Sums(list), list) /\ IsSums(Sums(fewer), fewer)
  BY <1>5, SumsDefined
<1>8. Sums(fewer)[i - 1] = Sums(list)[i - 1]
  <2>1. i - 1 \in 0 .. Count(fewer) /\ i - 1 <= Count(list) /\ i - 1 \in 0 .. i - 1
        /\ \A k \in 1 .. i - 1 : fewer.lengths[k] = list.lengths[k]
    BY <1>1, <1>5, <1>6
  <2> QED BY <1>5, <2>1, SumsOfFront
<1> DEFINE T == {d \in 0 .. c - i : Sums(fewer)[i - 1 + d] = Sums(list)[i + d] - list.lengths[i] - 1}
<1>9. /\ \A k \in 0 .. c : Sums(list)[k] \in Int
      /\ \A k \in 1 .. c : Sums(list)[k] = Sums(list)[k - 1] + list.lengths[k] + 1
      /\ \A k \in 1 .. c - 1 : Sums(fewer)[k] = Sums(fewer)[k - 1] + fewer.lengths[k] + 1
      /\ \A k \in 1 .. c : list.lengths[k] \in Int
  <2>1. \A k \in 1 .. c : list.lengths[k] \in Int
    BY CountType
  <2>2. /\ \A k \in 0 .. c : Sums(list)[k] \in Int
        /\ \A k \in 1 .. c : Sums(list)[k] = Sums(list)[k - 1] + list.lengths[k] + 1
    BY <1>7 DEF IsSums
  <2>3. \A k \in 1 .. c - 1 : Sums(fewer)[k] = Sums(fewer)[k - 1] + fewer.lengths[k] + 1
    BY <1>5, <1>7 DEF IsSums
  <2> QED BY <2>1, <2>2, <2>3
<1> HIDE DEF c
<1>10. 0 \in T
  <2>1. Sums(list)[i] = Sums(list)[i - 1] + list.lengths[i] + 1 /\ Sums(list)[i - 1] \in Int /\ list.lengths[i] \in Int
    BY <1>1, <1>9
  <2>2. Sums(fewer)[i - 1] = Sums(list)[i] - list.lengths[i] - 1
    BY <1>8, <2>1
  <2> QED BY <1>1, <2>2
<1>11. ASSUME NEW d \in 1 .. c - i, d - 1 \in T PROVE d \in T
  <2>1. /\ i - 1 + d \in 1 .. c - 1 /\ (i - 1 + d) - 1 = i - 1 + (d - 1) /\ ~(i - 1 + d < i)
        /\ (i - 1 + d) + 1 = i + d /\ i + d \in 1 .. c /\ (i + d) - 1 = i + (d - 1) /\ i + (d - 1) \in 0 .. c
    BY <1>1
  <2>2. Sums(fewer)[i - 1 + (d - 1)] = Sums(list)[i + (d - 1)] - list.lengths[i] - 1
    BY <1>11
  <2>3. Sums(fewer)[i - 1 + d] = Sums(fewer)[i - 1 + (d - 1)] + list.lengths[i + d] + 1
    BY <1>6, <1>9, <2>1
  <2>4. Sums(list)[i + d] = Sums(list)[i + (d - 1)] + list.lengths[i + d] + 1
    BY <1>9, <2>1
  <2>5. Sums(list)[i + (d - 1)] \in Int /\ list.lengths[i + d] \in Int /\ list.lengths[i] \in Int
    BY <1>1, <1>9, <2>1
  <2>6. Sums(fewer)[i - 1 + d] = Sums(list)[i + d] - list.lengths[i] - 1
    BY <2>2, <2>3, <2>4, <2>5
  <2> QED BY <1>1, <2>6
<1>12. c - i \in Nat
  BY <1>1
<1> HIDE DEF T
<1>13. c - i \in T
  <2>1. 0 .. c - i \subseteq T
    BY <1>10, <1>11, <1>12, Sweep!UpToInSteps
  <2> QED BY <1>12, <2>1
<1>14. i - 1 + (c - i) = c - 1 /\ i + (c - i) = c
  BY <1>1
<1>15. Sums(fewer)[c - 1] = Sums(list)[c] - list.lengths[i] - 1
  BY <1>13, <1>14 DEF T
<1> QED BY <1>5, <1>15 DEF fewer, c

-----------------------------------------------------------------------------
(***************************************************************************)
(* The running total is what the names take                                *)
(***************************************************************************)
TotalKept(list) == /\ Names(list)
                   /\ list.totalSize \in Int
                   /\ list.totalSize + Count(list) = Sums(list)[Count(list)]

TypesInv == TotalKept(game) /\ TotalKept(mission)

LEMMA NoTypesKept == TotalKept(NoTypes)
<1>1. NoTypes.lengths = <<>> /\ NoTypes.totalSize = 0
  BY DEF NoTypes
<1>2. Names(NoTypes) /\ Count(NoTypes) = 0
  BY <1>1, EmptySeq DEF Names, Count
<1>3. Sums(NoTypes)[0] = 0
  BY <1>2, SumsDefined DEF IsSums
<1> QED BY <1>1, <1>2, <1>3 DEF TotalKept

LEMMA PushKeeps ==
    ASSUME NEW list, TotalKept(list), NEW n \in Length
    PROVE  TotalKept(Push(list, n))
<1>1. Push(list, n).totalSize = list.totalSize + n /\ n \in Nat
  BY SizeAssumption DEF Push, MaxString
<1>2. Count(list) \in Nat
  BY CountType DEF TotalKept
<1>3. /\ Names(Push(list, n)) /\ Count(Push(list, n)) = Count(list) + 1
      /\ Sums(Push(list, n))[Count(list) + 1] = Sums(list)[Count(list)] + n + 1
  BY SumsAfterPush DEF TotalKept
<1> QED BY <1>1, <1>2, <1>3 DEF TotalKept

LEMMA DropKeeps ==
    ASSUME NEW list, TotalKept(list), NEW i \in DOMAIN list.lengths
    PROVE  TotalKept(Drop(list, i))
<1>1. i \in 1 .. Count(list) /\ Count(list) \in Nat /\ list.lengths[i] \in Nat
  BY CountType DEF TotalKept, Names, Count
<1>2. Drop(list, i).totalSize = list.totalSize - list.lengths[i]
  BY DEF Drop
<1>3. /\ Names(Drop(list, i)) /\ Count(Drop(list, i)) = Count(list) - 1
      /\ Sums(Drop(list, i))[Count(list) - 1] = Sums(list)[Count(list)] - list.lengths[i] - 1
  BY <1>1, SumsAfterDrop DEF TotalKept
<1> QED BY <1>1, <1>2, <1>3 DEF TotalKept

LEMMA TypesInvHolds == Spec => []TypesInv
<1>1. Init => TypesInv
  BY NoTypesKept DEF Init, TypesInv
<1>2. TypesInv /\ [Next]_vars => TypesInv'
  <2> SUFFICES ASSUME TypesInv, [Next]_vars PROVE TotalKept(game)' /\ TotalKept(mission)'
    BY DEF TypesInv
  <2>1. CASE Add
    BY <2>1, PushKeeps DEF Add, TypesInv
  <2>2. CASE Remove
    BY <2>2, DropKeeps DEF Remove, TypesInv
  <2>3. CASE UNCHANGED vars
    BY <2>3 DEF vars, TypesInv
  <2> QED BY <2>1, <2>2, <2>3 DEF Next
<1> QED BY <1>1, <1>2, PTL DEF Spec

-----------------------------------------------------------------------------
(***************************************************************************)
(* Which names are sent                                                    *)
(***************************************************************************)
LEMMA PayloadType == /\ PayloadSize \in Nat /\ PayloadSize + HeaderSize = MaxPacketSize
                     /\ PayloadSize \div 2 \in Nat
                     /\ (PayloadSize \div 2) + (PayloadSize \div 2) <= PayloadSize
<1>1. PayloadSize \in Nat /\ PayloadSize + HeaderSize = MaxPacketSize
  BY SizeAssumption DEF PayloadSize, HeaderSize
<1> QED BY <1>1

LEMMA FittingFits ==
    ASSUME NEW list, Names(list), NEW limit \in Nat
    PROVE  /\ Fitting(list, limit) \in 0 .. Count(list)
           /\ BytesOf(list, Fitting(list, limit)) <= limit
<1> DEFINE sums == Sums(list)
           c == Count(list)
           Full == {n \in 0 .. c : n < c => sums[n + 1] > limit}
<1>1. IsSums(sums, list) /\ c \in Nat
  BY SumsDefined, CountType
<1>2. sums[0] = 0 /\ \A k \in 0 .. c : sums[k] \in Nat
  BY <1>1 DEF IsSums
<1> HIDE DEF sums
<1>3. c \in Full /\ Full \subseteq Nat
  BY <1>1
<1> HIDE DEF Full
<1>4. PICK n \in Full : \A k \in Full : n <= k
  BY <1>3, Sweep!LeastElement
<1>5. n \in 0 .. c /\ (n < c => sums[n + 1] > limit)
  BY <1>4 DEF Full
<1>6. sums[n] <= limit
  <2>1. CASE n = 0
    BY <1>2, <2>1
  <2>2. CASE n # 0
    <3>1. n - 1 \in 0 .. c /\ n - 1 < c /\ (n - 1) + 1 = n /\ ~(n <= n - 1)
      BY <1>1, <1>5, <2>2
    <3>2. n - 1 \notin Full
      BY <1>4, <3>1
    <3>3. ~(sums[n] > limit)
      BY <3>1, <3>2 DEF Full
    <3>4. sums[n] \in Nat
      BY <1>2, <1>5
    <3> QED BY <3>3, <3>4
  <2> QED BY <2>1, <2>2
<1>7. \E m \in 0 .. Count(list) : /\ BytesOf(list, m) <= limit
                                  /\ m < Count(list) => BytesOf(list, m + 1) > limit
  BY <1>5, <1>6 DEF BytesOf, sums
<1> QED BY <1>7 DEF Fitting

\* What is sent of a list: all, or names for half of the payload.
LEMMA SentFits ==
    ASSUME NEW list, Names(list)
    PROVE  /\ Sent(list) \in 0 .. Count(list)
           /\ TooMuch => Sums(list)[Sent(list)] <= PayloadSize \div 2
           /\ ~TooMuch => Sent(list) = Count(list)
<1>1. Count(list) \in 0 .. Count(list)
  BY CountType
<1>2. CASE TooMuch
  BY <1>2, FittingFits, PayloadType DEF Sent, BytesOf
<1>3. CASE ~TooMuch
  BY <1>1, <1>3 DEF Sent
<1> QED BY <1>2, <1>3

-----------------------------------------------------------------------------
(***************************************************************************)
(* Writing                                                                 *)
(***************************************************************************)

\* A packet of the answer, and one that nothing has failed in.
Packets == [size : {MaxPacketSize}, length : Nat, statusOK : BOOLEAN]

Filled(length) == [size |-> MaxPacketSize, length |-> length, statusOK |-> TRUE]

LEMMA WritesMove ==
    ASSUME NEW p \in Packets, NEW n \in Nat
    PROVE  /\ WriteBytes(p, n) = IF n = 0 THEN p ELSE Moved(p, n)
           /\ WriteU8(p) = IF p.length < MaxPacketSize THEN Moved(p, 1) ELSE Failed(p)
<1>1. p.length \in Nat /\ p.size = MaxPacketSize /\ MaxPacketSize \in Nat
  BY SizeAssumption DEF Packets
<1>2. n # 0 => Negated(p.length + n) = 0
  BY <1>1 DEF Negated
<1>3. ~(0 > p.size)
  BY <1>1
<1> QED BY <1>1, <1>2, <1>3 DEF WriteBytes, WriteU8

LEMMA MovedType ==
    ASSUME NEW p \in Packets, NEW n \in Nat
    PROVE  /\ Moved(p, n) \in Packets /\ Moved(p, n).length = p.length + n
           /\ Failed(p) \in Packets /\ Failed(p).length = p.length
<1>1. /\ p.size \in {MaxPacketSize} /\ p.length \in Nat /\ p.statusOK \in BOOLEAN
  BY DEF Packets
<1>2. p.length + n \in Nat
  BY <1>1
<1> QED BY <1>1, <1>2 DEF Moved, Failed, Packets

LEMMA FilledMoves ==
    ASSUME NEW length \in Nat, NEW n \in Nat
    PROVE  /\ Filled(length) \in Packets
           /\ WriteBytes(Filled(length), n) = Filled(length + n)
           /\ length < MaxPacketSize => WriteU8(Filled(length)) = Filled(length + 1)
<1>1. Filled(length) \in Packets
  BY DEF Filled, Packets
<1>2. Filled(length).length = length /\ length + 0 = length
  BY DEF Filled
<1>3. \A m \in Nat : Moved(Filled(length), m) = Filled(length + m)
  BY DEF Moved, Filled
<1>4. CASE n = 0
  BY <1>1, <1>2, <1>3, <1>4, WritesMove
<1>5. CASE n # 0
  BY <1>1, <1>2, <1>3, <1>5, WritesMove
<1> QED BY <1>1, <1>4, <1>5

\* A name takes a byte more than its characters, unless there was no room for that.
LEMMA NameWritten ==
    ASSUME NEW p \in Packets, NEW n \in Nat, n <= MaxString
    PROVE  WriteCString(p, n) \in Packets /\ WriteCString(p, n).length <= p.length + n + 1
<1> DEFINE q == WriteU8(p)
<1>1. q \in Packets /\ q.length \in Nat /\ q.length <= p.length + 1
  <2>1. p.length \in Nat
    BY DEF Packets
  <2> QED BY <2>1, WritesMove, MovedType DEF Packets
<1>2. WriteCString(p, n) = WriteBytes(q, n)
  BY DEF WriteCString, MaxString
<1> HIDE DEF q
<1>3. WriteBytes(q, n) = IF n = 0 THEN q ELSE Moved(q, n)
  BY <1>1, WritesMove
<1>4. WriteBytes(q, n) \in Packets /\ WriteBytes(q, n).length = q.length + n
  BY <1>1, <1>3, MovedType
<1>5. p.length \in Nat
  BY DEF Packets
<1> QED BY <1>1, <1>2, <1>4, <1>5

LEMMA NameWrittenExactly ==
    ASSUME NEW length \in Nat, NEW n \in Nat, n <= MaxString, length < MaxPacketSize
    PROVE  WriteCString(Filled(length), n) = Filled(length + n + 1)
<1>1. WriteU8(Filled(length)) = Filled(length + 1)
  BY FilledMoves
<1>2. WriteBytes(Filled(length + 1), n) = Filled((length + 1) + n) /\ (length + 1) + n = length + n + 1
  BY FilledMoves
<1>3. ~(n > MaxString)
  BY DEF MaxString
<1> QED BY <1>1, <1>2, <1>3 DEF WriteCString

LEMMA HeaderWritten == WriteHeader(NewPacket(MaxPacketSize)) = Filled(HeaderSize)
<1>1. NewPacket(MaxPacketSize) = Filled(0)
  BY DEF NewPacket, Filled
<1>2. WriteU8(Filled(0)) = Filled(1) /\ WriteU8(Filled(1)) = Filled(2)
  <2>1. 0 < MaxPacketSize /\ 1 < MaxPacketSize /\ 0 + 1 = 1 /\ 1 + 1 = 2
    BY SizeAssumption DEF HeaderSize
  <2> QED BY <2>1, FilledMoves
<1>3. WriteU16(Filled(2)) = Filled(4) /\ WriteU16(Filled(4)) = Filled(6)
  BY FilledMoves DEF WriteU16
<1> QED BY <1>1, <1>2, <1>3 DEF WriteHeader, HeaderSize

\* The packet after each name.
AreWrites(f, p, list) ==
    /\ f[0] = WriteU8(p)
    /\ \A k \in 1 .. Sent(list) : f[k] = WriteCString(f[k - 1], list.lengths[k])

LEMMA WritesDefined ==
    ASSUME NEW list, Names(list), NEW p \in Packets
    PROVE  \E f : AreWrites(f, p, list) /\ WriteTypes(p, list) = f[Sent(list)]
<1> DEFINE n == Sent(list)
           Body(f) == [k \in 0 .. n |-> IF k = 0 THEN WriteU8(p)
                                        ELSE WriteCString(f[k - 1], list.lengths[k])]
           step == [x \in Packets \X (1 .. n) |-> WriteCString(x[1], list.lengths[x[2]])]
<1>1. n \in Nat /\ \A k \in 1 .. n : list.lengths[k] \in Nat /\ list.lengths[k] <= MaxString
  BY CountType, SentFits
<1>2. WriteU8(p) \in Packets
  BY WritesMove, MovedType
<1>3. step \in [Packets \X (1 .. n) -> Packets]
  <2>1. \A x \in Packets \X (1 .. n) : WriteCString(x[1], list.lengths[x[2]]) \in Packets
    BY <1>1, NameWritten
  <2> QED BY <2>1
<1>4. \A q \in Packets, k \in 1 .. n : step[<<q, k>>] = WriteCString(q, list.lengths[k])
  OBVIOUS
<1> HIDE DEF step, n
<1>5. PICK f \in [0 .. n -> Packets] : Sweep!IsRecursion(f, n, WriteU8(p), step)
  BY <1>1, <1>2, <1>3, Sweep!RecursionDefines
<1>6. f = Body(f)
  <2>1. f = [k \in 0 .. n |-> IF k = 0 THEN WriteU8(p) ELSE step[<<f[k - 1], k>>]]
    BY <1>5 DEF Sweep!IsRecursion
  <2>2. \A k \in 0 .. n : f[k] = IF k = 0 THEN WriteU8(p) ELSE step[<<f[k - 1], k>>]
    BY <2>1
  <2>3. \A k \in 0 .. n : k # 0 => k - 1 \in 0 .. n /\ k \in 1 .. n
    BY <1>1
  <2>4. \A k \in 0 .. n : f[k] = IF k = 0 THEN WriteU8(p) ELSE WriteCString(f[k - 1], list.lengths[k])
    BY <1>4, <2>2, <2>3
  <2>5. f = [k \in 0 .. n |-> f[k]]
    OBVIOUS
  <2> QED BY <2>4, <2>5
<1> DEFINE g == CHOOSE g : g = Body(g)
<1>7. g = Body(g)
  BY <1>6
<1>8. WriteTypes(p, list) = g[n]
  BY DEF WriteTypes, n
<1> HIDE DEF g
<1>9. AreWrites(g, p, list)
  <2>1. \A k \in 0 .. n : g[k] = IF k = 0 THEN WriteU8(p) ELSE WriteCString(g[k - 1], list.lengths[k])
    BY <1>7
  <2>2. 0 \in 0 .. n /\ \A k \in 1 .. n : k \in 0 .. n /\ k # 0
    BY <1>1
  <2> QED BY <2>1, <2>2 DEF AreWrites, n
<1> QED BY <1>8, <1>9 DEF n

\* A list takes its count byte and what its names take, or less.
LEMMA TypesWritten ==
    ASSUME NEW list, Names(list), NEW p \in Packets
    PROVE  /\ WriteTypes(p, list) \in Packets
           /\ WriteTypes(p, list).length <= p.length + 1 + Sums(list)[Sent(list)]
<1> DEFINE n == Sent(list)
           sums == Sums(list)
<1>1. PICK f : AreWrites(f, p, list) /\ WriteTypes(p, list) = f[n]
  BY WritesDefined
<1>2. /\ n \in Nat
      /\ \A k \in 1 .. n : list.lengths[k] \in Nat /\ list.lengths[k] <= MaxString
      /\ sums[0] = 0
      /\ \A k \in 0 .. n : sums[k] \in Nat
      /\ \A k \in 1 .. n : sums[k] = sums[k - 1] + list.lengths[k] + 1
  <2>1. n \in 0 .. Count(list) /\ Count(list) \in Nat
    BY CountType, SentFits
  <2>2. IsSums(sums, list)
    BY SumsDefined
  <2> HIDE DEF sums, n
  <2>3. sums \in [0 .. Count(list) -> Nat]
        /\ \A k \in 1 .. Count(list) : sums[k] = sums[k - 1] + list.lengths[k] + 1
    BY <2>2 DEF IsSums
  <2>4. \A k \in 0 .. n : k \in 0 .. Count(list)
    BY <2>1
  <2>5. \A k \in 1 .. n : k \in 1 .. Count(list)
    BY <2>1
  <2> QED BY <2>1, <2>2, <2>3, <2>4, <2>5, CountType DEF IsSums
<1> DEFINE T == {k \in 0 .. n : f[k] \in Packets /\ f[k].length <= p.length + 1 + sums[k]}
<1>3. p.length \in Nat
  BY DEF Packets
<1>4. 0 \in T
  <2>1. f[0] \in Packets /\ f[0].length <= p.length + 1
    <3>1. f[0] = WriteU8(p)
      BY <1>1 DEF AreWrites
    <3>2. f[0] \in {Moved(p, 1), Failed(p)}
      BY <3>1 DEF WriteU8
    <3>3. /\ Moved(p, 1) \in Packets /\ Moved(p, 1).length = p.length + 1
          /\ Failed(p) \in Packets /\ Failed(p).length = p.length
      BY MovedType
    <3> HIDE DEF T, n, sums
    <3>4. CASE f[0] = Moved(p, 1)
      BY <1>3, <3>3, <3>4
    <3>5. CASE f[0] = Failed(p)
      BY <1>3, <3>3, <3>5
    <3> QED BY <3>2, <3>4, <3>5
  <2> QED BY <1>2, <1>3, <2>1
<1>5. ASSUME NEW k \in 1 .. n, k - 1 \in T PROVE k \in T
  <2>1. f[k - 1] \in Packets /\ f[k - 1].length <= p.length + 1 + sums[k - 1] /\ f[k - 1].length \in Nat
    BY <1>5 DEF Packets
  <2>2. f[k] = WriteCString(f[k - 1], list.lengths[k])
    BY <1>1 DEF AreWrites
  <2>3. f[k] \in Packets /\ f[k].length <= f[k - 1].length + list.lengths[k] + 1 /\ f[k].length \in Nat
    BY <1>2, <2>1, <2>2, NameWritten DEF Packets
  <2>4. sums[k] = sums[k - 1] + list.lengths[k] + 1 /\ list.lengths[k] \in Nat /\ sums[k - 1] \in Nat
    BY <1>2
  <2>5. f[k].length <= p.length + 1 + sums[k]
    BY <1>3, <2>1, <2>3, <2>4
  <2> QED BY <1>2, <2>3, <2>5
<1> HIDE DEF T, n
<1>6. n \in T
  BY <1>2, <1>4, <1>5, Sweep!UpToInSteps
<1> QED BY <1>1, <1>6 DEF T, n

\* Where all names have room, they are written and nothing fails.
LEMMA TypesWrittenExactly ==
    ASSUME NEW list, Names(list), Sent(list) = Count(list), NEW length \in Nat,
           length + 1 + Sums(list)[Count(list)] <= MaxPacketSize
    PROVE  WriteTypes(Filled(length), list) = Filled(length + 1 + Sums(list)[Count(list)])
<1> DEFINE n == Count(list)
           sums == Sums(list)
<1>1. Filled(length) \in Packets
  BY FilledMoves
<1>2. PICK f : AreWrites(f, Filled(length), list) /\ WriteTypes(Filled(length), list) = f[n]
  BY <1>1, WritesDefined
<1>3. /\ n \in Nat
      /\ \A k \in 1 .. n : list.lengths[k] \in Nat /\ list.lengths[k] <= MaxString
      /\ sums[0] = 0
      /\ \A k \in 0 .. n : sums[k] \in Nat
      /\ \A k \in 1 .. n : sums[k] = sums[k - 1] + list.lengths[k] + 1
  BY CountType, SumsDefined DEF IsSums
<1>4. \A k \in 0 .. n : sums[k] + (n - k) <= sums[n]
  <2>1. \A k \in 0 .. n : n \in k .. n
    BY <1>3
  <2> QED BY <2>1, SumsMonotone
<1>5. length + 1 + sums[n] <= MaxPacketSize /\ MaxPacketSize \in Nat
  BY SizeAssumption
<1> HIDE DEF sums
<1> DEFINE T == {k \in 0 .. n : f[k] = Filled(length + 1 + sums[k])}
<1>6. 0 \in T
  <2>1. length < MaxPacketSize /\ length + 1 + sums[0] = length + 1
    <3>1. sums[n] \in Nat
      BY <1>3
    <3> QED BY <1>3, <1>5, <3>1
  <2>2. f[0] = Filled(length + 1)
    BY <1>2, <2>1, FilledMoves DEF AreWrites
  <2> QED BY <1>3, <2>1, <2>2
<1>7. ASSUME NEW k \in 1 .. n, k - 1 \in T PROVE k \in T
  <2> DEFINE before == length + 1 + sums[k - 1]
  <2>1. f[k - 1] = Filled(before)
    BY <1>7
  <2>2. /\ k - 1 \in 0 .. n /\ k \in 0 .. n /\ sums[k - 1] \in Nat /\ sums[n] \in Nat
        /\ list.lengths[k] \in Nat /\ list.lengths[k] <= MaxString
        /\ sums[k] = sums[k - 1] + list.lengths[k] + 1
    BY <1>3
  <2>3. before \in Nat /\ before < MaxPacketSize
    <3>1. sums[k - 1] + (n - (k - 1)) <= sums[n]
      BY <1>4, <2>2
    <3> QED BY <1>3, <1>5, <2>2, <3>1
  <2>4. before + list.lengths[k] + 1 = length + 1 + sums[k]
    BY <2>2
  <2> HIDE DEF before
  <2>5. f[k] = WriteCString(Filled(before), list.lengths[k])
    BY <1>2, <2>1, SentFits DEF AreWrites
  <2>6. f[k] = Filled(before + list.lengths[k] + 1)
    BY <2>2, <2>3, <2>5, NameWrittenExactly
  <2> QED BY <2>2, <2>4, <2>6
<1> HIDE DEF T, n
<1>8. n \in T
  <2>1. n \in Nat
    BY <1>3
  <2>2. 0 .. n \subseteq T
    BY <1>6, <1>7, <2>1, Sweep!UpToInSteps
  <2> QED BY <2>1, <2>2
<1> QED BY <1>2, <1>8 DEF T, n, sums

-----------------------------------------------------------------------------
(***************************************************************************)
(* The answer                                                              *)
(***************************************************************************)

\* An answer with all types that fits the packet is sent with all of them, and
\* no write fails, whatever types have come and gone before.
THEOREM TypesSentWhole == Spec => []AllTypesSent
<1>1. TypesInv => AllTypesSent
  <2> DEFINE g == BytesOf(game, Count(game))
             m == BytesOf(mission, Count(mission))
  <2> SUFFICES ASSUME TypesInv, g + m + 2 <= PayloadSize,
                      Count(game) <= MaxCount, Count(mission) <= MaxCount
               PROVE  Reply.statusOK /\ Reply.length = HeaderSize + (g + m + 2)
    BY DEF AllTypesSent
  <2>1. Names(game) /\ Names(mission)
    BY DEF TypesInv, TotalKept
  <2>2. /\ Count(game) \in Nat /\ Count(mission) \in Nat
        /\ g \in Nat /\ m \in Nat /\ g = Sums(game)[Count(game)] /\ m = Sums(mission)[Count(mission)]
    BY <2>1, CountType, SumsDefined DEF IsSums, BytesOf
  <2> HIDE DEF g, m
  <2>3. WholeSize = g + m + 2
    BY <2>2 DEF WholeSize, TypesInv, TotalKept
  <2>4. ~TooMuch
    BY <2>2, <2>3, PayloadType, SizeAssumption DEF TooMuch
  <2>5. Sent(game) = Count(game) /\ Sent(mission) = Count(mission)
    BY <2>1, <2>4, SentFits
  <2>6. HeaderSize + 1 + g \in Nat /\ HeaderSize \in Nat
        /\ HeaderSize + 1 + g <= MaxPacketSize /\ (HeaderSize + 1 + g) + 1 + m <= MaxPacketSize
        /\ (HeaderSize + 1 + g) + 1 + m = HeaderSize + (g + m + 2)
    BY <2>2, PayloadType DEF HeaderSize
  <2>7. WriteTypes(Filled(HeaderSize), game) = Filled(HeaderSize + 1 + g)
    BY <2>1, <2>2, <2>5, <2>6, TypesWrittenExactly
  <2>8. WriteTypes(Filled(HeaderSize + 1 + g), mission) = Filled((HeaderSize + 1 + g) + 1 + m)
    BY <2>1, <2>2, <2>5, <2>6, TypesWrittenExactly
  <2>9. Reply = Filled(HeaderSize + (g + m + 2))
    BY <2>6, <2>7, <2>8, HeaderWritten DEF Reply
  <2> QED BY <2>9 DEF Filled
<1> QED BY <1>1, TypesInvHolds, PTL

\* However many types there are, the answer never exceeds the packet by more
\* than the two count bytes.
THEOREM OverrunBounded == Spec => []HalvesNearlyFit
<1>1. TypesInv => HalvesNearlyFit
  <2> DEFINE head == Filled(HeaderSize)
             one == WriteTypes(head, game)
             g == Sums(game)[Sent(game)]
             m == Sums(mission)[Sent(mission)]
  <2> SUFFICES ASSUME TypesInv PROVE Reply.length <= MaxPacketSize + 2
    BY DEF HalvesNearlyFit
  <2>1. Names(game) /\ Names(mission)
    BY DEF TypesInv, TotalKept
  <2>2. Reply = WriteTypes(one, mission)
    BY HeaderWritten DEF Reply
  <2>3. head \in Packets /\ head.length = HeaderSize /\ HeaderSize \in Nat
    BY FilledMoves DEF HeaderSize, Filled
  <2>4. one \in Packets /\ one.length <= HeaderSize + 1 + g
    BY <2>1, <2>3, TypesWritten
  <2>5. Reply \in Packets /\ Reply.length <= one.length + 1 + m
    BY <2>1, <2>2, <2>4, TypesWritten
  <2> HIDE DEF one, head
  <2>6. one.length \in Nat /\ Reply.length \in Nat
    BY <2>4, <2>5 DEF Packets
  <2>7. g \in Nat /\ m \in Nat
    BY <2>1, SumsDefined, SentFits DEF IsSums
  <2>8. g + m <= PayloadSize
    <3>1. CASE TooMuch
      BY <2>1, <2>7, <3>1, SentFits, PayloadType
    <3>2. CASE ~TooMuch
      <4>1. Sent(game) = Count(game) /\ Sent(mission) = Count(mission)
        BY <2>1, <3>2, SentFits
      <4>2. WholeSize = g + m + 2
        <5>1. Count(game) \in Nat /\ Count(mission) \in Nat
          BY <2>1, CountType
        <5> QED BY <2>7, <4>1, <5>1 DEF WholeSize, TypesInv, TotalKept
      <4> QED BY <2>7, <3>2, <4>2, PayloadType DEF TooMuch
    <3> QED BY <3>1, <3>2
  <2> HIDE DEF g, m
  <2> QED BY <2>3, <2>4, <2>5, <2>6, <2>7, <2>8, PayloadType
<1> QED BY <1>1, TypesInvHolds, PTL

=============================================================================
