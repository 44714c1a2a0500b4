--------------------------- MODULE MessagesProofs ---------------------------
(***************************************************************************)
(* TypeOK, StoredAsReported, CutRequestsHarmless and AnswerExact for any   *)
(* servers, names and messages, cut at any byte.                           *)
(***************************************************************************)
EXTENDS Messages, SequenceTheorems, FiniteSetTheorems, TLAPS

\* For recursion and induction on numbers, which are no matter of End.
Sweep == INSTANCE MapSweepProofs WITH End <- 0

-----------------------------------------------------------------------------
(***************************************************************************)
(* A concatenation and where its parts begin                               *)
(***************************************************************************)
IsLayout(off, seqs) ==
    /\ off \in [0 .. Len(seqs) -> Nat]
    /\ off[0] = 0
    /\ \A i \in 1 .. Len(seqs) : off[i] = off[i - 1] + Len(seqs[i])
    /\ off[Len(seqs)] = Len(FlattenSeq(seqs))
    /\ \A i \in 1 .. Len(seqs) : \A k \in 1 .. Len(seqs[i]) :
           FlattenSeq(seqs)[off[i - 1] + k] = seqs[i][k]

\* What FlattenSeq returns: the last of the concatenations of the first parts.
LEMMA FlattenSteps ==
    ASSUME NEW S, NEW seqs \in Seq(Seq(S)), Len(seqs) # 0
    PROVE  \E f \in [0 .. Len(seqs) -> Seq(S)] :
               /\ f[0] = <<>>
               /\ \A i \in 1 .. Len(seqs) : f[i] = f[i - 1] \o seqs[i]
               /\ FlattenSeq(seqs) = f[Len(seqs)]
<1> DEFINE n == Len(seqs)
           step == [x \in Seq(S) \X (1 .. n) |-> x[1] \o seqs[x[2]]]
<1>1. n \in Nat \ {0} /\ \A i \in 1 .. n : seqs[i] \in Seq(S)
  OBVIOUS
<1>2. step \in [Seq(S) \X (1 .. n) -> Seq(S)]
  <2>1. \A x \in Seq(S) \X (1 .. n) : x[1] \o seqs[x[2]] \in Seq(S)
    BY <1>1, ConcatProperties
  <2> QED BY <2>1
<1>3. \A s \in Seq(S), i \in 1 .. n : step[<<s, i>>] = s \o seqs[i]
  OBVIOUS
<1>4. <<>> \in Seq(S)
  BY EmptySeq
<1> HIDE DEF step, n
<1>5. PICK f \in [0 .. n -> Seq(S)] : Sweep!IsRecursion(f, n, <<>>, step)
  BY <1>1, <1>2, <1>4, Sweep!RecursionDefines
<1>6. f[0] = <<>> /\ \A i \in 1 .. n : f[i] = f[i - 1] \o seqs[i]
  <2>1. f = [i \in 0 .. n |-> IF i = 0 THEN <<>> ELSE step[<<f[i - 1], i>>]]
    BY <1>5 DEF Sweep!IsRecursion
  <2>2. \A i \in 0 .. n : f[i] = IF i = 0 THEN <<>> ELSE step[<<f[i - 1], i>>]
    BY <2>1
  <2>3. 0 \in 0 .. n /\ \A i \in 1 .. n : i \in 0 .. n /\ i # 0 /\ i - 1 \in 0 .. n
    BY <1>1
  <2>4. \A i \in 0 .. n : f[i] \in Seq(S)
    OBVIOUS
  <2> QED BY <1>3, <2>2, <2>3, <2>4
<1> DEFINE Body(g) == [i \in 1 .. n |-> IF i = 1 THEN seqs[i] ELSE g[i - 1] \o seqs[i]]
           h == [i \in 1 .. n |-> f[i]]
<1>7. h = Body(h)
  <2>1. ASSUME NEW i \in 1 .. n PROVE h[i] = IF i = 1 THEN seqs[i] ELSE h[i - 1] \o seqs[i]
    <3>1. CASE i = 1
      <4>1. 1 \in 1 .. n /\ 1 - 1 = 0
        BY <1>1
      <4>2. f[1] = <<>> \o seqs[1] /\ seqs[1] \in Seq(S) /\ h[1] = f[1]
        BY <1>1, <1>6, <4>1
      <4>3. <<>> \o seqs[1] = seqs[1]
        BY <4>2, ConcatEmptySeq
      <4> HIDE DEF h
      <4> QED BY <3>1, <4>2, <4>3
    <3>2. CASE i # 1
      <4>1. i - 1 \in 1 .. n /\ h[i - 1] = f[i - 1] /\ h[i] = f[i]
        BY <1>1, <3>2
      <4> HIDE DEF h
      <4> QED BY <1>6, <3>2, <4>1
    <3> QED BY <3>1, <3>2
  <2> QED BY <2>1
<1> DEFINE g == CHOOSE g : g = Body(g)
<1>8. g = Body(g)
  BY <1>7
<1>9. FlattenSeq(seqs) = g[n]
  BY <1>1 DEF FlattenSeq, n
<1> HIDE DEF g
<1>10. \A i \in 1 .. n : g[i] = IF i = 1 THEN seqs[i] ELSE g[i - 1] \o seqs[i]
  BY <1>8
<1> DEFINE T == {i \in 0 .. n : i = 0 \/ g[i] = f[i]}
<1>11. 0 \in T
  BY <1>1
<1>12. ASSUME NEW i \in 1 .. n, i - 1 \in T PROVE i \in T
  <2>1. CASE i = 1
    <3>1. g[1] = seqs[1] /\ h[1] = seqs[1] /\ h[1] = f[1]
      BY <1>7, <1>10, <2>1
    <3> HIDE DEF h
    <3>2. g[i] = f[i] /\ i \in 0 .. n
      BY <1>1, <2>1, <3>1
    <3> QED BY <3>2
  <2>2. CASE i # 1
    <3>1. g[i] = g[i - 1] \o seqs[i] /\ f[i] = f[i - 1] \o seqs[i]
      BY <1>6, <1>10, <2>2
    <3>2. i - 1 # 0 /\ g[i - 1] = f[i - 1]
      BY <1>1, <1>12, <2>2
    <3>3. g[i] = f[i] /\ i \in 0 .. n
      BY <1>1, <3>1, <3>2
    <3> QED BY <3>3
  <2> QED BY <2>1, <2>2
<1> HIDE DEF T, h
<1>13. n \in T
  <2>1. n \in Nat
    BY <1>1
  <2>2. 0 .. n \subseteq T
    BY <1>11, <1>12, <2>1, Sweep!UpToInSteps
  <2> QED BY <2>1, <2>2
<1>14. FlattenSeq(seqs) = f[n]
  BY <1>1, <1>9, <1>13 DEF T
<1> QED BY <1>6, <1>14 DEF n

\* A concatenation holds its parts one after the other.
LEMMA FlattenLayout ==
    ASSUME NEW S, NEW seqs \in Seq(Seq(S))
    PROVE  FlattenSeq(seqs) \in Seq(S) /\ \E off : IsLayout(off, seqs)
<1> DEFINE n == Len(seqs)
<1>1. n \in Nat /\ \A i \in 1 .. n : seqs[i] \in Seq(S) /\ Len(seqs[i]) \in Nat
  OBVIOUS
<1>2. CASE n = 0
  <2>1. seqs = <<>> /\ FlattenSeq(seqs) = seqs
    BY <1>2, EmptySeq DEF FlattenSeq
  <2>2. FlattenSeq(seqs) \in Seq(S) /\ Len(FlattenSeq(seqs)) = 0
    BY <1>2, <2>1, EmptySeq
  <2> DEFINE off == [i \in 0 .. 0 |-> 0]
  <2>3. IsLayout(off, seqs)
    BY <1>2, <2>2 DEF IsLayout
  <2> QED BY <2>2, <2>3
<1>3. CASE n # 0
  <2>1. PICK f \in [0 .. n -> Seq(S)] : /\ f[0] = <<>>
                                        /\ \A i \in 1 .. n : f[i] = f[i - 1] \o seqs[i]
                                        /\ FlattenSeq(seqs) = f[n]
    BY <1>3, FlattenSteps
  <2> DEFINE off == [i \in 0 .. n |-> Len(f[i])]
             Held(m) == /\ \A i \in 0 .. m : off[i] <= off[m]
                        /\ \A i \in 1 .. m : \A k \in 1 .. Len(seqs[i]) : f[m][off[i - 1] + k] = seqs[i][k]
             T == {m \in 0 .. n : Held(m)}
  <2> HIDE DEF n
  <2>2. \A i \in 0 .. n : f[i] \in Seq(S) /\ Len(f[i]) \in Nat /\ off[i] = Len(f[i]) /\ off[i] \in Nat
    OBVIOUS
  <2>3. off[0] = 0
    BY <1>1, <2>1, <2>2, EmptySeq
  <2>4. ASSUME NEW i \in 1 .. n
        PROVE  /\ i \in 0 .. n /\ i - 1 \in 0 .. n
               /\ off[i] = off[i - 1] + Len(seqs[i])
               /\ \A k \in 1 .. off[i] : f[i][k] = IF k <= off[i - 1] THEN f[i - 1][k]
                                                    ELSE seqs[i][k - off[i - 1]]
    <3>1. i \in 0 .. n /\ i - 1 \in 0 .. n
      BY <1>1
    <3>2. f[i] = f[i - 1] \o seqs[i] /\ f[i - 1] \in Seq(S) /\ seqs[i] \in Seq(S)
      BY <1>1, <2>1, <2>2, <3>1
    <3>3. /\ Len(f[i]) = Len(f[i - 1]) + Len(seqs[i])
          /\ \A k \in 1 .. Len(f[i - 1]) + Len(seqs[i]) :
                f[i][k] = IF k <= Len(f[i - 1]) THEN f[i - 1][k] ELSE seqs[i][k - Len(f[i - 1])]
      <4> DEFINE a == f[i - 1]
                 b == seqs[i]
      <4>1. a \in Seq(S) /\ b \in Seq(S) /\ f[i] = a \o b
        BY <3>2
      <4> HIDE DEF a, b
      <4>2. /\ Len(a \o b) = Len(a) + Len(b)
            /\ \A k \in 1 .. Len(a) + Len(b) : (a \o b)[k] = IF k <= Len(a) THEN a[k] ELSE b[k - Len(a)]
        BY <4>1, ConcatProperties
      <4>3. /\ Len(f[i]) = Len(a) + Len(b)
            /\ \A k \in 1 .. Len(a) + Len(b) : f[i][k] = IF k <= Len(a) THEN a[k] ELSE b[k - Len(a)]
        BY <4>1, <4>2
      <4> QED BY <4>3 DEF a, b
    <3>4. off[i] = Len(f[i]) /\ off[i - 1] = Len(f[i - 1])
      BY <2>2, <3>1
    <3> HIDE DEF off
    <3> QED BY <3>1, <3>3, <3>4
  <2>5. off \in [0 .. n -> Nat]
    BY <2>2
  <2> HIDE DEF off
  <2>6. 0 \in T
    BY <1>1, <2>3
  <2>7. ASSUME NEW m \in 1 .. n, m - 1 \in T PROVE m \in T
    <3>1. Held(m - 1) /\ m \in 0 .. n /\ m - 1 \in 0 .. n
      BY <1>1, <2>7
    <3>2. off[m] = off[m - 1] + Len(seqs[m]) /\ off[m] \in Nat /\ off[m - 1] \in Nat /\ Len(seqs[m]) \in Nat
      BY <1>1, <2>2, <2>4, <3>1
    <3>3. ASSUME NEW i \in 0 .. m PROVE off[i] <= off[m]
      <4>1. CASE i = m
        BY <3>2, <4>1
      <4>2. CASE i # m
        <5>1. i \in 0 .. m - 1 /\ i \in 0 .. n
          BY <1>1, <4>2
        <5>2. off[i] <= off[m - 1] /\ off[i] \in Nat
          BY <2>2, <3>1, <5>1
        <5> QED BY <3>2, <5>2
      <4> QED BY <4>1, <4>2
    <3>4. ASSUME NEW i \in 1 .. m, NEW k \in 1 .. Len(seqs[i]) PROVE f[m][off[i - 1] + k] = seqs[i][k]
      <4>1. /\ i \in 1 .. n /\ i \in 0 .. n /\ i - 1 \in 0 .. n
            /\ off[i] = off[i - 1] + Len(seqs[i]) /\ Len(seqs[i]) \in Nat
            /\ off[i] \in Nat /\ off[i - 1] \in Nat
        <5>1. i \in 1 .. n
          BY <1>1
        <5> QED BY <1>1, <2>2, <2>4, <5>1
      <4> DEFINE j == off[i - 1] + k
      <4>2. j \in 1 .. off[m] /\ j > off[i - 1] /\ j <= off[i] /\ j - off[i - 1] = k
        <5>1. i \in 0 .. m /\ k \in Nat /\ k >= 1 /\ k <= Len(seqs[i])
          BY <4>1
        <5>2. off[i] <= off[m]
          BY <3>3, <5>1
        <5>3. off[i - 1] \in Nat /\ off[i] \in Nat /\ off[m] \in Nat /\ off[i] = off[i - 1] + Len(seqs[i])
          BY <3>2, <4>1
        <5>4. j \in Int /\ j > off[i - 1] /\ j - off[i - 1] = k
          BY <5>1, <5>3
        <5>5. j <= off[i]
          BY <4>1, <5>1, <5>3
        <5> HIDE DEF j
        <5> QED BY <5>2, <5>3, <5>4, <5>5
      <4> HIDE DEF j
      <4>3. f[m][j] = IF j <= off[m - 1] THEN f[m - 1][j] ELSE seqs[m][j - off[m - 1]]
        BY <2>4, <4>2
      <4>4. CASE i = m
        <5>1. ~(j <= off[m - 1]) /\ j - off[m - 1] = k
          BY <3>2, <4>2, <4>4
        <5>2. f[m][j] = seqs[i][k]
          BY <4>3, <4>4, <5>1
        <5> QED BY <5>2 DEF j
      <4>5. CASE i # m
        <5>1. i \in 1 .. m - 1 /\ i \in 0 .. m - 1
          BY <4>5
        <5>2. off[i] <= off[m - 1]
          BY <3>1, <5>1
        <5>3. j <= off[m - 1]
          BY <3>2, <4>1, <4>2, <5>2
        <5>4. f[m - 1][j] = seqs[i][k]
          BY <3>1, <5>1 DEF j
        <5>5. f[m][j] = seqs[i][k]
          BY <4>3, <5>3, <5>4
        <5> QED BY <5>5 DEF j
      <4> QED BY <4>4, <4>5
    <3> QED BY <3>1, <3>3, <3>4
  <2> HIDE DEF T
  <2>8. n \in T
    <3>1. 0 .. n \subseteq T
      BY <1>1, <2>6, <2>7, Sweep!UpToInSteps
    <3> QED BY <1>1, <3>1
  <2>9. n \in 0 .. n
    BY <1>1
  <2>10. IsLayout(off, seqs)
    BY <2>1, <2>2, <2>3, <2>4, <2>5, <2>8, <2>9 DEF IsLayout, T, n
  <2> QED BY <2>1, <2>2, <2>9, <2>10
<1> QED BY <1>2, <1>3

-----------------------------------------------------------------------------
(***************************************************************************)
(* The formats                                                             *)
(***************************************************************************)
Keys == {"type", "flags", "session", "key", "index", "gameType", "missionType", "minPlayers",
         "maxPlayers", "regions", "version", "infoFlags", "filterFlags", "numBots", "maxBots",
         "CPUSpeed", "minCPUSpeed", "playerCount", "buddyCount"}

Fields == [name : Keys, width : {Text, 1, 2, 4}]

LEMMA FormatTypes ==
    /\ HeaderFormat \in Seq(Fields) /\ Len(HeaderFormat) = 4
    /\ ReportFormat \in Seq(Fields) /\ Len(ReportFormat) = 9
    /\ IndexFormat \in Seq(Fields) /\ Len(IndexFormat) = 1
    /\ QueryFormat \in Seq(Fields) /\ Len(QueryFormat) = 10
<1>1. \A name \in Keys, width \in {Text, 1, 2, 4} : Field(name, width) \in Fields
  BY DEF Field, Fields
<1>2. HeaderFormat \in Seq(Fields) /\ Len(HeaderFormat) = 4
  <2>1. /\ Field("type", 1) \in Fields
        /\ Field("flags", 1) \in Fields
        /\ Field("session", 2) \in Fields
        /\ Field("key", 2) \in Fields
    BY <1>1 DEF Keys
  <2> QED BY <2>1 DEF HeaderFormat
<1>3. ReportFormat \in Seq(Fields) /\ Len(ReportFormat) = 9
  <2>1. /\ Field("gameType", Text) \in Fields
        /\ Field("missionType", Text) \in Fields
        /\ Field("maxPlayers", 1) \in Fields
        /\ Field("regions", 4) \in Fields
        /\ Field("version", 4) \in Fields
        /\ Field("infoFlags", 1) \in Fields
        /\ Field("numBots", 1) \in Fields
        /\ Field("CPUSpeed", 4) \in Fields
        /\ Field("playerCount", 1) \in Fields
    BY <1>1 DEF Keys
  <2> QED BY <2>1 DEF ReportFormat
<1>4. IndexFormat \in Seq(Fields) /\ Len(IndexFormat) = 1
  <2>1. /\ Field("index", 1) \in Fields
    BY <1>1 DEF Keys
  <2> QED BY <2>1 DEF IndexFormat
<1>5. QueryFormat \in Seq(Fields) /\ Len(QueryFormat) = 10
  <2>1. /\ Field("gameType", Text) \in Fields
        /\ Field("missionType", Text) \in Fields
        /\ Field("minPlayers", 1) \in Fields
        /\ Field("maxPlayers", 1) \in Fields
        /\ Field("regions", 4) \in Fields
        /\ Field("version", 4) \in Fields
        /\ Field("filterFlags", 1) \in Fields
        /\ Field("maxBots", 1) \in Fields
        /\ Field("minCPUSpeed", 2) \in Fields
        /\ Field("buddyCount", 1) \in Fields
    BY <1>1 DEF Keys
  <2> QED BY <2>1 DEF QueryFormat
<1> QED BY <1>2, <1>3, <1>4, <1>5

\* format is what a message has from its field number at + 1 on.
PartOf(format, msg, at) ==
    /\ format \in Seq(Fields)
    /\ at + Len(format) <= Len(FormatOf(msg))
    /\ \A j \in 1 .. Len(format) : format[j] = FormatOf(msg)[at + j]

LEMMA ConcatParts ==
    ASSUME NEW a \in Seq(Fields), NEW b \in Seq(Fields), NEW msg, FormatOf(msg) = a \o b
    PROVE  /\ FormatOf(msg) \in Seq(Fields) /\ Len(FormatOf(msg)) = Len(a) + Len(b)
           /\ PartOf(a, msg, 0) /\ PartOf(b, msg, Len(a))
<1>1. /\ a \o b \in Seq(Fields) /\ Len(a \o b) = Len(a) + Len(b)
      /\ \A i \in 1 .. Len(a) + Len(b) : (a \o b)[i] = IF i <= Len(a) THEN a[i] ELSE b[i - Len(a)]
  BY ConcatProperties
<1>2. Len(a) \in Nat /\ Len(b) \in Nat
  OBVIOUS
<1>3. \A j \in 1 .. Len(a) : (a \o b)[0 + j] = a[j]
  BY <1>1, <1>2
<1>4. ASSUME NEW j \in 1 .. Len(b) PROVE (a \o b)[Len(a) + j] = b[j]
  <2> DEFINE i == Len(a) + j
  <2>1. i \in 1 .. Len(a) + Len(b) /\ ~(i <= Len(a)) /\ i - Len(a) = j
    BY <1>2
  <2> HIDE DEF i
  <2>2. (a \o b)[i] = b[j]
    BY <1>1, <2>1
  <2> QED BY <2>2 DEF i
<1> QED BY <1>1, <1>2, <1>3, <1>4 DEF PartOf

LEMMA HeaderPart ==
    ASSUME NEW msg
    PROVE  /\ FormatOf(msg) \in Seq(Fields) /\ Len(FormatOf(msg)) \in Nat
           /\ PartOf(HeaderFormat, msg, 0)
<1> DEFINE rest == IF msg.type = GameMasterInfoResponse THEN ReportFormat
                   ELSE IF IsQuery(msg) THEN IndexFormat \o QueryFormat
                   ELSE IF msg.type = MasterServerListRequest THEN IndexFormat
                   ELSE <<>>
<1>1. rest \in Seq(Fields)
  <2>1. IndexFormat \o QueryFormat \in Seq(Fields)
    BY FormatTypes, ConcatProperties
  <2>2. <<>> \in Seq(Fields)
    BY EmptySeq
  <2> QED BY <2>1, <2>2, FormatTypes
<1>2. FormatOf(msg) = HeaderFormat \o rest
  BY DEF FormatOf
<1> HIDE DEF rest
<1>3. FormatOf(msg) \in Seq(Fields) /\ PartOf(HeaderFormat, msg, 0)
  BY <1>1, <1>2, FormatTypes, ConcatParts
<1> QED BY <1>3

LEMMA ReportParts ==
    ASSUME NEW msg, msg.type = GameMasterInfoResponse
    PROVE  Len(FormatOf(msg)) = 13 /\ PartOf(ReportFormat, msg, 4)
<1>1. FormatOf(msg) = HeaderFormat \o ReportFormat
  BY DEF FormatOf
<1>2. /\ Len(FormatOf(msg)) = Len(HeaderFormat) + Len(ReportFormat)
      /\ PartOf(ReportFormat, msg, Len(HeaderFormat))
  BY <1>1, FormatTypes, ConcatParts
<1> QED BY <1>2, FormatTypes

LEMMA RequestParts ==
    ASSUME NEW msg, msg.type = MasterServerListRequest
    PROVE  /\ PartOf(IndexFormat, msg, 4)
           /\ IsQuery(msg) => Len(FormatOf(msg)) = 15 /\ PartOf(QueryFormat, msg, 5)
           /\ ~IsQuery(msg) => Len(FormatOf(msg)) = 5
<1>1. msg.type # GameMasterInfoResponse
  BY DEF GameMasterInfoResponse, MasterServerListRequest
<1>2. CASE IsQuery(msg)
  <2> DEFINE rest == IndexFormat \o QueryFormat
  <2>1. FormatOf(msg) = HeaderFormat \o rest
    BY <1>1, <1>2 DEF FormatOf
  <2>2. /\ rest \in Seq(Fields) /\ Len(rest) = 11
        /\ \A i \in 1 .. 11 : rest[i] = IF i <= 1 THEN IndexFormat[i] ELSE QueryFormat[i - 1]
    <3> DEFINE a == IndexFormat
               b == QueryFormat
    <3>1. a \in Seq(Fields) /\ b \in Seq(Fields) /\ Len(a) = 1 /\ Len(b) = 10
      BY FormatTypes
    <3> HIDE DEF a, b
    <3>2. /\ a \o b \in Seq(Fields) /\ Len(a \o b) = Len(a) + Len(b)
          /\ \A i \in 1 .. Len(a) + Len(b) : (a \o b)[i] = IF i <= Len(a) THEN a[i] ELSE b[i - Len(a)]
      BY <3>1, ConcatProperties
    <3>3. Len(a) + Len(b) = 11
      BY <3>1
    <3>4. /\ a \o b \in Seq(Fields) /\ Len(a \o b) = 11
          /\ \A i \in 1 .. 11 : (a \o b)[i] = IF i <= 1 THEN a[i] ELSE b[i - 1]
      BY <3>1, <3>2, <3>3
    <3> QED BY <3>4 DEF a, b
  <2> HIDE DEF rest
  <2>3. Len(FormatOf(msg)) = 15 /\ \A j \in 1 .. 11 : rest[j] = FormatOf(msg)[4 + j]
    <3>1. /\ Len(FormatOf(msg)) = Len(HeaderFormat) + Len(rest)
          /\ PartOf(rest, msg, Len(HeaderFormat))
      BY <2>1, <2>2, FormatTypes, ConcatParts
    <3> QED BY <2>2, <3>1, FormatTypes DEF PartOf
  <2>4. IndexFormat[1] = FormatOf(msg)[4 + 1]
    BY <2>2, <2>3
  <2>5. ASSUME NEW j \in 1 .. 10 PROVE QueryFormat[j] = FormatOf(msg)[5 + j]
    <3>1. 1 + j \in 1 .. 11 /\ ~(1 + j <= 1) /\ (1 + j) - 1 = j /\ 4 + (1 + j) = 5 + j
      OBVIOUS
    <3> QED BY <2>2, <2>3, <3>1
  <2> QED BY <1>2, <2>3, <2>4, <2>5, FormatTypes DEF PartOf
<1>3. CASE ~IsQuery(msg)
  <2>1. FormatOf(msg) = HeaderFormat \o IndexFormat
    BY <1>1, <1>3 DEF FormatOf
  <2>2. /\ Len(FormatOf(msg)) = Len(HeaderFormat) + Len(IndexFormat)
        /\ PartOf(IndexFormat, msg, Len(HeaderFormat))
    BY <2>1, FormatTypes, ConcatParts
  <2> QED BY <1>3, <2>2, FormatTypes
<1> QED BY <1>2, <1>3

-----------------------------------------------------------------------------
(***************************************************************************)
(* A datagram and where the values lie in it                               *)
(***************************************************************************)
Cell == [value : Nat, place : Nat, of : Nat]

LEMMA BytesAre ==
    ASSUME NEW v \in Nat, NEW n \in Nat
    PROVE  /\ Bytes(v, n) \in Seq(Cell) /\ Len(Bytes(v, n)) = n
           /\ \A k \in 1 .. n : Bytes(v, n)[k] = [value |-> v, place |-> k, of |-> n]
<1>1. \A k \in 1 .. n : [value |-> v, place |-> k, of |-> n] \in Cell
  BY DEF Cell
<1> QED BY <1>1 DEF Bytes

\* The field is in the data from o on, as far as the data go.
Lies(data, o, v, n) ==
    \A k \in 1 .. n : o + k <= Len(data) => data[o + k] = [value |-> v, place |-> k, of |-> n]

FieldSize(msg, f) == IF f.width = Text THEN 1 + NameSize[msg[f.name]] ELSE f.width

FieldLies(data, o, msg, f) ==
    IF f.width = Text THEN /\ Lies(data, o, NameSize[msg[f.name]], 1)
                           /\ Lies(data, o + 1, msg[f.name], NameSize[msg[f.name]])
    ELSE Lies(data, o, msg[f.name], f.width)

LEMMA FieldTypes ==
    ASSUME NEW msg \in Message, NEW i \in 1 .. Len(FormatOf(msg))
    PROVE  LET f == FormatOf(msg)[i]
           IN  /\ f \in Fields /\ msg[f.name] \in Nat /\ FieldSize(msg, f) \in Nat \ {0}
               /\ f.width = Text => /\ msg[f.name] \in DOMAIN NameSize
                                    /\ NameSize[msg[f.name]] \in Nat
               /\ f.width # Text => Fits(msg[f.name], f.width)
<1> DEFINE f == FormatOf(msg)[i]
<1>1. f \in Fields /\ DOMAIN FormatOf(msg) = 1 .. Len(FormatOf(msg))
  BY HeaderPart
<1>2. IF f.width = Text THEN msg[f.name] \in DOMAIN NameSize ELSE Fits(msg[f.name], f.width)
  BY <1>1, MessageAssumption
<1> HIDE DEF f
<1>3. f.width \in {Text, 1, 2, 4}
  BY <1>1 DEF Fields
<1>4. CASE f.width = Text
  <2>1. msg[f.name] \in DOMAIN NameSize
    BY <1>2, <1>4
  <2>2. msg[f.name] \in Nat /\ NameSize[msg[f.name]] \in Nat
    BY <2>1, NameAssumption
  <2> QED BY <1>1, <1>4, <2>1, <2>2 DEF FieldSize, f
<1>5. CASE f.width # Text
  <2>1. Fits(msg[f.name], f.width)
    BY <1>2, <1>5
  <2> QED BY <1>1, <1>3, <1>5, <2>1 DEF FieldSize, Fits, f
<1> QED BY <1>4, <1>5

LEMMA FieldEncoded ==
    ASSUME NEW msg \in Message, NEW i \in 1 .. Len(FormatOf(msg))
    PROVE  LET f == FormatOf(msg)[i]
               e == EncodeField(msg, f)
           IN  /\ e \in Seq(Cell) /\ Len(e) = FieldSize(msg, f)
               /\ \A data \in Seq(Cell), o \in Nat :
                      (\A k \in 1 .. Len(e) : data[o + k] = e[k]) => FieldLies(data, o, msg, f)
<1> DEFINE f == FormatOf(msg)[i]
           v == msg[f.name]
           e == EncodeField(msg, f)
<1>1. /\ f \in Fields /\ v \in Nat
      /\ f.width = Text => NameSize[v] \in Nat
      /\ f.width # Text => f.width \in Nat
  <2>1. f \in Fields /\ v \in Nat /\ (f.width = Text => NameSize[v] \in Nat)
    BY FieldTypes
  <2> QED BY <2>1 DEF Fields
<1>2. CASE f.width = Text
  <2> DEFINE a == Bytes(NameSize[v], 1)
             b == Bytes(v, NameSize[v])
             n == NameSize[v]
  <2>1. n \in Nat
    BY <1>1, <1>2
  <2>2. e = a \o b
    BY <1>2 DEF EncodeField
  <2>3. FieldSize(msg, f) = 1 + n
    BY <1>2 DEF FieldSize
  <2>4. /\ a \in Seq(Cell) /\ Len(a) = 1 /\ a[1] = [value |-> n, place |-> 1, of |-> 1]
        /\ b \in Seq(Cell) /\ Len(b) = n
        /\ \A k \in 1 .. n : b[k] = [value |-> v, place |-> k, of |-> n]
    <3>1. n \in Nat /\ v \in Nat /\ 1 \in Nat /\ 1 \in 1 .. 1
      BY <1>1, <2>1
    <3> HIDE DEF n, v
    <3>2. /\ Bytes(n, 1) \in Seq(Cell) /\ Len(Bytes(n, 1)) = 1
          /\ \A k \in 1 .. 1 : Bytes(n, 1)[k] = [value |-> n, place |-> k, of |-> 1]
      BY <3>1, BytesAre
    <3>3. /\ Bytes(v, n) \in Seq(Cell) /\ Len(Bytes(v, n)) = n
          /\ \A k \in 1 .. n : Bytes(v, n)[k] = [value |-> v, place |-> k, of |-> n]
      BY <3>1, BytesAre
    <3>4. a = Bytes(n, 1) /\ b = Bytes(v, n)
      BY DEF n
    <3> QED BY <3>1, <3>2, <3>3, <3>4
  <2>5. \A data, o : FieldLies(data, o, msg, f) <=> Lies(data, o, n, 1) /\ Lies(data, o + 1, v, n)
    BY <1>2 DEF FieldLies
  <2> HIDE DEF a, b, n, e, v, f
  <2>6. /\ e \in Seq(Cell) /\ Len(e) = 1 + n
        /\ \A k \in 1 .. 1 + n : e[k] = IF k <= 1 THEN a[k] ELSE b[k - 1]
    <3>1. /\ a \o b \in Seq(Cell) /\ Len(a \o b) = Len(a) + Len(b)
          /\ \A k \in 1 .. Len(a) + Len(b) : (a \o b)[k] = IF k <= Len(a) THEN a[k] ELSE b[k - Len(a)]
      BY <2>4, ConcatProperties
    <3> QED BY <2>1, <2>2, <2>4, <3>1
  <2>7. ASSUME NEW data \in Seq(Cell), NEW o \in Nat, \A k \in 1 .. Len(e) : data[o + k] = e[k]
        PROVE  Lies(data, o, n, 1) /\ Lies(data, o + 1, v, n)
    <3>1. data[o + 1] = [value |-> n, place |-> 1, of |-> 1]
      <4>1. 1 \in 1 .. 1 + n
        BY <2>1
      <4> QED BY <2>4, <2>6, <2>7, <4>1
    <3>2. ASSUME NEW k \in 1 .. n PROVE data[(o + 1) + k] = [value |-> v, place |-> k, of |-> n]
      <4> DEFINE j == 1 + k
      <4>1. j \in 1 .. 1 + n /\ ~(j <= 1) /\ j - 1 = k /\ o + j = (o + 1) + k
        BY <2>1
      <4> HIDE DEF j
      <4>2. data[o + j] = b[k]
        BY <2>6, <2>7, <4>1
      <4> QED BY <2>4, <4>1, <4>2
    <3> QED BY <3>1, <3>2 DEF Lies
  <2>8. \A data \in Seq(Cell), o \in Nat :
            (\A k \in 1 .. Len(e) : data[o + k] = e[k]) => FieldLies(data, o, msg, f)
    BY <2>5, <2>7
  <2> QED BY <2>3, <2>6, <2>8 DEF e, f
<1>3. CASE f.width # Text
  <2> DEFINE w == f.width
  <2>1. w \in Nat /\ e = Bytes(v, w) /\ FieldSize(msg, f) = w
    BY <1>1, <1>3 DEF EncodeField, FieldSize
  <2>2. \A data, o : FieldLies(data, o, msg, f) <=> Lies(data, o, v, w)
    BY <1>3 DEF FieldLies
  <2> HIDE DEF w, e, v, f
  <2>3. /\ e \in Seq(Cell) /\ Len(e) = w
        /\ \A k \in 1 .. w : e[k] = [value |-> v, place |-> k, of |-> w]
    <3>1. v \in Nat /\ w \in Nat
      BY <1>1, <2>1
    <3>2. /\ Bytes(v, w) \in Seq(Cell) /\ Len(Bytes(v, w)) = w
          /\ \A k \in 1 .. w : Bytes(v, w)[k] = [value |-> v, place |-> k, of |-> w]
      BY <3>1, BytesAre
    <3> QED BY <2>1, <3>2
  <2>4. \A data \in Seq(Cell), o \in Nat :
            (\A k \in 1 .. Len(e) : data[o + k] = e[k]) => FieldLies(data, o, msg, f)
    BY <2>2, <2>3 DEF Lies
  <2> QED BY <2>1, <2>3, <2>4 DEF e, f
<1> QED BY <1>2, <1>3

Offsets(off, msg) ==
    /\ off \in [0 .. Len(FormatOf(msg)) -> Nat]
    /\ off[0] = 0
    /\ \A i \in 1 .. Len(FormatOf(msg)) : off[i] = off[i - 1] + FieldSize(msg, FormatOf(msg)[i])
    /\ off[Len(FormatOf(msg))] = Len(FixedPart(msg))

\* The data are the datagram of msg, or its beginning.
Begins(data, off, msg) ==
    /\ data \in Seq(Cell)
    /\ Len(data) <= Len(FixedPart(msg)) + 4 * Len(msg.list)
    /\ \A i \in 1 .. Len(FormatOf(msg)) : FieldLies(data, off[i - 1], msg, FormatOf(msg)[i])
    /\ \A j \in 1 .. Len(msg.list) : Lies(data, Len(FixedPart(msg)) + 4 * (j - 1), msg.list[j], 4)

LEMMA FixedLayout ==
    ASSUME NEW msg \in Message
    PROVE  /\ FixedPart(msg) \in Seq(Cell)
           /\ \E off : /\ Offsets(off, msg)
                       /\ \A i \in 1 .. Len(FormatOf(msg)) :
                             LET e == EncodeField(msg, FormatOf(msg)[i])
                             IN  \A k \in 1 .. Len(e) : FixedPart(msg)[off[i - 1] + k] = e[k]
<1> DEFINE n == Len(FormatOf(msg))
           parts == [i \in DOMAIN FormatOf(msg) |-> EncodeField(msg, FormatOf(msg)[i])]
<1>1. n \in Nat /\ DOMAIN FormatOf(msg) = 1 .. n
  BY HeaderPart
<1>2. \A i \in 1 .. n : /\ EncodeField(msg, FormatOf(msg)[i]) \in Seq(Cell)
                        /\ Len(EncodeField(msg, FormatOf(msg)[i])) = FieldSize(msg, FormatOf(msg)[i])
  BY FieldEncoded
<1>3. FixedPart(msg) = FlattenSeq(parts)
  BY DEF FixedPart
<1>4. parts \in Seq(Seq(Cell)) /\ Len(parts) = n /\ \A i \in 1 .. n : parts[i] = EncodeField(msg, FormatOf(msg)[i])
  BY <1>1, <1>2
<1> HIDE DEF n, parts
<1>5. PICK off : IsLayout(off, parts)
  BY <1>4, FlattenLayout
<1>6. FixedPart(msg) \in Seq(Cell)
  BY <1>3, <1>4, FlattenLayout
<1>7. /\ off \in [0 .. n -> Nat] /\ off[0] = 0 /\ off[n] = Len(FixedPart(msg))
      /\ \A i \in 1 .. n : off[i] = off[i - 1] + FieldSize(msg, FormatOf(msg)[i])
  BY <1>2, <1>3, <1>4, <1>5 DEF IsLayout
<1>8. \A i \in 1 .. n : \A k \in 1 .. Len(parts[i]) : FixedPart(msg)[off[i - 1] + k] = parts[i][k]
  BY <1>3, <1>4, <1>5 DEF IsLayout
<1>9. Offsets(off, msg)
  BY <1>7 DEF Offsets, n
<1>10. \A i \in 1 .. n : LET e == EncodeField(msg, FormatOf(msg)[i])
                         IN  \A k \in 1 .. Len(e) : FixedPart(msg)[off[i - 1] + k] = e[k]
  BY <1>4, <1>8
<1> QED BY <1>6, <1>9, <1>10 DEF n

LEMMA ListLayout ==
    ASSUME NEW list \in Seq(Nat)
    PROVE  LET bytes == FlattenSeq([i \in DOMAIN list |-> Bytes(list[i], 4)])
           IN  /\ bytes \in Seq(Cell) /\ Len(bytes) = 4 * Len(list)
               /\ \A j \in 1 .. Len(list), k \in 1 .. 4 :
                      bytes[4 * (j - 1) + k] = [value |-> list[j], place |-> k, of |-> 4]
<1> DEFINE n == Len(list)
           parts == [i \in DOMAIN list |-> Bytes(list[i], 4)]
           bytes == FlattenSeq(parts)
<1>1. n \in Nat /\ DOMAIN list = 1 .. n /\ \A i \in 1 .. n : list[i] \in Nat
  OBVIOUS
<1>2. \A i \in 1 .. n : /\ Bytes(list[i], 4) \in Seq(Cell) /\ Len(Bytes(list[i], 4)) = 4
                        /\ \A k \in 1 .. 4 : Bytes(list[i], 4)[k] = [value |-> list[i], place |-> k, of |-> 4]
  <2> SUFFICES ASSUME NEW i \in 1 .. n
               PROVE  /\ Bytes(list[i], 4) \in Seq(Cell) /\ Len(Bytes(list[i], 4)) = 4
                      /\ \A k \in 1 .. 4 : Bytes(list[i], 4)[k] = [value |-> list[i], place |-> k, of |-> 4]
    OBVIOUS
  <2> DEFINE v == list[i]
  <2>1. v \in Nat
    BY <1>1
  <2> HIDE DEF v
  <2>2. /\ Bytes(v, 4) \in Seq(Cell) /\ Len(Bytes(v, 4)) = 4
        /\ \A k \in 1 .. 4 : Bytes(v, 4)[k] = [value |-> v, place |-> k, of |-> 4]
    BY <2>1, BytesAre
  <2> QED BY <2>2 DEF v
<1>3. parts \in Seq(Seq(Cell)) /\ Len(parts) = n /\ \A i \in 1 .. n : parts[i] = Bytes(list[i], 4)
  <2>1. parts = [i \in 1 .. n |-> Bytes(list[i], 4)]
    BY <1>1
  <2>2. \A i \in 1 .. n : Bytes(list[i], 4) \in Seq(Cell)
    BY <1>2
  <2> HIDE DEF parts, n
  <2> QED BY <1>1, <2>1, <2>2
<1> HIDE DEF n, parts
<1>4. PICK off : IsLayout(off, parts)
  BY <1>3, FlattenLayout
<1>5. /\ off \in [0 .. n -> Nat] /\ off[0] = 0 /\ off[n] = Len(bytes)
      /\ \A i \in 1 .. n : off[i] = off[i - 1] + 4
      /\ \A i \in 1 .. n : \A k \in 1 .. 4 : bytes[off[i - 1] + k] = parts[i][k]
  <2>1. /\ off \in [0 .. n -> Nat] /\ off[0] = 0 /\ off[n] = Len(bytes)
        /\ \A i \in 1 .. n : off[i] = off[i - 1] + Len(parts[i])
        /\ \A i \in 1 .. n : \A k \in 1 .. Len(parts[i]) : bytes[off[i - 1] + k] = parts[i][k]
    BY <1>3, <1>4 DEF IsLayout
  <2>2. \A i \in 1 .. n : Len(parts[i]) = 4
    BY <1>2, <1>3
  <2> HIDE DEF bytes
  <2> QED BY <2>1, <2>2
<1> DEFINE T == {i \in 0 .. n : off[i] = 4 * i}
<1>6. 0 .. n \subseteq T
  <2>1. 0 \in T
    BY <1>1, <1>5
  <2>2. ASSUME NEW i \in 1 .. n, i - 1 \in T PROVE i \in T
    <3>1. off[i] = off[i - 1] + 4 /\ off[i - 1] = 4 * (i - 1) /\ i \in 0 .. n
      BY <1>1, <1>5, <2>2
    <3>2. off[i] = 4 * i
      BY <3>1
    <3> QED BY <3>1, <3>2
  <2> HIDE DEF T
  <2> QED BY <1>1, <2>1, <2>2, Sweep!UpToInSteps
<1>7. Len(bytes) = 4 * n
  BY <1>1, <1>5, <1>6
<1>8. ASSUME NEW j \in 1 .. n, NEW k \in 1 .. 4
      PROVE  bytes[4 * (j - 1) + k] = [value |-> list[j], place |-> k, of |-> 4]
  <2>1. j - 1 \in 0 .. n
    BY <1>1
  <2>2. off[j - 1] = 4 * (j - 1)
    BY <1>6, <2>1
  <2>3. bytes[off[j - 1] + k] = parts[j][k]
    BY <1>5
  <2> HIDE DEF bytes
  <2> QED BY <1>2, <1>3, <2>2, <2>3
<1>9. bytes \in Seq(Cell)
  BY <1>3, FlattenLayout
<1> QED BY <1>7, <1>8, <1>9 DEF n, parts

LEMMA OffsetsGrow ==
    ASSUME NEW msg \in Message, NEW off, Offsets(off, msg)
    PROVE  \A i \in 0 .. Len(FormatOf(msg)) : off[i] \in Nat /\ off[i] <= Len(FixedPart(msg))
<1> DEFINE n == Len(FormatOf(msg))
           T == {d \in 0 .. n : off[n - d] <= off[n]}
<1>1. /\ n \in Nat /\ off \in [0 .. n -> Nat] /\ off[n] = Len(FixedPart(msg))
      /\ \A i \in 1 .. n : off[i] = off[i - 1] + FieldSize(msg, FormatOf(msg)[i])
  BY HeaderPart DEF Offsets
<1>2. \A i \in 1 .. n : FieldSize(msg, FormatOf(msg)[i]) \in Nat
  BY FieldTypes
<1> HIDE DEF n
<1>3. 0 .. n \subseteq T
  <2>1. 0 \in T
    BY <1>1
  <2>2. ASSUME NEW d \in 1 .. n, d - 1 \in T PROVE d \in T
    <3> DEFINE i == n - (d - 1)
    <3>1. i \in 1 .. n /\ i \in 0 .. n /\ i - 1 \in 0 .. n /\ i - 1 = n - d /\ n \in 0 .. n /\ d \in 0 .. n
      BY <1>1
    <3>2. off[i] <= off[n]
      BY <2>2
    <3> HIDE DEF i
    <3>3. off[i] = off[i - 1] + FieldSize(msg, FormatOf(msg)[i]) /\ FieldSize(msg, FormatOf(msg)[i]) \in Nat
      BY <1>1, <1>2, <3>1
    <3>4. off[i] \in Nat /\ off[i - 1] \in Nat /\ off[n] \in Nat
      BY <1>1, <3>1
    <3>5. off[n - d] <= off[n]
      BY <3>1, <3>2, <3>3, <3>4
    <3> QED BY <3>1, <3>5
  <2> HIDE DEF T
  <2> QED BY <1>1, <2>1, <2>2, Sweep!UpToInSteps
<1>4. ASSUME NEW i \in 0 .. n PROVE off[i] \in Nat /\ off[i] <= off[n]
  <2>1. n - i \in 0 .. n /\ n - (n - i) = i
    BY <1>1
  <2>2. off[n - (n - i)] <= off[n]
    BY <1>3, <2>1
  <2> QED BY <1>1, <2>1, <2>2
<1> QED BY <1>1, <1>4 DEF n

LEMMA EncodeBegins ==
    ASSUME NEW msg \in Message
    PROVE  /\ Len(FixedPart(msg)) \in Nat
           /\ Len(Encode(msg)) = Len(FixedPart(msg)) + 4 * Len(msg.list)
           /\ \E off : Offsets(off, msg) /\ Begins(Encode(msg), off, msg)
<1> DEFINE n == Len(FormatOf(msg))
           fixed == FixedPart(msg)
           list == msg.list
           rest == FlattenSeq([i \in DOMAIN list |-> Bytes(list[i], 4)])
           data == Encode(msg)
<1>1. list \in Seq(Nat) /\ Len(list) \in Nat
  <2>1. list \in Seq(Nat)
    BY MessageAssumption
  <2> HIDE DEF list
  <2> QED BY <2>1
<1>2. data = fixed \o rest
  BY DEF Encode
<1>3. /\ rest \in Seq(Cell) /\ Len(rest) = 4 * Len(list)
      /\ \A j \in 1 .. Len(list), k \in 1 .. 4 :
             rest[4 * (j - 1) + k] = [value |-> list[j], place |-> k, of |-> 4]
  BY <1>1, ListLayout
<1>4. fixed \in Seq(Cell) /\ Len(fixed) \in Nat
  BY FixedLayout
<1>5. PICK off : /\ Offsets(off, msg)
                 /\ \A i \in 1 .. n : LET e == EncodeField(msg, FormatOf(msg)[i])
                                     IN  \A k \in 1 .. Len(e) : fixed[off[i - 1] + k] = e[k]
  BY FixedLayout
<1>6. n \in Nat /\ \A i \in 0 .. n : off[i] \in Nat /\ off[i] <= Len(fixed)
  BY <1>5, HeaderPart, OffsetsGrow
<1>7. \A i \in 1 .. n : off[i] = off[i - 1] + FieldSize(msg, FormatOf(msg)[i])
  BY <1>5 DEF Offsets
<1> HIDE DEF fixed, list, rest, data, n
<1>8. /\ data \in Seq(Cell) /\ Len(data) = Len(fixed) + 4 * Len(list)
      /\ \A k \in 1 .. Len(data) : data[k] = IF k <= Len(fixed) THEN fixed[k] ELSE rest[k - Len(fixed)]
  <2>1. /\ fixed \o rest \in Seq(Cell) /\ Len(fixed \o rest) = Len(fixed) + Len(rest)
        /\ \A k \in 1 .. Len(fixed) + Len(rest) :
              (fixed \o rest)[k] = IF k <= Len(fixed) THEN fixed[k] ELSE rest[k - Len(fixed)]
    BY <1>3, <1>4, ConcatProperties
  <2> QED BY <1>2, <1>3, <2>1
<1>9. ASSUME NEW i \in 1 .. n PROVE FieldLies(data, off[i - 1], msg, FormatOf(msg)[i])
  <2> DEFINE e == EncodeField(msg, FormatOf(msg)[i])
             o == off[i - 1]
  <2>1. e \in Seq(Cell) /\ Len(e) = FieldSize(msg, FormatOf(msg)[i]) /\ Len(e) \in Nat
    <3>1. e \in Seq(Cell) /\ Len(e) = FieldSize(msg, FormatOf(msg)[i])
      BY FieldEncoded DEF n
    <3> HIDE DEF e
    <3> QED BY <3>1
  <2>2. o \in Nat /\ o + Len(e) <= Len(fixed)
    <3>1. i \in 0 .. n /\ i - 1 \in 0 .. n
      BY <1>6
    <3>2. off[i] = o + Len(e)
      BY <1>7, <2>1
    <3> QED BY <1>6, <3>1, <3>2
  <2>3. \A k \in 1 .. Len(e) : fixed[o + k] = e[k]
    BY <1>5
  <2>4. \A d \in Seq(Cell), b \in Nat :
            (\A k \in 1 .. Len(e) : d[b + k] = e[k]) => FieldLies(d, b, msg, FormatOf(msg)[i])
    BY FieldEncoded DEF n
  <2> HIDE DEF e, o
  <2>5. ASSUME NEW k \in 1 .. Len(e) PROVE data[o + k] = e[k]
    <3> DEFINE j == o + k
    <3>1. j \in 1 .. Len(data) /\ j <= Len(fixed)
      BY <1>1, <1>4, <1>8, <2>1, <2>2
    <3>2. fixed[j] = e[k]
      BY <2>3
    <3> HIDE DEF j
    <3>3. data[j] = e[k]
      BY <1>8, <3>1, <3>2
    <3> QED BY <3>3 DEF j
  <2> QED BY <1>8, <2>2, <2>4, <2>5 DEF o
<1>10. ASSUME NEW i \in 1 .. Len(list) PROVE Lies(data, Len(fixed) + 4 * (i - 1), list[i], 4)
  <2> SUFFICES ASSUME NEW k \in 1 .. 4
               PROVE  data[Len(fixed) + 4 * (i - 1) + k] = [value |-> list[i], place |-> k, of |-> 4]
    BY DEF Lies
  <2> DEFINE j == Len(fixed) + 4 * (i - 1) + k
             r == 4 * (i - 1) + k
  <2>1. j \in 1 .. Len(data) /\ ~(j <= Len(fixed)) /\ j - Len(fixed) = r
    BY <1>1, <1>4, <1>8
  <2>2. rest[r] = [value |-> list[i], place |-> k, of |-> 4]
    BY <1>3
  <2> HIDE DEF j, r
  <2>3. data[j] = [value |-> list[i], place |-> k, of |-> 4]
    BY <1>8, <2>1, <2>2
  <2> QED BY <2>3 DEF j
<1>11. Len(data) <= Len(fixed) + 4 * Len(list)
  BY <1>1, <1>4, <1>8
<1>12. Begins(data, off, msg)
  BY <1>8, <1>9, <1>10, <1>11 DEF Begins, n, fixed, list
<1> QED BY <1>4, <1>5, <1>8, <1>12 DEF fixed, list, data

\* What arrives is a beginning of the datagram.
LEMMA Arrives ==
    ASSUME NEW msg \in Message, NEW n \in 0 .. Len(Encode(msg))
    PROVE  /\ Len(Arriving(msg, n)) = n
           /\ \E off : Offsets(off, msg) /\ Begins(Arriving(msg, n), off, msg)
<1> DEFINE all == Encode(msg)
           data == Arriving(msg, n)
<1>1. PICK off : Offsets(off, msg) /\ Begins(all, off, msg)
  BY EncodeBegins
<1>2. all \in Seq(Cell) /\ Len(all) \in Nat /\ Len(all) <= Len(FixedPart(msg)) + 4 * Len(msg.list)
  <2>1. all \in Seq(Cell) /\ Len(all) <= Len(FixedPart(msg)) + 4 * Len(msg.list)
    BY <1>1 DEF Begins
  <2> HIDE DEF all
  <2> QED BY <2>1
<1>3. data = SubSeq(all, 1, n)
  BY DEF Arriving
<1> HIDE DEF all
<1>4. n \in 0 .. Len(all)
  BY DEF all
<1> HIDE DEF data
<1>5. data \in Seq(Cell) /\ Len(data) = n /\ \A k \in 1 .. n : data[k] = all[k]
  <2>1. \A k \in 1 .. n : all[k] \in Cell
    BY <1>2, <1>4
  <2>2. /\ SubSeq(all, 1, n) \in Seq(Cell)
        /\ Len(SubSeq(all, 1, n)) = IF 1 <= n THEN n - 1 + 1 ELSE 0
        /\ \A k \in 1 .. n - 1 + 1 : SubSeq(all, 1, n)[k] = all[1 + k - 1]
    BY <1>2, <1>4, <2>1, SubSeqProperties
  <2>3. n - 1 + 1 = n /\ (IF 1 <= n THEN n - 1 + 1 ELSE 0) = n /\ \A k \in 1 .. n : 1 + k - 1 = k
    BY <1>2, <1>4
  <2> QED BY <1>3, <2>2, <2>3
<1>6. ASSUME NEW o \in Nat, NEW v, NEW m \in Nat, Lies(all, o, v, m) PROVE Lies(data, o, v, m)
  <2> SUFFICES ASSUME NEW k \in 1 .. m, o + k <= n
               PROVE  data[o + k] = [value |-> v, place |-> k, of |-> m]
    BY <1>5 DEF Lies
  <2> DEFINE j == o + k
  <2>1. j \in 1 .. n /\ j <= Len(all)
    BY <1>2, <1>4
  <2>2. all[j] = [value |-> v, place |-> k, of |-> m]
    BY <1>6, <2>1 DEF Lies
  <2> HIDE DEF j
  <2>3. data[j] = [value |-> v, place |-> k, of |-> m]
    BY <1>5, <2>1, <2>2
  <2> QED BY <2>3 DEF j
<1>7. ASSUME NEW i \in 1 .. Len(FormatOf(msg)) PROVE FieldLies(data, off[i - 1], msg, FormatOf(msg)[i])
  <2> DEFINE f == FormatOf(msg)[i]
             o == off[i - 1]
  <2>1. FieldLies(all, o, msg, f)
    BY <1>1 DEF Begins
  <2>2. /\ o \in Nat /\ o + 1 \in Nat /\ 1 \in Nat
        /\ f.width = Text => NameSize[msg[f.name]] \in Nat
        /\ f.width # Text => f.width \in Nat
    <3>1. i - 1 \in 0 .. Len(FormatOf(msg))
      BY HeaderPart
    <3>2. o \in Nat
      BY <1>1, <3>1, OffsetsGrow
    <3>3. f \in Fields /\ (f.width = Text => NameSize[msg[f.name]] \in Nat)
      BY FieldTypes
    <3> HIDE DEF o, f
    <3> QED BY <3>2, <3>3 DEF Fields
  <2> HIDE DEF o, f
  <2>3. FieldLies(data, o, msg, f)
    BY <1>6, <2>1, <2>2 DEF FieldLies
  <2> QED BY <2>3 DEF o, f
<1>8. ASSUME NEW j \in 1 .. Len(msg.list)
      PROVE  Lies(data, Len(FixedPart(msg)) + 4 * (j - 1), msg.list[j], 4)
  <2>1. Lies(all, Len(FixedPart(msg)) + 4 * (j - 1), msg.list[j], 4)
    BY <1>1 DEF Begins
  <2>2. Len(FixedPart(msg)) + 4 * (j - 1) \in Nat /\ 4 \in Nat
    BY EncodeBegins
  <2> QED BY <1>6, <2>1, <2>2
<1>9. Len(data) <= Len(FixedPart(msg)) + 4 * Len(msg.list)
  <2>1. Len(FixedPart(msg)) \in Nat /\ Len(msg.list) \in Nat
    <3>1. msg.list \in Seq(Nat)
      BY MessageAssumption
    <3> QED BY <3>1, EncodeBegins
  <2> QED BY <1>2, <1>4, <1>5, <2>1
<1>10. Begins(data, off, msg)
  BY <1>5, <1>7, <1>8, <1>9 DEF Begins
<1> QED BY <1>1, <1>5, <1>10 DEF data

-----------------------------------------------------------------------------
(***************************************************************************)
(* Reading the fields of a message                                         *)
(***************************************************************************)
Pointers(data) == [size : {Len(data)}, length : 0 .. Len(data), statusOK : BOOLEAN]

Values == UNION {[D -> Nat] : D \in SUBSET Keys}

Readers(data) == [packet : Pointers(data), values : Values]

\* A read moves the pointer inside the datagram, or fails; no read undoes a failure.
LEMMA PointerMoves ==
    ASSUME NEW data \in Seq(Cell), NEW p \in Pointers(data), NEW n \in Nat
    PROVE  /\ ReadBytes(p, n) \in Pointers(data)
           /\ p.length + n <= Len(data) => /\ ReadBytes(p, n).length = p.length + n
                                           /\ ReadBytes(p, n).statusOK = p.statusOK
           /\ p.length + n > Len(data) => /\ ReadBytes(p, n).length = p.length
                                          /\ ~ReadBytes(p, n).statusOK
           /\ ReadBytes(p, n).statusOK => p.statusOK
<1>1. Len(data) \in Nat
  OBVIOUS
<1>2. p.size = Len(data) /\ p.length \in Nat /\ p.length <= Len(data) /\ p.statusOK \in BOOLEAN
  BY <1>1 DEF Pointers
<1>3. CASE n = 0
  BY <1>1, <1>2, <1>3 DEF ReadBytes
<1>4. CASE n # 0 /\ p.length + n > Len(data)
  <2>1. ReadBytes(p, n) = [size |-> p.size, length |-> p.length, statusOK |-> FALSE]
    BY <1>2, <1>4 DEF ReadBytes, Failed
  <2> DEFINE q == ReadBytes(p, n)
  <2>2. q.size = p.size /\ q.length = p.length /\ q.statusOK = FALSE
    BY <2>1
  <2>3. q \in Pointers(data)
    BY <1>1, <1>2, <2>1 DEF Pointers
  <2> HIDE DEF q
  <2>4. ~(p.length + n <= Len(data))
    BY <1>1, <1>2, <1>4
  <2>5. q \in Pointers(data) /\ q.length = p.length /\ ~q.statusOK
    BY <2>2, <2>3
  <2> QED BY <2>4, <2>5 DEF q
<1>5. CASE n # 0 /\ p.length + n <= Len(data)
  <2>1. ReadBytes(p, n) = [size |-> p.size, length |-> p.length + n, statusOK |-> p.statusOK]
    BY <1>1, <1>2, <1>5 DEF ReadBytes, Moved
  <2> QED BY <1>1, <1>2, <1>5, <2>1 DEF Pointers
<1> QED BY <1>1, <1>2, <1>3, <1>4, <1>5

LEMMA ByteRead ==
    ASSUME NEW data \in Seq(Cell), NEW p \in Pointers(data)
    PROVE  ReadU8(p) = ReadBytes(p, 1)
<1>1. p.size \in Nat /\ p.length \in Nat
  BY DEF Pointers
<1> QED BY <1>1 DEF ReadU8, ReadBytes

LEMMA ValueTypes ==
    ASSUME NEW data \in Seq(Cell), NEW p \in Pointers(data), NEW n \in Nat
    PROVE  /\ ValueAt(data, p, n) \in Nat
           /\ p.length + n > Len(data) => ValueAt(data, p, n) = 0
<1> DEFINE cells == SubSeq(data, p.length + 1, p.length + n)
<1>1. p.size = Len(data) /\ p.length \in Nat /\ Len(data) \in Nat
  BY DEF Pointers
<1>2. CASE n > 0 /\ p.length + n <= p.size
  <2> DEFINE a == p.length + 1
             b == p.length + n
  <2>1. a \in Int /\ b \in Int /\ 1 \in 1 .. b - a + 1 /\ a + 1 - 1 = a /\ a \in 1 .. Len(data)
        /\ \A i \in a .. b : i \in 1 .. Len(data)
    BY <1>1, <1>2
  <2>2. \A i \in a .. b : data[i] \in Cell
    BY <2>1
  <2> HIDE DEF a, b
  <2>3. SubSeq(data, a, b)[1] = data[a]
    BY <2>1, <2>2, SubSeqProperties
  <2>4. cells[1] \in Cell
    BY <2>1, <2>3 DEF a, b
  <2> HIDE DEF cells
  <2>5. cells[1].value \in Nat
    BY <2>4 DEF Cell
  <2> QED BY <1>1, <1>2, <2>5 DEF ValueAt, cells
<1>3. CASE ~(n > 0 /\ p.length + n <= p.size)
  BY <1>1, <1>3 DEF ValueAt
<1> QED BY <1>1, <1>2, <1>3

\* A value is got from where it lies.
LEMMA ValueThere ==
    ASSUME NEW data \in Seq(Cell), NEW p \in Pointers(data), NEW n \in Nat \ {0}, NEW v \in Nat,
           Lies(data, p.length, v, n), p.length + n <= Len(data)
    PROVE  ValueAt(data, p, n) = v
<1> DEFINE a == p.length + 1
           b == p.length + n
           cells == SubSeq(data, a, b)
<1>1. p.size = Len(data) /\ p.length \in Nat /\ Len(data) \in Nat
  BY DEF Pointers
<1>2. a \in Int /\ b \in Int /\ a <= b /\ b - a + 1 = n /\ \A i \in a .. b : i \in 1 .. Len(data)
  BY <1>1
<1>3. \A k \in 1 .. n : a + k - 1 = p.length + k /\ p.length + k <= Len(data)
  BY <1>1
<1>4. \A k \in 1 .. n : data[a + k - 1] = [value |-> v, place |-> k, of |-> n]
  BY <1>3 DEF Lies
<1>5. \A i \in a .. b : data[i] \in Cell
  BY <1>2
<1>6. b <= p.size
  BY <1>1
<1>7. ValueAt(data, p, n) = IF n > 0 /\ b <= p.size /\ cells = Bytes(cells[1].value, n)
                            THEN cells[1].value ELSE 0
  BY DEF ValueAt
<1> HIDE DEF a, b
<1>8. cells \in Seq(Cell) /\ Len(cells) = n /\ \A k \in 1 .. n : cells[k] = data[a + k - 1]
  <2>1. /\ SubSeq(data, a, b) \in Seq(Cell)
        /\ Len(SubSeq(data, a, b)) = IF a <= b THEN b - a + 1 ELSE 0
        /\ \A k \in 1 .. b - a + 1 : SubSeq(data, a, b)[k] = data[a + k - 1]
    BY <1>2, <1>5, SubSeqProperties
  <2> QED BY <1>2, <2>1
<1> HIDE DEF cells
<1>9. \A k \in 1 .. n : cells[k] = [value |-> v, place |-> k, of |-> n]
  BY <1>4, <1>8
<1>10. cells[1].value = v
  <2>1. 1 \in 1 .. n
    OBVIOUS
  <2>2. cells[1] = [value |-> v, place |-> 1, of |-> n]
    BY <1>9, <2>1
  <2> QED BY <2>2
<1>11. cells = Bytes(v, n)
  <2>1. /\ Bytes(v, n) \in Seq(Cell) /\ Len(Bytes(v, n)) = n
        /\ \A k \in 1 .. n : Bytes(v, n)[k] = [value |-> v, place |-> k, of |-> n]
    BY BytesAre
  <2> QED BY <1>8, <1>9, <2>1, SeqEqual
<1> QED BY <1>6, <1>7, <1>10, <1>11

LEMMA WithTypes ==
    ASSUME NEW values \in Values, NEW name \in Keys, NEW v \in Nat
    PROVE  /\ Put(values, name, v) \in Values
           /\ DOMAIN Put(values, name, v) = DOMAIN values \cup {name}
           /\ \A b \in DOMAIN values \cup {name} :
                  Put(values, name, v)[b] = IF b = name THEN v ELSE values[b]
<1>1. PICK D \in SUBSET Keys : values \in [D -> Nat]
  BY DEF Values
<1>2. Put(values, name, v) \in [D \cup {name} -> Nat]
  BY <1>1 DEF Put
<1>3. D \cup {name} \in SUBSET Keys
  OBVIOUS
<1> QED BY <1>1, <1>2, <1>3 DEF Values, Put

\* What ReadField gets.
Got(data, p, f) == IF f.width = Text THEN ReadCString(data, p) ELSE ReadNumber(data, p, f.width)

LEMMA GotTypes ==
    ASSUME NEW data \in Seq(Cell), NEW p \in Pointers(data), NEW f \in Fields
    PROVE  /\ Got(data, p, f).packet \in Pointers(data) /\ Got(data, p, f).value \in Nat
           /\ Got(data, p, f).packet.statusOK => p.statusOK
<1> DEFINE got == Got(data, p, f)
<1>1. f.width \in Nat
  BY DEF Fields, Text
<1>2. CASE f.width = Text
  <2> DEFINE length == ValueAt(data, p, 1)
             chars == ReadU8(p)
  <2>1. length \in Nat
    BY ValueTypes
  <2>2. chars \in Pointers(data) /\ (chars.statusOK => p.statusOK)
    BY ByteRead, PointerMoves
  <2>3. got = [packet |-> ReadBytes(chars, length), value |-> ValueAt(data, chars, length)]
    BY <1>2 DEF Got, ReadCString
  <2> HIDE DEF length, chars
  <2>4. /\ ReadBytes(chars, length) \in Pointers(data)
        /\ ReadBytes(chars, length).statusOK => chars.statusOK
        /\ ValueAt(data, chars, length) \in Nat
    BY <2>1, <2>2, PointerMoves, ValueTypes
  <2> QED BY <2>2, <2>3, <2>4
<1>3. CASE f.width # Text
  <2> DEFINE w == f.width
  <2>1. got = [packet |-> ReadBytes(p, w), value |-> ValueAt(data, p, w)]
    BY <1>3 DEF Got, ReadNumber
  <2> HIDE DEF w
  <2>2. w \in Nat
    BY <1>1 DEF w
  <2>3. /\ ReadBytes(p, w) \in Pointers(data) /\ ValueAt(data, p, w) \in Nat
        /\ ReadBytes(p, w).statusOK => p.statusOK
    BY <2>2, PointerMoves, ValueTypes
  <2> QED BY <2>1, <2>3
<1> QED BY <1>2, <1>3

LEMMA FieldRead ==
    ASSUME NEW data \in Seq(Cell), NEW r \in Readers(data), NEW f \in Fields
    PROVE  LET q == ReadField(data, r, f)
           IN  /\ q \in Readers(data)
               /\ q.packet = Got(data, r.packet, f).packet
               /\ q.packet.statusOK => r.packet.statusOK
               /\ DOMAIN q.values = DOMAIN r.values \cup {f.name}
               /\ \A b \in DOMAIN r.values \cup {f.name} :
                      q.values[b] = IF b = f.name THEN Got(data, r.packet, f).value ELSE r.values[b]
<1> DEFINE q == ReadField(data, r, f)
           got == Got(data, r.packet, f)
           values == Put(r.values, f.name, got.value)
<1>1. r.packet \in Pointers(data) /\ r.values \in Values /\ f.name \in Keys
  BY DEF Readers, Fields
<1>2. got.packet \in Pointers(data) /\ got.value \in Nat /\ (got.packet.statusOK => r.packet.statusOK)
  BY <1>1, GotTypes
<1>3. q = [packet |-> got.packet, values |-> values]
  BY DEF ReadField, Got, Reader
<1> HIDE DEF got
<1>4. /\ values \in Values /\ DOMAIN values = DOMAIN r.values \cup {f.name}
      /\ \A b \in DOMAIN r.values \cup {f.name} : values[b] = IF b = f.name THEN got.value ELSE r.values[b]
  <2> DEFINE old == r.values
             name == f.name
             v == got.value
  <2>1. old \in Values /\ name \in Keys /\ v \in Nat
    BY <1>1, <1>2
  <2> HIDE DEF old, name, v
  <2>2. /\ Put(old, name, v) \in Values
        /\ DOMAIN Put(old, name, v) = DOMAIN old \cup {name}
        /\ \A b \in DOMAIN old \cup {name} : Put(old, name, v)[b] = IF b = name THEN v ELSE old[b]
    BY <2>1, WithTypes
  <2> QED BY <2>2 DEF old, name, v
<1> HIDE DEF values, q
<1>5. q \in Readers(data) /\ q.packet = got.packet /\ q.values = values
  BY <1>2, <1>3, <1>4 DEF Readers
<1> QED BY <1>2, <1>4, <1>5 DEF q, got

\* Read is a run of ReadField over the format.
LEMMA ReadSteps ==
    ASSUME NEW data \in Seq(Cell), NEW r \in Readers(data), NEW format \in Seq(Fields)
    PROVE  \E after \in [0 .. Len(format) -> Readers(data)] :
               /\ after[0] = r
               /\ \A i \in 1 .. Len(format) : after[i] = ReadField(data, after[i - 1], format[i])
               /\ Read(data, r, format) = after[Len(format)]
<1> DEFINE n == Len(format)
           V == Readers(data)
           Body(g) == [i \in 0 .. n |-> IF i = 0 THEN r ELSE ReadField(data, g[i - 1], format[i])]
           step == [x \in V \X (1 .. n) |-> ReadField(data, x[1], format[x[2]])]
<1>1. n \in Nat /\ \A i \in 1 .. n : format[i] \in Fields
  OBVIOUS
<1>2. step \in [V \X (1 .. n) -> V]
  <2>1. \A x \in V \X (1 .. n) : ReadField(data, x[1], format[x[2]]) \in V
    BY <1>1, FieldRead
  <2> HIDE DEF V
  <2> QED BY <2>1
<1>3. \A q \in V, i \in 1 .. n : step[<<q, i>>] = ReadField(data, q, format[i])
  OBVIOUS
<1> HIDE DEF step, n
<1>4. PICK f \in [0 .. n -> V] : Sweep!IsRecursion(f, n, r, step)
  BY <1>1, <1>2, Sweep!RecursionDefines
<1>5. f = Body(f)
  <2>1. f = [i \in 0 .. n |-> IF i = 0 THEN r ELSE step[<<f[i - 1], i>>]]
    BY <1>4 DEF Sweep!IsRecursion
  <2>2. \A i \in 0 .. n : f[i] = IF i = 0 THEN r ELSE step[<<f[i - 1], i>>]
    BY <2>1
  <2>3. \A i \in 0 .. n : i # 0 => i - 1 \in 0 .. n /\ i \in 1 .. n
    BY <1>1
  <2>4. \A i \in 0 .. n : f[i] = IF i = 0 THEN r ELSE ReadField(data, f[i - 1], format[i])
    BY <1>3, <2>2, <2>3
  <2>5. f = [i \in 0 .. n |-> f[i]]
    OBVIOUS
  <2> QED BY <2>4, <2>5
<1> DEFINE g == CHOOSE g : g = Body(g)
<1>6. g = Body(g)
  BY <1>5
<1>7. Read(data, r, format) = g[n]
  BY DEF Read, n
<1> HIDE DEF g
<1>8. \A i \in 0 .. n : g[i] = IF i = 0 THEN r ELSE ReadField(data, g[i - 1], format[i])
  BY <1>6
<1>9. 0 \in 0 .. n /\ \A i \in 1 .. n : i \in 0 .. n /\ i # 0 /\ i - 1 \in 0 .. n
  BY <1>1
<1>10. g[0] = r /\ \A i \in 1 .. n : g[i] = ReadField(data, g[i - 1], format[i])
  BY <1>8, <1>9
<1> DEFINE T == {i \in 0 .. n : g[i] \in V}
<1>11. 0 .. n \subseteq T
  <2>1. 0 \in T
    BY <1>9, <1>10
  <2>2. ASSUME NEW i \in 1 .. n, i - 1 \in T PROVE i \in T
    <3>1. g[i] = ReadField(data, g[i - 1], format[i]) /\ g[i - 1] \in V
      BY <1>10, <2>2
    <3> DEFINE before == g[i - 1]
               field == format[i]
    <3>2. before \in Readers(data) /\ field \in Fields
      BY <1>1, <3>1
    <3> HIDE DEF before, field
    <3>3. ReadField(data, before, field) \in Readers(data)
      BY <3>2, FieldRead
    <3>4. g[i] \in V
      BY <3>1, <3>3 DEF before, field
    <3> QED BY <1>9, <3>4
  <2> HIDE DEF T, V
  <2> QED BY <1>1, <2>1, <2>2, Sweep!UpToInSteps
<1>12. g \in [0 .. n -> V]
  <2>1. \A i \in 0 .. n : g[i] \in V
    BY <1>11
  <2>2. g = [i \in 0 .. n |-> g[i]]
    BY <1>6
  <2> HIDE DEF V
  <2> QED BY <2>1, <2>2
<1> QED BY <1>7, <1>10, <1>12 DEF n

\* A field is read whole where it lies, if the datagram goes that far; or the
\* read fails.
LEMMA FieldWhole ==
    ASSUME NEW msg \in Message, NEW i \in 1 .. Len(FormatOf(msg)), NEW data \in Seq(Cell),
           NEW p \in Pointers(data), FieldLies(data, p.length, msg, FormatOf(msg)[i])
    PROVE  LET f == FormatOf(msg)[i]
               end == p.length + FieldSize(msg, f)
           IN  /\ end <= Len(data) => /\ Got(data, p, f).packet.length = end
                                      /\ Got(data, p, f).packet.statusOK = p.statusOK
                                      /\ Got(data, p, f).value = msg[f.name]
               /\ end > Len(data) => ~Got(data, p, f).packet.statusOK
<1> DEFINE f == FormatOf(msg)[i]
           v == msg[f.name]
           size == FieldSize(msg, f)
           end == p.length + size
           got == Got(data, p, f)
<1>1. /\ f \in Fields /\ v \in Nat /\ size \in Nat \ {0}
      /\ f.width = Text => v \in DOMAIN NameSize /\ NameSize[v] \in Nat
  BY FieldTypes
<1>2. p.length \in Nat /\ Len(data) \in Nat
  BY DEF Pointers
<1>3. CASE f.width = Text
  <2> DEFINE n == NameSize[v]
             length == ValueAt(data, p, 1)
             chars == ReadBytes(p, 1)
             last == ReadBytes(chars, length)
             value == ValueAt(data, chars, length)
  <2>1. n \in Nat /\ size = 1 + n /\ (n = 0 => v = 0)
    <3>1. v \in DOMAIN NameSize
      BY <1>1, <1>3
    <3> QED BY <1>1, <1>3, <3>1, NameAssumption DEF FieldSize, Empty
  <2>2. Lies(data, p.length, n, 1) /\ Lies(data, p.length + 1, v, n)
    BY <1>3 DEF FieldLies
  <2>3. got = [packet |-> last, value |-> value]
    BY <1>3, ByteRead DEF Got, ReadCString
  <2>4. length \in Nat /\ chars \in Pointers(data) /\ last \in Pointers(data)
        /\ (last.statusOK => chars.statusOK)
    <3>1. length \in Nat /\ chars \in Pointers(data)
      BY ValueTypes, PointerMoves
    <3> HIDE DEF length, chars
    <3> QED BY <3>1, PointerMoves
  <2>5. CASE p.length + 1 > Len(data)
    <3>1. ~chars.statusOK
      BY <2>5, PointerMoves
    <3>2. end > Len(data) /\ ~(end <= Len(data))
      BY <1>2, <2>1, <2>5
    <3>3. ~last.statusOK
      BY <2>4, <3>1
    <3> HIDE DEF last, end, got
    <3> QED BY <2>3, <3>2, <3>3 DEF got, end
  <2>6. CASE p.length + 1 <= Len(data)
    <3>1. length = n
      <4>1. 1 \in Nat \ {0}
        OBVIOUS
      <4> HIDE DEF n
      <4> QED BY <2>1, <2>2, <2>6, <4>1, ValueThere
    <3>2. chars.length = p.length + 1 /\ chars.statusOK = p.statusOK
      BY <2>6, PointerMoves
    <3> HIDE DEF length, chars, n, v, f
    <3>3. /\ chars.length + n <= Len(data) => /\ last.length = chars.length + n
                                              /\ last.statusOK = chars.statusOK
          /\ chars.length + n > Len(data) => ~last.statusOK
      BY <2>1, <2>4, <3>1, PointerMoves
    <3>4. chars.length + n = end
      BY <1>2, <2>1, <3>2
    <3>5. end <= Len(data) => value = v
      <4> SUFFICES ASSUME end <= Len(data) PROVE ValueAt(data, chars, n) = v
        BY <3>1
      <4>1. CASE n = 0
        BY <2>1, <4>1 DEF ValueAt
      <4>2. CASE n # 0
        <5>1. Lies(data, chars.length, v, n) /\ chars.length + n <= Len(data)
          BY <2>2, <3>2, <3>4
        <5> QED BY <1>1, <2>1, <2>4, <4>2, <5>1, ValueThere
      <4> QED BY <4>1, <4>2
    <3> HIDE DEF last, value, end, got
    <3>6. /\ end <= Len(data) => /\ got.packet.length = end /\ got.packet.statusOK = p.statusOK
                                 /\ got.value = v
          /\ end > Len(data) => ~got.packet.statusOK
      BY <2>3, <3>2, <3>3, <3>4, <3>5
    <3> QED BY <3>6 DEF got, end, v, f
  <2> QED BY <1>2, <2>5, <2>6
<1>4. CASE f.width # Text
  <2> DEFINE w == f.width
             last == ReadBytes(p, w)
             value == ValueAt(data, p, w)
  <2>1. size = w /\ w \in Nat \ {0}
    BY <1>1, <1>4 DEF FieldSize
  <2>2. Lies(data, p.length, v, w)
    BY <1>4 DEF FieldLies
  <2>3. got = [packet |-> last, value |-> value]
    BY <1>4 DEF Got, ReadNumber
  <2> HIDE DEF w, v, f
  <2>4. /\ p.length + w <= Len(data) => last.length = p.length + w /\ last.statusOK = p.statusOK
        /\ p.length + w > Len(data) => ~last.statusOK
    BY <2>1, PointerMoves
  <2>5. p.length + w <= Len(data) => value = v
    BY <1>1, <2>1, <2>2, ValueThere
  <2>6. end = p.length + w
    BY <2>1
  <2> HIDE DEF last, value, end, got
  <2>7. /\ end <= Len(data) => /\ got.packet.length = end /\ got.packet.statusOK = p.statusOK
                               /\ got.value = v
        /\ end > Len(data) => ~got.packet.statusOK
    BY <2>3, <2>4, <2>5, <2>6
  <2> QED BY <2>7 DEF got, end, v, f
<1> QED BY <1>3, <1>4

\* A reader that stands at the part of msg that format describes.
StandsAt(r, data, off, msg, at) ==
    r \in Readers(data) /\ r.packet.length = off[at] /\ r.packet.statusOK

HoldsOf(values, msg, format) ==
    \A j \in 1 .. Len(format) : /\ format[j].name \in DOMAIN values
                                /\ values[format[j].name] = msg[format[j].name]

\* A part of a message is read whole, or the status tells.
LEMMA PartRead ==
    ASSUME NEW msg \in Message, NEW data, NEW off, Offsets(off, msg), Begins(data, off, msg),
           NEW format, NEW at \in Nat, PartOf(format, msg, at),
           NEW r, StandsAt(r, data, off, msg, at)
    PROVE  LET q == Read(data, r, format)
               to == at + Len(format)
           IN  /\ q \in Readers(data)
               /\ off[to] <= Len(data) => /\ StandsAt(q, data, off, msg, to)
                                          /\ HoldsOf(q.values, msg, format)
               /\ off[to] > Len(data) => ~q.packet.statusOK
<1> DEFINE n == Len(format)
           total == Len(FormatOf(msg))
<1>1. format \in Seq(Fields) /\ at + n <= total /\ \A j \in 1 .. n : format[j] = FormatOf(msg)[at + j]
  BY DEF PartOf
<1>2. data \in Seq(Cell) /\ Len(data) \in Nat
  <2>1. data \in Seq(Cell)
    BY DEF Begins
  <2> QED BY <2>1
<1>3. r \in Readers(data) /\ r.packet.length = off[at] /\ r.packet.statusOK
  BY DEF StandsAt
<1>4. PICK after \in [0 .. n -> Readers(data)] :
          /\ after[0] = r
          /\ \A j \in 1 .. n : after[j] = ReadField(data, after[j - 1], format[j])
          /\ Read(data, r, format) = after[n]
  BY <1>1, <1>2, <1>3, ReadSteps
<1>5. n \in Nat /\ total \in Nat
  BY <1>1, HeaderPart
<1>6. \A i \in 0 .. total : off[i] \in Nat
  BY HeaderPart, OffsetsGrow
<1>7. \A i \in 1 .. total : off[i] = off[i - 1] + FieldSize(msg, FormatOf(msg)[i])
  BY DEF Offsets
<1>8. \A i \in 1 .. total : FieldLies(data, off[i - 1], msg, FormatOf(msg)[i])
  BY DEF Begins
<1> DEFINE Whole(q, j) == /\ q.packet.length = off[at + j] /\ q.packet.statusOK
                          /\ \A m \in 1 .. j : /\ format[m].name \in DOMAIN q.values
                                               /\ q.values[format[m].name] = msg[format[m].name]
           T == {j \in 0 .. n : IF off[at + j] <= Len(data) THEN Whole(after[j], j)
                                ELSE ~after[j].packet.statusOK}
<1> HIDE DEF n, total
<1>9. 0 \in T
  <2>1. off[at + 0] = r.packet.length /\ r.packet.length <= Len(data)
    <3>1. r.packet.length \in 0 .. Len(data)
      BY <1>3 DEF Readers, Pointers
    <3> QED BY <1>3, <3>1
  <2>2. Whole(after[0], 0)
    BY <1>3, <1>4, <2>1
  <2> QED BY <1>5, <2>1, <2>2
<1>10. ASSUME NEW j \in 1 .. n, j - 1 \in T PROVE j \in T
  <2> DEFINE i == at + j
             f == FormatOf(msg)[i]
             o == off[i - 1]
             b == after[j - 1]
             q == after[j]
             got == Got(data, b.packet, f)
  <2>1. /\ i \in 1 .. total /\ i \in 0 .. total /\ i - 1 \in 0 .. total /\ at + (j - 1) = i - 1
        /\ j \in 0 .. n /\ j - 1 \in 0 .. n /\ j \in Nat
    BY <1>1, <1>5
  <2>2. off[i] = o + FieldSize(msg, f) /\ o \in Nat /\ FieldSize(msg, f) \in Nat
        /\ FieldLies(data, o, msg, f)
    <3>1. FieldSize(msg, f) \in Nat
      BY <2>1, FieldTypes DEF total
    <3> QED BY <1>6, <1>7, <1>8, <2>1, <3>1
  <2>3. f \in Fields /\ format[j] = f
    <3>1. f \in Fields
      BY <2>1, FieldTypes DEF total
    <3> QED BY <1>1, <3>1
  <2>4. b \in Readers(data) /\ q = ReadField(data, b, f)
    BY <1>4, <2>1, <2>3
  <2>5. IF o <= Len(data) THEN Whole(b, j - 1) ELSE ~b.packet.statusOK
    <3>1. IF off[at + (j - 1)] <= Len(data) THEN Whole(after[j - 1], j - 1)
          ELSE ~after[j - 1].packet.statusOK
      BY <1>10
    <3> QED BY <2>1, <3>1
  <2>6. i \in 1 .. Len(FormatOf(msg)) /\ off[at + j] = off[i]
    BY <2>1 DEF total
  <2> HIDE DEF i, o, b, q, got
  <2>7. /\ q.packet = got.packet
        /\ q.packet.statusOK => b.packet.statusOK
        /\ DOMAIN q.values = DOMAIN b.values \cup {f.name}
        /\ \A a \in DOMAIN b.values \cup {f.name} : q.values[a] = IF a = f.name THEN got.value ELSE b.values[a]
    <3> HIDE DEF f
    <3> QED BY <1>2, <2>3, <2>4, FieldRead DEF got
  <2>8. CASE o <= Len(data)
    <3>1. Whole(b, j - 1) /\ b.packet.length = o
      BY <2>1, <2>5, <2>8 DEF o, i
    <3>2. b.packet \in Pointers(data)
      BY <2>4 DEF Readers
    <3>3. /\ off[i] <= Len(data) => /\ got.packet.length = off[i]
                                    /\ got.packet.statusOK = b.packet.statusOK
                                    /\ got.value = msg[f.name]
          /\ off[i] > Len(data) => ~got.packet.statusOK
      <4> DEFINE p == b.packet
      <4>1. p \in Pointers(data) /\ FieldLies(data, p.length, msg, FormatOf(msg)[i])
            /\ off[i] = p.length + FieldSize(msg, FormatOf(msg)[i])
        BY <2>2, <3>1, <3>2
      <4> HIDE DEF p
      <4>2. LET end == p.length + FieldSize(msg, FormatOf(msg)[i])
            IN  /\ end <= Len(data) => /\ Got(data, p, f).packet.length = end
                                       /\ Got(data, p, f).packet.statusOK = p.statusOK
                                       /\ Got(data, p, f).value = msg[f.name]
                /\ end > Len(data) => ~Got(data, p, f).packet.statusOK
        BY <1>2, <2>6, <4>1, FieldWhole
      <4> QED BY <4>1, <4>2 DEF got, p
    <3> HIDE DEF f
    <3>4. CASE off[i] <= Len(data)
      <4>1. q.packet.length = off[at + j] /\ q.packet.statusOK
        BY <2>6, <2>7, <3>1, <3>3, <3>4
      <4>2. ASSUME NEW m \in 1 .. j
            PROVE  format[m].name \in DOMAIN q.values /\ q.values[format[m].name] = msg[format[m].name]
        <5>1. CASE m = j
          BY <2>3, <2>7, <3>3, <3>4, <5>1
        <5>2. CASE m # j
          <6>1. m \in 1 .. j - 1
            BY <2>1, <5>2
          <6>2. format[m].name \in DOMAIN b.values /\ b.values[format[m].name] = msg[format[m].name]
            BY <3>1, <6>1
          <6>3. format[m].name = f.name => q.values[format[m].name] = msg[format[m].name]
            BY <2>7, <3>3, <3>4
          <6> QED BY <2>7, <6>2, <6>3
        <5> QED BY <5>1, <5>2
      <4>3. Whole(q, j)
        BY <4>1, <4>2
      <4> QED BY <2>1, <2>6, <3>4, <4>3 DEF q
    <3>5. CASE ~(off[i] <= Len(data))
      <4>1. off[i] > Len(data)
        BY <1>2, <1>6, <2>1, <2>2, <3>5 DEF i
      <4>2. ~q.packet.statusOK
        BY <2>7, <3>3, <4>1
      <4> QED BY <2>1, <2>6, <3>5, <4>2 DEF q
    <3> QED BY <3>4, <3>5
  <2>9. CASE ~(o <= Len(data))
    <3>1. ~q.packet.statusOK
      BY <2>5, <2>7, <2>9
    <3>2. ~(off[at + j] <= Len(data))
      BY <1>2, <2>2, <2>6, <2>9
    <3> QED BY <2>1, <3>1, <3>2 DEF q
  <2> QED BY <2>8, <2>9
<1> HIDE DEF T
<1>11. n \in T
  <2>1. 0 .. n \subseteq T
    BY <1>5, <1>9, <1>10, Sweep!UpToInSteps
  <2> QED BY <1>5, <2>1
<1>12. after[n] \in Readers(data) /\ off[at + n] \in Nat
  BY <1>1, <1>4, <1>5, <1>6
<1>13. IF off[at + n] <= Len(data) THEN Whole(after[n], n) ELSE ~after[n].packet.statusOK
  BY <1>11 DEF T
<1>14. CASE off[at + n] <= Len(data)
  <2>1. Whole(after[n], n) /\ ~(off[at + n] > Len(data))
    BY <1>2, <1>12, <1>13, <1>14
  <2> QED BY <1>4, <1>12, <2>1 DEF StandsAt, HoldsOf, n
<1>15. CASE ~(off[at + n] <= Len(data))
  BY <1>4, <1>12, <1>13, <1>15 DEF n
<1> QED BY <1>14, <1>15

-----------------------------------------------------------------------------
(***************************************************************************)
(* Reading a list: calls of readU32                                        *)
(***************************************************************************)
\* The first calls get an entry each, until what is left is too short for one;
\* that call and all that follow leave the pointer where it is.
LEMMA EntriesRead ==
    ASSUME NEW data \in Seq(Cell), NEW p \in Pointers(data), NEW n \in Nat
    PROVE  LET after == AfterReads(p, n)
           IN  /\ after \in [0 .. n -> Pointers(data)]
               /\ after[0] = p
               /\ \A i \in 0 .. n :
                      /\ p.length + 4 * i <= Len(data) => /\ after[i].length = p.length + 4 * i
                                                          /\ after[i].statusOK = p.statusOK
                      /\ p.length + 4 * i > Len(data) => /\ after[i].length + 4 > Len(data)
                                                         /\ ~after[i].statusOK
               /\ \A i \in 1 .. n : after[i].length > after[i - 1].length <=> p.length + 4 * i <= Len(data)
<1> DEFINE V == Pointers(data)
           Body(g) == [i \in 0 .. n |-> IF i = 0 THEN p ELSE ReadBytes(g[i - 1], 4)]
           step == [x \in V \X (1 .. n) |-> ReadBytes(x[1], 4)]
           g == CHOOSE g : g = Body(g)
<1>1. /\ Len(data) \in Nat /\ p.length \in Nat /\ p.length <= Len(data)
      /\ \A q \in V : q.length \in Nat /\ q.statusOK \in BOOLEAN
  BY DEF Pointers
<1>2. \A q \in V : /\ ReadBytes(q, 4) \in V
                   /\ q.length + 4 <= Len(data) => /\ ReadBytes(q, 4).length = q.length + 4
                                                   /\ ReadBytes(q, 4).statusOK = q.statusOK
                   /\ q.length + 4 > Len(data) => /\ ReadBytes(q, 4).length = q.length
                                                  /\ ~ReadBytes(q, 4).statusOK
                   /\ ReadBytes(q, 4).statusOK => q.statusOK
  <2>1. 4 \in Nat
    OBVIOUS
  <2> QED BY <2>1, PointerMoves
<1>3. step \in [V \X (1 .. n) -> V]
  <2> HIDE DEF V
  <2> QED BY <1>2
<1>4. \A q \in V, i \in 1 .. n : step[<<q, i>>] = ReadBytes(q, 4)
  OBVIOUS
<1> HIDE DEF step, V
<1>5. PICK f \in [0 .. n -> V] : Sweep!IsRecursion(f, n, p, step)
  BY <1>3, Sweep!RecursionDefines DEF V
<1>6. f = Body(f)
  <2>1. f = [i \in 0 .. n |-> IF i = 0 THEN p ELSE step[<<f[i - 1], i>>]]
    BY <1>5 DEF Sweep!IsRecursion
  <2>2. \A i \in 0 .. n : f[i] = IF i = 0 THEN p ELSE step[<<f[i - 1], i>>]
    BY <2>1
  <2>3. \A i \in 0 .. n : i # 0 => i - 1 \in 0 .. n /\ i \in 1 .. n
    OBVIOUS
  <2>4. \A i \in 0 .. n : f[i] = IF i = 0 THEN p ELSE ReadBytes(f[i - 1], 4)
    BY <1>4, <2>2, <2>3
  <2>5. f = [i \in 0 .. n |-> f[i]]
    OBVIOUS
  <2> QED BY <2>4, <2>5
<1>7. g = Body(g)
  BY <1>6
<1>8. AfterReads(p, n) = g
  BY DEF AfterReads
<1> HIDE DEF g
<1>9. \A i \in 0 .. n : g[i] = IF i = 0 THEN p ELSE ReadBytes(g[i - 1], 4)
  BY <1>7
<1>10. 0 \in 0 .. n /\ n \in 0 .. n /\ \A i \in 1 .. n : i \in 0 .. n /\ i # 0 /\ i - 1 \in 0 .. n
  OBVIOUS
<1>11. g[0] = p /\ \A i \in 1 .. n : g[i] = ReadBytes(g[i - 1], 4)
  BY <1>9, <1>10
<1> DEFINE Is(i) == /\ p.length + 4 * i <= Len(data) => /\ g[i].length = p.length + 4 * i
                                                        /\ g[i].statusOK = p.statusOK
                    /\ p.length + 4 * i > Len(data) => /\ g[i].length + 4 > Len(data)
                                                       /\ ~g[i].statusOK
           T == {i \in 0 .. n : g[i] \in V /\ Is(i)}
<1>12. 0 \in T
  <2>1. p \in V
    BY DEF V
  <2>2. p.length + 4 * 0 = p.length
    BY <1>1
  <2>3. ~(p.length > Len(data))
    BY <1>1
  <2> QED BY <1>10, <1>11, <2>1, <2>2, <2>3
<1>13. ASSUME NEW i \in 1 .. n, g[i - 1] \in V, Is(i - 1)
       PROVE  g[i] \in V /\ Is(i) /\ (g[i].length > g[i - 1].length <=> p.length + 4 * i <= Len(data))
  <2> DEFINE b == g[i - 1]
             q == g[i]
             before == p.length + 4 * (i - 1)
             here == p.length + 4 * i
  <2>1. q = ReadBytes(b, 4) /\ b \in V
    BY <1>11, <1>13
  <2>2. here = before + 4 /\ before \in Nat /\ here \in Nat
    BY <1>1
  <2>3. /\ before <= Len(data) => b.length = before /\ b.statusOK = p.statusOK
        /\ before > Len(data) => b.length + 4 > Len(data) /\ ~b.statusOK
    BY <1>13
  <2> HIDE DEF b, q, before, here
  <2>4. /\ q \in V /\ b.length \in Nat /\ q.length \in Nat
        /\ b.length + 4 <= Len(data) => q.length = b.length + 4 /\ q.statusOK = b.statusOK
        /\ b.length + 4 > Len(data) => q.length = b.length /\ ~q.statusOK
    BY <1>1, <1>2, <2>1
  <2>5. /\ here <= Len(data) => q.length = here /\ q.statusOK = p.statusOK /\ q.length > b.length
        /\ here > Len(data) => q.length + 4 > Len(data) /\ ~q.statusOK /\ ~(q.length > b.length)
    <3>1. CASE here <= Len(data)
      <4>1. before <= Len(data) /\ ~(here > Len(data))
        BY <1>1, <2>2, <3>1
      <4>2. b.length = before /\ b.statusOK = p.statusOK
        BY <2>3, <4>1
      <4>3. b.length + 4 <= Len(data) /\ b.length + 4 = here
        BY <2>2, <3>1, <4>2
      <4>4. q.length = here /\ q.statusOK = p.statusOK
        BY <2>4, <4>2, <4>3
      <4>5. q.length > b.length
        BY <2>2, <4>2, <4>4
      <4> QED BY <4>1, <4>4, <4>5
    <3>2. CASE ~(here <= Len(data))
      <4>1. b.length + 4 > Len(data)
        <5>1. CASE before <= Len(data)
          BY <1>1, <2>2, <2>3, <3>2, <5>1
        <5>2. CASE ~(before <= Len(data))
          BY <1>1, <2>2, <2>3, <5>2
        <5> QED BY <5>1, <5>2
      <4>2. q.length = b.length /\ ~q.statusOK
        BY <2>4, <4>1
      <4>3. ~(q.length > b.length) /\ q.length + 4 > Len(data)
        BY <2>4, <4>1, <4>2
      <4> QED BY <3>2, <4>2, <4>3
    <3> QED BY <3>1, <3>2
  <2>6. q.length > b.length <=> here <= Len(data)
    BY <1>1, <2>2, <2>5
  <2> QED BY <2>4, <2>5, <2>6 DEF b, q, here
<1> HIDE DEF Is
<1>14. 0 .. n \subseteq T
  <2>1. ASSUME NEW i \in 1 .. n, i - 1 \in T PROVE i \in T
    BY <1>10, <1>13, <2>1
  <2> HIDE DEF T
  <2> QED BY <1>12, <2>1, Sweep!UpToInSteps
<1>15. \A i \in 0 .. n : g[i] \in V /\ Is(i)
  BY <1>14
<1>16. g \in [0 .. n -> V]
  <2>1. g = [i \in 0 .. n |-> g[i]]
    BY <1>7
  <2> QED BY <1>15, <2>1
<1>17. \A i \in 1 .. n : g[i].length > g[i - 1].length <=> p.length + 4 * i <= Len(data)
  BY <1>10, <1>13, <1>15
<1> QED BY <1>8, <1>11, <1>15, <1>16, <1>17 DEF Is, V

\* The lists that come of reading list, which lies at the pointer: what came of
\* it is right, the rest is some GUIDs.
LEMMA ListsRead ==
    ASSUME NEW data \in Seq(Cell), NEW p \in Pointers(data), NEW list \in Seq(Nat),
           \A j \in 1 .. Len(list) : Lies(data, p.length + 4 * (j - 1), list[j], 4)
    PROVE  /\ Lists(data, p, Len(list)) # {}
           /\ \A got \in Lists(data, p, Len(list)) :
                  /\ got \in Seq(Nat) /\ Len(got) = Len(list)
                  /\ list \in Seq(Guid) => got \in Seq(Guid)
                  /\ \A j \in 1 .. Len(list) : p.length + 4 * j <= Len(data) => got[j] = list[j]
<1> DEFINE n == Len(list)
           after == AfterReads(p, n)
           came == {i \in 1 .. n : after[i].length > after[i - 1].length}
           Entry(i) == ValueAt(data, after[i - 1], 4)
<1>1. n \in Nat /\ \A j \in 1 .. n : list[j] \in Nat
  OBVIOUS
<1>2. Len(data) \in Nat /\ p.length \in Nat
  BY DEF Pointers
<1>3. /\ after \in [0 .. n -> Pointers(data)]
      /\ \A i \in 0 .. n : p.length + 4 * i <= Len(data) => after[i].length = p.length + 4 * i
      /\ \A i \in 1 .. n : after[i].length > after[i - 1].length <=> p.length + 4 * i <= Len(data)
  <2> HIDE DEF n
  <2>1. LET g == AfterReads(p, n)
        IN  /\ g \in [0 .. n -> Pointers(data)]
            /\ g[0] = p
            /\ \A i \in 0 .. n :
                   /\ p.length + 4 * i <= Len(data) => /\ g[i].length = p.length + 4 * i
                                                       /\ g[i].statusOK = p.statusOK
                   /\ p.length + 4 * i > Len(data) => /\ g[i].length + 4 > Len(data)
                                                      /\ ~g[i].statusOK
            /\ \A i \in 1 .. n : g[i].length > g[i - 1].length <=> p.length + 4 * i <= Len(data)
    BY <1>1, EntriesRead
  <2> HIDE DEF after
  <2>2. after = AfterReads(p, n)
    BY DEF after
  <2> QED BY <2>1, <2>2
<1>4. Lists(data, p, n) = {[i \in 1 .. n |-> IF i \in came THEN Entry(i) ELSE unset[i]] :
                              unset \in [(1 .. n) \ came -> Guid]}
  BY DEF Lists
<1> HIDE DEF n, after
<1>5. came \subseteq 1 .. n /\ \A i \in 1 .. n : i \in came <=> p.length + 4 * i <= Len(data)
  BY <1>3
<1>6. ASSUME NEW i \in came PROVE Entry(i) = list[i]
  <2> DEFINE q == after[i - 1]
             o == p.length + 4 * (i - 1)
             v == list[i]
  <2>1. i - 1 \in 0 .. n /\ i \in 1 .. n
    BY <1>1, <1>5
  <2>2. o <= Len(data) /\ o + 4 <= Len(data)
    BY <1>1, <1>2, <1>5, <2>1
  <2>3. q \in Pointers(data) /\ q.length = o
    BY <1>3, <2>1, <2>2
  <2>4. Lies(data, o, v, 4) /\ v \in Nat /\ 4 \in Nat \ {0}
    BY <1>1, <2>1 DEF n
  <2> HIDE DEF q, o, v
  <2>5. Lies(data, q.length, v, 4) /\ q.length + 4 <= Len(data)
    BY <2>2, <2>3, <2>4
  <2>6. ValueAt(data, q, 4) = v
    BY <2>3, <2>4, <2>5, ValueThere
  <2> QED BY <2>6 DEF q, v
<1> HIDE DEF came, Entry
<1>7. Lists(data, p, n) # {}
  <2>1. PICK guid : guid \in Guid
    BY GuidAssumption
  <2> DEFINE unset == [i \in (1 .. n) \ came |-> guid]
  <2>2. unset \in [(1 .. n) \ came -> Guid]
    BY <2>1
  <2> HIDE DEF unset
  <2>3. [i \in 1 .. n |-> IF i \in came THEN Entry(i) ELSE unset[i]] \in Lists(data, p, n)
    BY <1>4, <2>2
  <2> QED BY <2>3
<1>8. ASSUME NEW got \in Lists(data, p, n)
      PROVE  /\ got \in Seq(Nat) /\ Len(got) = n
             /\ list \in Seq(Guid) => got \in Seq(Guid)
             /\ \A j \in 1 .. n : p.length + 4 * j <= Len(data) => got[j] = list[j]
  <2>1. PICK unset \in [(1 .. n) \ came -> Guid] :
            got = [i \in 1 .. n |-> IF i \in came THEN Entry(i) ELSE unset[i]]
    BY <1>4
  <2>2. \A i \in 1 .. n : got[i] = IF i \in came THEN list[i] ELSE unset[i]
    BY <1>6, <2>1
  <2>3. \A i \in 1 .. n : i \notin came => unset[i] \in Guid /\ unset[i] \in Nat
    BY GuidAssumption
  <2>4. \A i \in 1 .. n : got[i] \in Nat
    BY <1>1, <2>2, <2>3
  <2>5. got \in [1 .. n -> Nat]
    BY <2>1, <2>4
  <2>6. got \in Seq(Nat) /\ Len(got) = n
    BY <1>1, <2>5
  <2>7. list \in Seq(Guid) => got \in Seq(Guid)
    <3> SUFFICES ASSUME list \in Seq(Guid) PROVE got \in Seq(Guid)
      OBVIOUS
    <3>1. \A i \in 1 .. n : list[i] \in Guid
      BY DEF n
    <3>2. \A i \in 1 .. n : got[i] \in Guid
      BY <2>2, <2>3, <3>1
    <3>3. got \in [1 .. n -> Guid]
      BY <2>1, <3>2
    <3> QED BY <1>1, <3>3
  <2>8. \A j \in 1 .. n : p.length + 4 * j <= Len(data) => got[j] = list[j]
    BY <1>5, <2>2
  <2> QED BY <2>6, <2>7, <2>8
<1> QED BY <1>7, <1>8 DEF n

-----------------------------------------------------------------------------
(***************************************************************************)
(* Reading a datagram, cut or whole                                        *)
(***************************************************************************)
LEMMA NothingRead ==
    ASSUME NEW data \in Seq(Cell)
    PROVE  /\ Received(data) \in Pointers(data) /\ Received(data).length = 0 /\ Received(data).statusOK
           /\ <<>> \in Values
<1>1. Len(data) \in Nat
  OBVIOUS
<1>2. Received(data) = [size |-> Len(data), length |-> 0, statusOK |-> TRUE]
  BY DEF Received, NewPacket
<1>3. <<>> \in [1 .. 0 -> Nat]
  BY EmptySeq, LenProperties
<1>4. 1 .. 0 \in SUBSET Keys
  OBVIOUS
<1>5. <<>> \in Values
  BY <1>3, <1>4 DEF Values
<1> QED BY <1>1, <1>2, <1>5 DEF Pointers

LEMMA HeaderRead ==
    ASSUME NEW msg \in Message, NEW data, NEW off, Offsets(off, msg), Begins(data, off, msg)
    PROVE  /\ off[4] = HeaderSize /\ ReadHeader(data) \in Readers(data)
           /\ Len(data) >= HeaderSize => StandsAt(ReadHeader(data), data, off, msg, 4)
           /\ \A t \in Nat : HasType(data, t) <=> Len(data) >= HeaderSize /\ msg.type = t
<1> DEFINE r == Reader(Received(data), <<>>)
           h == ReadHeader(data)
<1>1. data \in Seq(Cell) /\ Len(data) \in Nat
  <2>1. data \in Seq(Cell)
    BY DEF Begins
  <2> QED BY <2>1
<1>2. off[0] = 0
  BY DEF Offsets
<1>3. StandsAt(r, data, off, msg, 0)
  <2>1. r = [packet |-> Received(data), values |-> <<>>]
    BY DEF Reader
  <2>2. /\ Received(data) \in Pointers(data) /\ Received(data).length = 0 /\ Received(data).statusOK
        /\ <<>> \in Values
    BY <1>1, NothingRead
  <2> QED BY <1>2, <2>1, <2>2 DEF StandsAt, Readers
<1>4. PartOf(HeaderFormat, msg, 0) /\ Len(HeaderFormat) = 4 /\ Len(FormatOf(msg)) \in Nat
  BY HeaderPart, FormatTypes
<1>5. off[4] = HeaderSize
  <2>1. /\ HeaderFormat[1].width = 1 /\ HeaderFormat[2].width = 1
        /\ HeaderFormat[3].width = 2 /\ HeaderFormat[4].width = 2
    BY DEF HeaderFormat, Field
  <2>2. \A j \in 1 .. 4 : FormatOf(msg)[j] = HeaderFormat[j] /\ j \in 1 .. Len(FormatOf(msg))
    <3>1. \A j \in 1 .. 4 : HeaderFormat[j] = FormatOf(msg)[0 + j] /\ 0 + 4 <= Len(FormatOf(msg))
      BY <1>4 DEF PartOf
    <3> QED BY <1>4, <3>1
  <2>3. \A j \in 1 .. 4 : off[j] = off[j - 1] + FieldSize(msg, HeaderFormat[j])
    BY <2>2 DEF Offsets
  <2>4. /\ FieldSize(msg, HeaderFormat[1]) = 1 /\ FieldSize(msg, HeaderFormat[2]) = 1
        /\ FieldSize(msg, HeaderFormat[3]) = 2 /\ FieldSize(msg, HeaderFormat[4]) = 2
    BY <2>1 DEF FieldSize, Text
  <2>5. off[1] = 1
    BY <1>2, <2>3, <2>4
  <2>6. off[2] = 2
    BY <2>3, <2>4, <2>5
  <2>7. off[3] = 4
    BY <2>3, <2>4, <2>6
  <2> QED BY <2>3, <2>4, <2>7 DEF HeaderSize
<1>6. /\ h \in Readers(data)
      /\ HeaderSize <= Len(data) => StandsAt(h, data, off, msg, 4) /\ HoldsOf(h.values, msg, HeaderFormat)
      /\ HeaderSize > Len(data) => ~h.packet.statusOK
  <2>1. 0 \in Nat /\ 0 + Len(HeaderFormat) = 4
    BY <1>4
  <2>2. LET q == Read(data, r, HeaderFormat)
            to == 0 + Len(HeaderFormat)
        IN  /\ q \in Readers(data)
            /\ off[to] <= Len(data) => StandsAt(q, data, off, msg, to) /\ HoldsOf(q.values, msg, HeaderFormat)
            /\ off[to] > Len(data) => ~q.packet.statusOK
    BY <1>3, <1>4, <2>1, PartRead
  <2>3. h = Read(data, r, HeaderFormat)
    BY DEF ReadHeader
  <2> HIDE DEF h, r
  <2> QED BY <1>5, <2>1, <2>2, <2>3
<1>7. HoldsOf(h.values, msg, HeaderFormat) => h.values.type = msg.type
  <2>1. HeaderFormat[1].name = "type" /\ 1 \in 1 .. Len(HeaderFormat)
    <3>1. HeaderFormat[1].name = "type"
      BY DEF HeaderFormat, Field
    <3> QED BY <1>4, <3>1
  <2>2. HoldsOf(h.values, msg, HeaderFormat)
           => h.values[HeaderFormat[1].name] = msg[HeaderFormat[1].name]
    BY <2>1 DEF HoldsOf
  <2> HIDE DEF h
  <2> QED BY <2>1, <2>2
<1>8. HeaderSize \in Nat
  BY DEF HeaderSize
<1>9. ASSUME NEW t \in Nat PROVE HasType(data, t) <=> Len(data) >= HeaderSize /\ msg.type = t
  <2>1. HasType(data, t) <=> h.packet.statusOK /\ h.values.type = t
    BY DEF HasType
  <2>2. CASE HeaderSize <= Len(data)
    <3>1. h.packet.statusOK /\ h.values.type = msg.type
      BY <1>6, <1>7, <2>2 DEF StandsAt
    <3>2. Len(data) >= HeaderSize
      BY <1>1, <1>8, <2>2
    <3> HIDE DEF h
    <3> QED BY <2>1, <3>1, <3>2
  <2>3. CASE HeaderSize > Len(data)
    <3>1. ~(Len(data) >= HeaderSize)
      BY <1>1, <1>8, <2>3
    <3> QED BY <1>6, <2>1, <2>3, <3>1
  <2> QED BY <1>1, <1>8, <2>2, <2>3
<1> QED BY <1>1, <1>5, <1>6, <1>8, <1>9

\* A report: its fixed part comes whole, or the status tells.
ReportReader(data) == Read(data, Reader(ReadHeader(data).packet, <<>>), ReportFormat)

LEMMA ReportRead ==
    ASSUME NEW msg \in Message, msg.type = GameMasterInfoResponse,
           NEW data, NEW off, Offsets(off, msg), Begins(data, off, msg), Len(data) >= HeaderSize
    PROVE  LET r == ReportReader(data)
           IN  /\ r \in Readers(data)
               /\ Len(data) >= Len(FixedPart(msg)) => /\ r.packet.length = Len(FixedPart(msg))
                                                      /\ r.packet.statusOK
                                                      /\ HoldsOf(r.values, msg, ReportFormat)
               /\ Len(data) < Len(FixedPart(msg)) => ~r.packet.statusOK
<1> DEFINE h == ReadHeader(data)
           b == Reader(h.packet, <<>>)
           r == ReportReader(data)
<1>1. data \in Seq(Cell) /\ Len(data) \in Nat
  <2>1. data \in Seq(Cell)
    BY DEF Begins
  <2> QED BY <2>1
<1>2. StandsAt(h, data, off, msg, 4)
  BY HeaderRead
<1>3. StandsAt(b, data, off, msg, 4)
  <2>1. b = [packet |-> h.packet, values |-> <<>>]
    BY DEF Reader
  <2>2. <<>> \in Values
    BY <1>1, NothingRead
  <2> HIDE DEF h, b
  <2>3. h.packet \in Pointers(data) /\ h.packet.length = off[4] /\ h.packet.statusOK
    BY <1>2 DEF StandsAt, Readers
  <2> QED BY <2>1, <2>2, <2>3 DEF StandsAt, Readers
<1>4. Len(FormatOf(msg)) = 13 /\ PartOf(ReportFormat, msg, 4) /\ Len(ReportFormat) = 9
  BY ReportParts, FormatTypes
<1>5. off[13] = Len(FixedPart(msg)) /\ Len(FixedPart(msg)) \in Nat
  BY <1>4, EncodeBegins DEF Offsets
<1>6. r = Read(data, b, ReportFormat)
  BY DEF ReportReader
<1> HIDE DEF b, r, h
<1>7. 4 \in Nat /\ 4 + Len(ReportFormat) = 13
  BY <1>4
<1>8. LET q == Read(data, b, ReportFormat)
          to == 4 + Len(ReportFormat)
      IN  /\ q \in Readers(data)
          /\ off[to] <= Len(data) => StandsAt(q, data, off, msg, to) /\ HoldsOf(q.values, msg, ReportFormat)
          /\ off[to] > Len(data) => ~q.packet.statusOK
  BY <1>3, <1>4, <1>7, PartRead
<1>9. /\ r \in Readers(data)
      /\ Len(FixedPart(msg)) <= Len(data) => /\ r.packet.length = Len(FixedPart(msg))
                                             /\ r.packet.statusOK
                                             /\ HoldsOf(r.values, msg, ReportFormat)
      /\ Len(FixedPart(msg)) > Len(data) => ~r.packet.statusOK
  BY <1>5, <1>6, <1>7, <1>8 DEF StandsAt
<1> QED BY <1>1, <1>5, <1>9 DEF r

\* A list request: its index and, if it is a query, the rest.
IndexReader(data) == Read(data, ReadHeader(data), IndexFormat)

QueryReader(data) == Read(data, IndexReader(data), QueryFormat)

LEMMA IndexRead ==
    ASSUME NEW msg \in Message, msg.type = MasterServerListRequest,
           NEW data, NEW off, Offsets(off, msg), Begins(data, off, msg), Len(data) >= HeaderSize
    PROVE  /\ off[5] = HeaderSize + 1
           /\ Len(data) > HeaderSize => /\ StandsAt(IndexReader(data), data, off, msg, 5)
                                        /\ IndexReader(data).values.index = msg.index
           /\ Len(data) = HeaderSize => IndexReader(data).values.index = 0
<1> DEFINE h == ReadHeader(data)
           r == IndexReader(data)
           f == IndexFormat[1]
<1>1. data \in Seq(Cell) /\ Len(data) \in Nat /\ HeaderSize \in Nat
  <2>1. data \in Seq(Cell)
    BY DEF Begins
  <2> QED BY <2>1 DEF HeaderSize
<1>2. StandsAt(h, data, off, msg, 4) /\ off[4] = HeaderSize
  BY HeaderRead
<1>3. PartOf(IndexFormat, msg, 4) /\ Len(IndexFormat) = 1 /\ IndexFormat \in Seq(Fields)
  BY RequestParts, FormatTypes
<1>4. f.name = "index" /\ f.width = 1 /\ f \in Fields
  <2>1. f = Field("index", 1)
    BY DEF IndexFormat
  <2>2. f.name = "index" /\ f.width = 1
    BY <2>1 DEF Field
  <2>3. IndexFormat[1] \in Fields
    <3>1. 1 \in 1 .. Len(IndexFormat)
      BY <1>3
    <3> QED BY <1>3, <3>1, ElementOfSeq
  <2> QED BY <2>2, <2>3
<1>5. off[5] = HeaderSize + 1
  <2>1. FormatOf(msg)[5] = f /\ 5 \in 1 .. Len(FormatOf(msg))
    <3>1. 4 + 1 <= Len(FormatOf(msg)) /\ f = FormatOf(msg)[4 + 1]
      BY <1>3 DEF PartOf
    <3>2. Len(FormatOf(msg)) \in Nat
      BY HeaderPart
    <3> QED BY <3>1, <3>2
  <2>2. off[5] = off[5 - 1] + FieldSize(msg, f)
    BY <2>1 DEF Offsets
  <2>3. FieldSize(msg, f) = 1
    BY <1>4 DEF FieldSize, Text
  <2> QED BY <1>2, <2>2, <2>3
<1>6. r = Read(data, h, IndexFormat)
  BY DEF IndexReader
<1> HIDE DEF h, r, f
<1>7. 4 \in Nat /\ 4 + Len(IndexFormat) = 5
  BY <1>3
<1>8. LET q == Read(data, h, IndexFormat)
          to == 4 + Len(IndexFormat)
      IN  /\ q \in Readers(data)
          /\ off[to] <= Len(data) => StandsAt(q, data, off, msg, to) /\ HoldsOf(q.values, msg, IndexFormat)
          /\ off[to] > Len(data) => ~q.packet.statusOK
  BY <1>2, <1>3, <1>7, PartRead
<1>9. CASE Len(data) > HeaderSize
  <2>1. off[5] <= Len(data)
    BY <1>1, <1>5, <1>9
  <2>2. StandsAt(r, data, off, msg, 5) /\ HoldsOf(r.values, msg, IndexFormat)
    BY <1>6, <1>7, <1>8, <2>1
  <2>3. r.values.index = msg.index
    <3>1. 1 \in 1 .. Len(IndexFormat)
      BY <1>3
    <3>2. r.values[f.name] = msg[f.name]
      BY <2>2, <3>1 DEF HoldsOf, f
    <3> QED BY <1>4, <3>2
  <2> QED BY <1>1, <1>5, <1>9, <2>2, <2>3 DEF r
<1>10. CASE Len(data) = HeaderSize
  <2>1. h \in Readers(data) /\ h.packet \in Pointers(data) /\ h.packet.length = HeaderSize
    BY <1>2 DEF StandsAt, Readers
  <2>2. PICK after \in [0 .. Len(IndexFormat) -> Readers(data)] :
            /\ after[0] = h
            /\ \A i \in 1 .. Len(IndexFormat) : after[i] = ReadField(data, after[i - 1], IndexFormat[i])
            /\ Read(data, h, IndexFormat) = after[Len(IndexFormat)]
    BY <1>1, <1>3, <2>1, ReadSteps
  <2>3. r = ReadField(data, h, f)
    <3>1. 1 \in 1 .. Len(IndexFormat) /\ 1 - 1 = 0
      BY <1>3
    <3>2. after[1] = ReadField(data, after[1 - 1], IndexFormat[1])
      BY <2>2, <3>1
    <3> QED BY <1>3, <1>6, <2>2, <3>1, <3>2 DEF f
  <2>4. r.values[f.name] = Got(data, h.packet, f).value
    <3>1. LET q == ReadField(data, h, f)
          IN  \A b \in DOMAIN h.values \cup {f.name} :
                 q.values[b] = IF b = f.name THEN Got(data, h.packet, f).value ELSE h.values[b]
      BY <1>1, <1>4, <2>1, FieldRead
    <3> QED BY <2>3, <3>1
  <2>5. Got(data, h.packet, f).value = ValueAt(data, h.packet, 1)
    BY <1>4 DEF Got, ReadNumber, Text
  <2>6. ValueAt(data, h.packet, 1) = 0
    <3> DEFINE p == h.packet
    <3>1. p \in Pointers(data) /\ p.length + 1 > Len(data) /\ 1 \in Nat
      BY <1>1, <1>10, <2>1
    <3> HIDE DEF p
    <3>2. ValueAt(data, p, 1) = 0
      BY <1>1, <3>1, ValueTypes
    <3> QED BY <3>2 DEF p
  <2>7. r.values.index = 0
    BY <1>4, <2>4, <2>5, <2>6
  <2> QED BY <1>1, <1>5, <1>10, <2>7 DEF r
<1> QED BY <1>1, <1>5, <1>9, <1>10

LEMMA QueryRead ==
    ASSUME NEW msg \in Message, IsQuery(msg), NEW data, NEW off, Offsets(off, msg),
           Begins(data, off, msg), Len(data) > HeaderSize
    PROVE  LET q == QueryReader(data)
           IN  /\ q \in Readers(data)
               /\ Len(data) >= Len(FixedPart(msg)) => /\ q.packet.length = Len(FixedPart(msg))
                                                      /\ q.packet.statusOK
                                                      /\ HoldsOf(q.values, msg, QueryFormat)
               /\ Len(data) < Len(FixedPart(msg)) => ~q.packet.statusOK
<1> DEFINE b == IndexReader(data)
           r == QueryReader(data)
<1>1. /\ data \in Seq(Cell) /\ Len(data) \in Nat /\ Len(data) >= HeaderSize
      /\ msg.type = MasterServerListRequest
  <2>1. data \in Seq(Cell)
    BY DEF Begins
  <2> QED BY <2>1 DEF HeaderSize, IsQuery
<1>2. StandsAt(b, data, off, msg, 5)
  BY <1>1, IndexRead
<1>3. Len(FormatOf(msg)) = 15 /\ PartOf(QueryFormat, msg, 5) /\ Len(QueryFormat) = 10
  BY <1>1, RequestParts, FormatTypes
<1>4. off[15] = Len(FixedPart(msg)) /\ Len(FixedPart(msg)) \in Nat
  BY <1>3, EncodeBegins DEF Offsets
<1>5. r = Read(data, b, QueryFormat)
  BY DEF QueryReader
<1> HIDE DEF b, r
<1>6. 5 \in Nat /\ 5 + Len(QueryFormat) = 15
  BY <1>3
<1>7. LET q == Read(data, b, QueryFormat)
          to == 5 + Len(QueryFormat)
      IN  /\ q \in Readers(data)
          /\ off[to] <= Len(data) => StandsAt(q, data, off, msg, to) /\ HoldsOf(q.values, msg, QueryFormat)
          /\ off[to] > Len(data) => ~q.packet.statusOK
  BY <1>2, <1>3, <1>6, PartRead
<1>8. /\ r \in Readers(data)
      /\ Len(FixedPart(msg)) <= Len(data) => /\ r.packet.length = Len(FixedPart(msg))
                                             /\ r.packet.statusOK
                                             /\ HoldsOf(r.values, msg, QueryFormat)
      /\ Len(FixedPart(msg)) > Len(data) => ~r.packet.statusOK
  BY <1>4, <1>5, <1>6, <1>7 DEF StandsAt
<1> QED BY <1>1, <1>4, <1>8 DEF r

-----------------------------------------------------------------------------
(***************************************************************************)
(* Records: what a report becomes, and what stays true of it               *)
(***************************************************************************)
PrintableNames(msg) == isPrintableString(msg.gameType) /\ isPrintableString(msg.missionType)

\* info is what msg says, with the first entries of its list, as many as came.
Stored(info, msg, players) ==
    /\ HoldsOf(info, msg, ReportFormat)
    /\ info.playerList \in Seq(Guid) /\ Len(info.playerList) = Len(msg.list)
    /\ \A i \in 1 .. players : info.playerList[i] = msg.list[i]

StoredInv ==
    /\ DOMAIN servers = DOMAIN reported
    /\ \A s \in DOMAIN servers :
           LET report == reported[s]
           IN  /\ report.msg \in Message /\ report.msg.type = GameMasterInfoResponse
               /\ PrintableNames(report.msg)
               /\ report.players \in 0 .. Len(report.msg.list)
               /\ Stored(servers[s], report.msg, report.players)

LEMMA ReportNames ==
    /\ Len(ReportFormat) = 9
    /\ \A i \in 1 .. 9 : ReportFormat[i].name \in Keys /\ ReportFormat[i].name # "playerList"
    /\ ReportFormat[1].name = "gameType" /\ ReportFormat[2].name = "missionType"
    /\ ReportFormat[3].name = "maxPlayers" /\ ReportFormat[4].name = "regions"
    /\ ReportFormat[5].name = "version" /\ ReportFormat[6].name = "infoFlags"
    /\ ReportFormat[7].name = "numBots" /\ ReportFormat[8].name = "CPUSpeed"
    /\ ReportFormat[9].name = "playerCount"
    /\ \A i \in 3 .. 9 : ReportFormat[i].width # Text
<1>1. /\ ReportFormat[1] = Field("gameType", Text) /\ ReportFormat[2] = Field("missionType", Text)
      /\ ReportFormat[3] = Field("maxPlayers", 1) /\ ReportFormat[4] = Field("regions", 4)
      /\ ReportFormat[5] = Field("version", 4) /\ ReportFormat[6] = Field("infoFlags", 1)
      /\ ReportFormat[7] = Field("numBots", 1) /\ ReportFormat[8] = Field("CPUSpeed", 4)
      /\ ReportFormat[9] = Field("playerCount", 1)
  BY DEF ReportFormat
<1>2. \A name, width : Field(name, width).name = name /\ Field(name, width).width = width
  BY DEF Field
<1>3. /\ ReportFormat[1].name = "gameType" /\ ReportFormat[2].name = "missionType"
      /\ ReportFormat[3].name = "maxPlayers" /\ ReportFormat[4].name = "regions"
      /\ ReportFormat[5].name = "version" /\ ReportFormat[6].name = "infoFlags"
      /\ ReportFormat[7].name = "numBots" /\ ReportFormat[8].name = "CPUSpeed"
      /\ ReportFormat[9].name = "playerCount"
  BY <1>1, <1>2
<1>4. \A i \in 1 .. 9 : ReportFormat[i].name \in Keys
  BY <1>3 DEF Keys
<1>5. \A name \in Keys : name # "playerList" /\ name # "buddyList"
  BY DEF Keys
<1>6. \A i \in 3 .. 9 : ReportFormat[i].width # 0
  BY <1>1, <1>2
<1> QED BY <1>3, <1>4, <1>5, <1>6, FormatTypes DEF Text

LEMMA ReportHolds ==
    ASSUME NEW values, NEW msg, HoldsOf(values, msg, ReportFormat)
    PROVE  /\ values.gameType = msg.gameType /\ values.missionType = msg.missionType
           /\ values.maxPlayers = msg.maxPlayers /\ values.regions = msg.regions
           /\ values.version = msg.version /\ values.infoFlags = msg.infoFlags
           /\ values.numBots = msg.numBots /\ values.CPUSpeed = msg.CPUSpeed
           /\ values.playerCount = msg.playerCount
<1>1. \A i \in 1 .. 9 : values[ReportFormat[i].name] = msg[ReportFormat[i].name]
  BY ReportNames DEF HoldsOf
<1>2. /\ values[ReportFormat[1].name] = msg[ReportFormat[1].name]
      /\ values[ReportFormat[2].name] = msg[ReportFormat[2].name]
      /\ values[ReportFormat[3].name] = msg[ReportFormat[3].name]
      /\ values[ReportFormat[4].name] = msg[ReportFormat[4].name]
      /\ values[ReportFormat[5].name] = msg[ReportFormat[5].name]
      /\ values[ReportFormat[6].name] = msg[ReportFormat[6].name]
      /\ values[ReportFormat[7].name] = msg[ReportFormat[7].name]
      /\ values[ReportFormat[8].name] = msg[ReportFormat[8].name]
      /\ values[ReportFormat[9].name] = msg[ReportFormat[9].name]
  BY <1>1
<1> QED BY <1>2, ReportNames

LEMMA InfoMade ==
    ASSUME NEW msg \in Message, msg.type = GameMasterInfoResponse,
           NEW data, NEW off, Offsets(off, msg), Begins(data, off, msg), Len(data) >= HeaderSize
    PROVE  /\ handleInfoResponse(data) # {}
                 <=> PrintableNames(msg) /\ Len(data) >= Len(FixedPart(msg))
           /\ \A info \in handleInfoResponse(data), players \in Nat :
                  Len(FixedPart(msg)) + 4 * players <= Len(data) /\ players <= Len(msg.list)
                      => Stored(info, msg, players)
<1> DEFINE r == ReportReader(data)
           fixed == Len(FixedPart(msg))
           list == msg.list
<1>1. /\ data \in Seq(Cell) /\ Len(data) \in Nat /\ fixed \in Nat
      /\ \A j \in 1 .. Len(list) : Lies(data, fixed + 4 * (j - 1), list[j], 4)
  <2>1. data \in Seq(Cell)
    BY DEF Begins
  <2> QED BY <2>1, EncodeBegins DEF Begins
<1>2. /\ list \in Seq(Nat) /\ list \in Seq(Guid) /\ msg.playerCount = Len(list) /\ Fits(msg.CPUSpeed, 2)
  BY MessageAssumption
<1>3. /\ r \in Readers(data)
      /\ Len(data) >= fixed => r.packet.length = fixed /\ r.packet.statusOK
                               /\ HoldsOf(r.values, msg, ReportFormat)
      /\ Len(data) < fixed => ~r.packet.statusOK
  BY ReportRead
<1>4. handleInfoResponse(data) =
          IF WellFormed(r)
          THEN {Put(Narrowed(r.values), "playerList", got) : got \in Lists(data, r.packet, r.values.playerCount)}
          ELSE {}
  BY DEF handleInfoResponse, ReportReader
<1> HIDE DEF r, fixed, list
<1>5. WellFormed(r) <=> PrintableNames(msg) /\ Len(data) >= fixed
  <2>1. CASE Len(data) >= fixed
    <3>1. r.values.gameType = msg.gameType /\ r.values.missionType = msg.missionType /\ r.packet.statusOK
      BY <1>3, <2>1, ReportHolds
    <3> QED BY <2>1, <3>1 DEF WellFormed, PrintableNames
  <2>2. CASE ~(Len(data) >= fixed)
    <3>1. Len(data) < fixed
      BY <1>1, <2>2
    <3> QED BY <1>3, <2>2, <3>1 DEF WellFormed
  <2> QED BY <2>1, <2>2
<1>6. ASSUME Len(data) >= fixed
      PROVE  LET lists == Lists(data, r.packet, r.values.playerCount)
             IN  /\ lists # {}
                 /\ \A got \in lists :
                        /\ got \in Seq(Guid) /\ Len(got) = Len(list)
                        /\ \A j \in 1 .. Len(list) : fixed + 4 * j <= Len(data) => got[j] = list[j]
  <2> DEFINE p == r.packet
  <2>1. r.values.playerCount = Len(list) /\ p.length = fixed
    <3>1. r.values.playerCount = msg.playerCount
      BY <1>3, <1>6, ReportHolds
    <3> QED BY <1>2, <1>3, <1>6, <3>1
  <2>2. p \in Pointers(data)
    BY <1>3 DEF Readers
  <2> HIDE DEF p
  <2>3. \A j \in 1 .. Len(list) : Lies(data, p.length + 4 * (j - 1), list[j], 4)
    BY <1>1, <2>1
  <2>4. /\ Lists(data, p, Len(list)) # {}
        /\ \A got \in Lists(data, p, Len(list)) :
               /\ got \in Seq(Nat) /\ Len(got) = Len(list)
               /\ list \in Seq(Guid) => got \in Seq(Guid)
               /\ \A j \in 1 .. Len(list) : p.length + 4 * j <= Len(data) => got[j] = list[j]
    BY <1>1, <1>2, <2>2, <2>3, ListsRead
  <2>5. /\ Lists(data, p, Len(list)) # {}
        /\ \A got \in Lists(data, p, Len(list)) :
               /\ got \in Seq(Guid) /\ Len(got) = Len(list)
               /\ \A j \in 1 .. Len(list) : fixed + 4 * j <= Len(data) => got[j] = list[j]
    BY <1>2, <2>1, <2>4
  <2> QED BY <2>1, <2>5 DEF p
<1>7. handleInfoResponse(data) # {} <=> PrintableNames(msg) /\ Len(data) >= fixed
  BY <1>4, <1>5, <1>6
<1>8. ASSUME Len(data) >= fixed PROVE HoldsOf(Narrowed(r.values), msg, ReportFormat)
  <2> DEFINE values == r.values
             narrow == [values EXCEPT !.CPUSpeed = @ % WordSize]
  <2>1. HoldsOf(values, msg, ReportFormat) /\ values.CPUSpeed = msg.CPUSpeed
    BY <1>3, <1>8, ReportHolds
  <2>2. msg.CPUSpeed % WordSize = msg.CPUSpeed
    <3> DEFINE c == msg.CPUSpeed
    <3>1. Fits(c, 2)
      BY <1>2
    <3> HIDE DEF c
    <3>2. c \in Nat /\ c < 65536
      BY <3>1 DEF Fits, WordSize
    <3>3. c % 65536 = c
      BY <3>2
    <3> QED BY <3>3 DEF c, WordSize
  <2>3. Narrowed(values) = narrow
    BY DEF Narrowed
  <2> HIDE DEF values
  <2>4. /\ DOMAIN narrow = DOMAIN values
        /\ \A b \in DOMAIN values : b # "CPUSpeed" => narrow[b] = values[b]
        /\ "CPUSpeed" \in DOMAIN values => narrow.CPUSpeed = values.CPUSpeed % WordSize
    OBVIOUS
  <2> HIDE DEF narrow
  <2>5. \A b \in DOMAIN values : narrow[b] = values[b]
    BY <2>1, <2>2, <2>4
  <2>6. HoldsOf(narrow, msg, ReportFormat)
    BY <2>1, <2>4, <2>5 DEF HoldsOf
  <2> QED BY <2>3, <2>6 DEF values
<1>9. ASSUME NEW info \in handleInfoResponse(data), NEW players \in Nat,
             fixed + 4 * players <= Len(data), players <= Len(list)
      PROVE  Stored(info, msg, players)
  <2> DEFINE values == Narrowed(r.values)
  <2>1. Len(data) >= fixed
    BY <1>1, <1>9
  <2>2. PICK got \in Lists(data, r.packet, r.values.playerCount) : info = Put(values, "playerList", got)
    BY <1>4
  <2>3. /\ got \in Seq(Guid) /\ Len(got) = Len(list)
        /\ \A j \in 1 .. Len(list) : fixed + 4 * j <= Len(data) => got[j] = list[j]
    BY <1>6, <2>1
  <2>4. HoldsOf(values, msg, ReportFormat)
    BY <1>8, <2>1
  <2> HIDE DEF values
  <2>5. /\ info.playerList = got /\ DOMAIN info = DOMAIN values \cup {"playerList"}
        /\ \A b \in DOMAIN values : b # "playerList" => info[b] = values[b]
    <3>1. info = [b \in DOMAIN values \cup {"playerList"} |-> IF b = "playerList" THEN got ELSE values[b]]
      BY <2>2 DEF Put
    <3> QED BY <3>1
  <2>6. HoldsOf(info, msg, ReportFormat)
    BY <2>4, <2>5, ReportNames DEF HoldsOf
  <2>7. \A i \in 1 .. players : info.playerList[i] = list[i]
    <3> SUFFICES ASSUME NEW i \in 1 .. players PROVE info.playerList[i] = list[i]
      OBVIOUS
    <3>1. Len(list) \in Nat
      BY <1>2
    <3>2. i \in 1 .. Len(list) /\ fixed + 4 * i <= Len(data)
      BY <1>1, <1>9, <3>1
    <3> QED BY <2>3, <2>5, <3>2
  <2> QED BY <2>3, <2>5, <2>6, <2>7 DEF Stored, list
<1> QED BY <1>7, <1>9 DEF fixed, list

\* A report is stored as what it says, or leaves everything as it is.
ReportStored(s, msg, info, players) ==
    /\ msg.type = GameMasterInfoResponse /\ PrintableNames(msg)
    /\ players \in 0 .. Len(msg.list) /\ Stored(info, msg, players)
    /\ UpdateServer(s, info)
    /\ reported' = Put(reported, s, [msg |-> msg, players |-> players])

LEMMA ReportMade ==
    ASSUME NEW s \in Server, NEW msg \in Message, NEW n \in 1 .. Len(Encode(msg)), Report(s, msg, n)
    PROVE  UNCHANGED vars \/ \E info, players : ReportStored(s, msg, info, players)
<1> DEFINE data == Arriving(msg, n)
           fixed == Len(FixedPart(msg))
           list == msg.list
           players == (n - fixed) \div 4
           report == [msg |-> msg, players |-> players]
<1>1. fixed \in Nat /\ Len(list) \in Nat /\ n \in 0 .. Len(Encode(msg)) /\ n <= fixed + 4 * Len(list)
  <2>1. list \in Seq(Nat)
    BY MessageAssumption
  <2> HIDE DEF list
  <2>2. Len(list) \in Nat
    BY <2>1
  <2>3. fixed \in Nat /\ Len(Encode(msg)) = fixed + 4 * Len(list)
    BY EncodeBegins DEF list
  <2> HIDE DEF fixed
  <2> QED BY <2>2, <2>3
<1>2. PICK off : Offsets(off, msg) /\ Begins(data, off, msg)
  BY <1>1, Arrives
<1>3. Len(data) = n
  BY <1>1, Arrives
<1>4. Len(data) >= HeaderSize /\ msg.type = GameMasterInfoResponse
  <2>1. HasType(data, GameMasterInfoResponse) /\ GameMasterInfoResponse \in Nat
    BY DEF Report, GameMasterInfoResponse
  <2> HIDE DEF data
  <2> QED BY <1>2, <2>1, HeaderRead
<1>5. /\ handleInfoResponse(data) # {} <=> PrintableNames(msg) /\ n >= fixed
      /\ \A info \in handleInfoResponse(data), k \in Nat :
             fixed + 4 * k <= n /\ k <= Len(list) => Stored(info, msg, k)
  <2> HIDE DEF data
  <2> QED BY <1>2, <1>3, <1>4, InfoMade
<1>6. PrintableNames(msg) <=> isPrintableString(msg.gameType) /\ isPrintableString(msg.missionType)
  BY DEF PrintableNames
<1>7. CASE handleInfoResponse(data) = {}
  <2>1. UNCHANGED database /\ UNCHANGED reported
    BY <1>5, <1>6, <1>7 DEF Report, Noted
  <2> QED BY <2>1 DEF vars
<1>8. CASE handleInfoResponse(data) # {}
  <2>1. PICK info \in handleInfoResponse(data) : UpdateServer(s, info)
    BY <1>8 DEF Report
  <2>3. reported' = Put(reported, s, report) /\ n >= fixed /\ PrintableNames(msg)
    BY <1>5, <1>6, <1>8 DEF Report, Noted
  <2>4. players \in 0 .. Len(list) /\ fixed + 4 * players <= n
    <3> HIDE DEF fixed
    <3> DEFINE left == n - fixed
    <3>1. left \in Nat /\ left <= 4 * Len(list)
      BY <1>1, <2>3
    <3> HIDE DEF left
    <3>2. left \div 4 \in Nat /\ 4 * (left \div 4) <= left /\ left \div 4 <= Len(list)
      <4> DEFINE c == Len(list)
      <4>1. c \in Nat /\ left <= 4 * c
        BY <1>1, <3>1
      <4> HIDE DEF c
      <4>2. left \div 4 \in Nat /\ 4 * (left \div 4) <= left /\ left \div 4 <= c
        BY <3>1, <4>1
      <4> QED BY <4>2 DEF c
    <3>3. fixed + 4 * (left \div 4) <= n
      BY <1>1, <3>1, <3>2 DEF left
    <3> QED BY <1>1, <3>2, <3>3 DEF left
  <2> HIDE DEF players, fixed, list, data
  <2>5. players \in Nat /\ players <= Len(list)
    BY <1>1, <2>4
  <2>6. Stored(info, msg, players)
    BY <1>5, <2>1, <2>4, <2>5
  <2>7. ReportStored(s, msg, info, players)
    BY <1>4, <2>1, <2>3, <2>4, <2>6 DEF ReportStored, report, list
  <2> QED BY <2>7
<1> QED BY <1>7, <1>8

\* Whether it is new or not, a server has the record of its last report.
LEMMA Updated ==
    ASSUME NEW s, NEW info, UpdateServer(s, info)
    PROVE  servers' = Put(servers, s, info)
BY DEF UpdateServer, AddServer, RenewServer, Renew

LEMMA ReportKeeps ==
    ASSUME StoredInv, NEW s, NEW msg \in Message, NEW info, NEW players, ReportStored(s, msg, info, players)
    PROVE  StoredInv'
<1> DEFINE report == [msg |-> msg, players |-> players]
<1>1. /\ servers' = [b \in DOMAIN servers \cup {s} |-> IF b = s THEN info ELSE servers[b]]
      /\ reported' = [b \in DOMAIN reported \cup {s} |-> IF b = s THEN report ELSE reported[b]]
  BY Updated DEF ReportStored, Put
<1>2. report.msg = msg /\ report.players = players
  OBVIOUS
<1> HIDE DEF report
<1>3. /\ DOMAIN servers' = DOMAIN servers \cup {s} /\ DOMAIN reported' = DOMAIN servers \cup {s}
      /\ servers'[s] = info /\ reported'[s] = report
      /\ \A b \in DOMAIN servers : b # s => servers'[b] = servers[b] /\ reported'[b] = reported[b]
  BY <1>1 DEF StoredInv
<1>4. ASSUME NEW b \in DOMAIN servers'
      PROVE  LET held == reported'[b]
             IN  /\ held.msg \in Message /\ held.msg.type = GameMasterInfoResponse
                 /\ PrintableNames(held.msg)
                 /\ held.players \in 0 .. Len(held.msg.list)
                 /\ Stored(servers'[b], held.msg, held.players)
  <2>1. CASE b = s
    BY <1>2, <1>3, <2>1 DEF ReportStored
  <2>2. CASE b # s
    <3>1. b \in DOMAIN servers /\ servers'[b] = servers[b] /\ reported'[b] = reported[b]
      BY <1>3, <2>2
    <3> QED BY <3>1 DEF StoredInv
  <2> QED BY <2>1, <2>2
<1> QED BY <1>3, <1>4 DEF StoredInv

LEMMA StoredInvHolds == Spec => []StoredInv
<1>1. Init => StoredInv
  <2> SUFFICES ASSUME Init PROVE StoredInv
    OBVIOUS
  <2>1. <<>> \in [1 .. 0 -> Nat]
    BY EmptySeq, LenProperties
  <2>2. DOMAIN servers = {} /\ DOMAIN reported = {}
    BY <2>1 DEF Init
  <2> QED BY <2>2 DEF StoredInv
<1>2. ASSUME StoredInv, [Next]_vars PROVE StoredInv'
  <2>1. ASSUME NEW s \in Server, NEW msg \in Message, NEW n \in 1 .. Len(Encode(msg)),
               ProcMessage(s, msg, n)
        PROVE  StoredInv'
    <3>1. CASE \E info, players : ReportStored(s, msg, info, players)
      BY <1>2, <3>1, ReportKeeps
    <3>2. CASE UNCHANGED vars
      <4>1. servers' = servers /\ reported' = reported
        BY <3>2 DEF vars, database
      <4> QED BY <1>2, <4>1 DEF StoredInv
    <3>3. UNCHANGED vars \/ \E info, players : ReportStored(s, msg, info, players)
      BY <2>1, ReportMade DEF ProcMessage, ListRequest, OtherMessage
    <3> QED BY <3>1, <3>2, <3>3
  <2>2. ASSUME NEW s \in Server, Drop(s) PROVE StoredInv'
    <3>1. /\ servers' = [r \in DOMAIN servers \ {s} |-> servers[r]]
          /\ reported' = [r \in DOMAIN reported \ {s} |-> reported[r]]
      BY <2>2 DEF Drop
    <3>2. /\ DOMAIN servers' = DOMAIN servers \ {s} /\ DOMAIN reported' = DOMAIN servers \ {s}
          /\ \A r \in DOMAIN servers \ {s} : servers'[r] = servers[r] /\ reported'[r] = reported[r]
      BY <1>2, <3>1 DEF StoredInv
    <3> QED BY <1>2, <3>2 DEF StoredInv
  <2>3. CASE UNCHANGED vars
    <3>1. servers' = servers /\ reported' = reported
      BY <2>3 DEF vars, database
    <3> QED BY <1>2, <3>1 DEF StoredInv
  <2> QED BY <1>2, <2>1, <2>2, <2>3 DEF Next
<1> QED BY <1>1, <1>2, PTL DEF Spec

\* A push stores the name at a pointer, and each name once.
LEMMA PushTyped ==
    ASSUME NEW list, IsTypeList(list, Printable), NEW name \in Printable, NEW effectRef \in BOOLEAN,
           NEW push \in Push(list, name, effectRef)
    PROVE  push.ptr \in Pointer /\ IsTypeList(push.list, Printable)
<1> DEFINE Entry == [name : Printable, refCount : Nat \ {0}]
<1>1. ASSUME NEW p \in Pointer, NEW count \in Nat \ {0},
             \A q \in DOMAIN list : list[q].name = name => q = p,
             push = [ptr |-> p, list |-> Put(list, p, [name |-> name, refCount |-> count])]
      PROVE  push.ptr \in Pointer /\ IsTypeList(push.list, Printable)
  <2>1. /\ push.ptr = p /\ DOMAIN push.list = DOMAIN list \cup {p}
        /\ \A q \in DOMAIN list \ {p} : push.list[q] = list[q]
        /\ push.list[p] = [name |-> name, refCount |-> count]
    BY <1>1 DEF Put
  <2>2. push.list[p] \in Entry /\ push.list[p].name = name
    BY <2>1
  <2> QED BY <1>1, <2>1, <2>2 DEF IsTypeList
<1>2. CASE \E p \in DOMAIN list : list[p].name = name
  <2>1. PICK p \in DOMAIN list, more \in {0, 1} :
          /\ list[p].name = name
          /\ push = [ptr  |-> p,
                     list |-> Put(list, p, [name |-> name, refCount |-> list[p].refCount + more])]
    BY <1>2 DEF Push
  <2>2. p \in Pointer /\ list[p].refCount \in Nat \ {0}
    BY DEF IsTypeList
  <2>3. list[p].refCount + more \in Nat \ {0}
    BY <2>2
  <2>4. \A q \in DOMAIN list : list[q].name = name => q = p
    BY <2>1 DEF IsTypeList
  <2> QED BY <1>1, <2>1, <2>2, <2>3, <2>4
<1>3. CASE \A p \in DOMAIN list : list[p].name # name
  <2>1. PICK p \in Pointer \ DOMAIN list :
          push = [ptr |-> p, list |-> Put(list, p, [name |-> name, refCount |-> 1])]
    BY <1>3 DEF Push
  <2> QED BY <1>1, <1>3, <2>1
<1> QED BY <1>2, <1>3

\* One reference less, or none left and the name freed.
LEMMA PopTyped ==
    ASSUME NEW list, IsTypeList(list, Printable), NEW x, NEW ptr
    PROVE  IsTypeList(PopRefs(list, {x}, ptr), Printable)
<1> DEFINE count(p) == Cardinality({s \in {x} : ptr[s] = p})
           rest == PopRefs(list, {x}, ptr)
<1>1. \A p : count(p) \in Nat
  <2> TAKE p
  <2>1. {s \in {x} : ptr[s] = p} \in SUBSET {x} /\ IsFiniteSet({x})
    BY FS_Singleton
  <2> QED BY <2>1, FS_Subset, FS_CardinalityType
<1>2. rest = [p \in {q \in DOMAIN list : list[q].refCount > count(q)} |->
                 [list[p] EXCEPT !.refCount = @ - count(p)]]
  BY Zenon DEF PopRefs
<1> HIDE DEF count, rest
<1>3. ASSUME NEW p \in DOMAIN rest
      PROVE  p \in DOMAIN list /\ rest[p] \in [name : Printable, refCount : Nat \ {0}]
             /\ rest[p].name = list[p].name
  <2>1. /\ p \in DOMAIN list /\ list[p].refCount > count(p)
        /\ rest[p] = [list[p] EXCEPT !.refCount = @ - count(p)]
    BY <1>2
  <2>2. list[p] \in [name : Printable, refCount : Nat \ {0}] /\ count(p) \in Nat
    BY <1>1, <2>1 DEF IsTypeList
  <2>3. list[p].refCount - count(p) \in Nat \ {0}
    BY <2>1, <2>2
  <2> QED BY <2>1, <2>2, <2>3
<1>4. IsTypeList(rest, Printable)
  BY <1>3 DEF IsTypeList
<1> QED BY <1>4 DEF rest

LEMMA ReleaseTyped ==
    ASSUME NEW list, IsTypeList(list, Printable), NEW old, NEW new
    PROVE  IsTypeList(Release(list, old, new), Printable)
BY PopTyped DEF Release

\* Every record has its types stored somewhere, and the lists are sound.
TypesInv ==
    /\ pointers \in [DOMAIN servers -> [game : Pointer, mission : Pointer]]
    /\ IsTypeList(gameTypes, Printable)
    /\ IsTypeList(missionTypes, Printable)

LEMMA UpdateTyped ==
    ASSUME TypesInv, NEW s, NEW info, info.gameType \in Printable, info.missionType \in Printable,
           UpdateServer(s, info)
    PROVE  TypesInv'
<1>1. ASSUME NEW g, NEW m, g.ptr \in Pointer, m.ptr \in Pointer, servers' = Put(servers, s, info),
             pointers' = Put(pointers, s, [game |-> g.ptr, mission |-> m.ptr])
      PROVE  pointers' \in [DOMAIN servers' -> [game : Pointer, mission : Pointer]]
  <2>1. DOMAIN servers' = DOMAIN servers \cup {s}
    BY <1>1 DEF Put
  <2>2. pointers' = [b \in DOMAIN servers \cup {s} |->
                        IF b = s THEN [game |-> g.ptr, mission |-> m.ptr] ELSE pointers[b]]
    BY <1>1 DEF Put, TypesInv
  <2> QED BY <1>1, <2>1, <2>2 DEF TypesInv
<1>2. CASE AddServer(s, info)
  <2>1. PICK g \in Push(gameTypes, info.gameType, TRUE), m \in Push(missionTypes, info.missionType, TRUE) :
          /\ pointers' = Put(pointers, s, [game |-> g.ptr, mission |-> m.ptr])
          /\ gameTypes' = g.list /\ missionTypes' = m.list
    BY <1>2 DEF AddServer
  <2>2. /\ g.ptr \in Pointer /\ IsTypeList(g.list, Printable)
        /\ m.ptr \in Pointer /\ IsTypeList(m.list, Printable)
    BY PushTyped DEF TypesInv
  <2>3. pointers' \in [DOMAIN servers' -> [game : Pointer, mission : Pointer]]
    BY <1>1, <2>1, <2>2, Updated
  <2> QED BY <2>1, <2>2, <2>3 DEF TypesInv
<1>3. CASE RenewServer(s, info)
  <2>1. PICK g \in Push(gameTypes, info.gameType, FALSE), m \in Push(missionTypes, info.missionType, FALSE) :
          /\ pointers' = Put(pointers, s, [game |-> g.ptr, mission |-> m.ptr])
          /\ gameTypes' = Release(g.list, pointers[s].game, g.ptr)
          /\ missionTypes' = Release(m.list, pointers[s].mission, m.ptr)
    BY <1>3 DEF RenewServer
  <2>2. /\ g.ptr \in Pointer /\ IsTypeList(g.list, Printable)
        /\ m.ptr \in Pointer /\ IsTypeList(m.list, Printable)
    BY PushTyped DEF TypesInv
  <2>3. pointers' \in [DOMAIN servers' -> [game : Pointer, mission : Pointer]]
    BY <1>1, <2>1, <2>2, Updated
  <2> QED BY <2>1, <2>2, <2>3, ReleaseTyped DEF TypesInv
<1> QED BY <1>2, <1>3 DEF UpdateServer

LEMMA TypesInvHolds == Spec => []TypesInv
<1>1. Init => TypesInv
  <2> SUFFICES ASSUME Init PROVE TypesInv
    OBVIOUS
  <2>1. <<>> \in [1 .. 0 -> Nat] /\ 1 .. 0 = {}
    BY EmptySeq, LenProperties
  <2>2. \A S : <<>> \in [{} -> S]
    BY <2>1
  <2>3. DOMAIN <<>> = {}
    BY <2>1
  <2> QED BY <2>2, <2>3 DEF Init, TypesInv, IsTypeList
<1>2. ASSUME TypesInv, [Next]_vars PROVE TypesInv'
  <2>1. CASE UNCHANGED vars
    BY <1>2, <2>1 DEF vars, database, TypesInv, IsTypeList
  <2>2. ASSUME NEW s \in Server, NEW msg \in Message, NEW n \in 1 .. Len(Encode(msg)),
               ProcMessage(s, msg, n)
        PROVE  TypesInv'
    <3>1. UNCHANGED vars \/ \E info, players : ReportStored(s, msg, info, players)
      BY <2>2, ReportMade DEF ProcMessage, ListRequest, OtherMessage
    <3>2. ASSUME NEW info, NEW players, ReportStored(s, msg, info, players) PROVE TypesInv'
      <4>1. info.gameType \in Printable /\ info.missionType \in Printable
        BY <3>2, ReportHolds DEF ReportStored, Stored, PrintableNames, isPrintableString
      <4> QED BY <1>2, <3>2, <4>1, UpdateTyped DEF ReportStored
    <3> QED BY <2>1, <3>1, <3>2
  <2>3. ASSUME NEW s \in Server, Drop(s) PROVE TypesInv'
    <3>1. pointers' \in [DOMAIN servers' -> [game : Pointer, mission : Pointer]]
      BY <1>2, <2>3 DEF Drop, TypesInv
    <3>2. IsTypeList(gameTypes', Printable) /\ IsTypeList(missionTypes', Printable)
      BY <1>2, <2>3, PopTyped DEF Drop, TypesInv
    <3> QED BY <3>1, <3>2 DEF TypesInv
  <2> QED BY <1>2, <2>1, <2>2, <2>3 DEF Next
<1> QED BY <1>1, <1>2, PTL DEF Spec

\* Every record in the database has fields that fit their types and as many
\* players as it counts, whatever was cut off the reports it came from, and the
\* type lists hold each name once, wherever names are stored.
THEOREM RecordsTyped == Spec => []TypeOK
<1>1. StoredInv /\ TypesInv => TypeOK
  <2> SUFFICES ASSUME StoredInv, NEW s \in DOMAIN servers
               PROVE  /\ \A i \in DOMAIN ReportFormat :
                             LET f == ReportFormat[i]
                             IN  IF f.width = Text THEN servers[s][f.name] \in Printable
                                 ELSE Fits(servers[s][f.name], f.width)
                      /\ Fits(servers[s].CPUSpeed, 2)
                      /\ servers[s].playerList \in Seq(Guid)
                      /\ Len(servers[s].playerList) = servers[s].playerCount
    BY DEF TypeOK, TypesInv
  <2> DEFINE info == servers[s]
             msg == reported[s].msg
  <2>1. /\ msg \in Message /\ msg.type = GameMasterInfoResponse /\ PrintableNames(msg)
        /\ HoldsOf(info, msg, ReportFormat)
        /\ info.playerList \in Seq(Guid) /\ Len(info.playerList) = Len(msg.list)
    BY DEF StoredInv, Stored
  <2> HIDE DEF info, msg
  <2>2. Fits(msg.CPUSpeed, 2) /\ msg.playerCount = Len(msg.list)
    BY <2>1, MessageAssumption
  <2>3. info.CPUSpeed = msg.CPUSpeed /\ info.playerCount = msg.playerCount
    BY <2>1, ReportHolds
  <2>4. ASSUME NEW i \in DOMAIN ReportFormat
        PROVE  IF ReportFormat[i].width = Text THEN info[ReportFormat[i].name] \in Printable
               ELSE Fits(info[ReportFormat[i].name], ReportFormat[i].width)
    <3>1. i \in 1 .. 9 /\ Len(ReportFormat) = 9
      BY FormatTypes
    <3>2. info[ReportFormat[i].name] = msg[ReportFormat[i].name]
      BY <2>1, <3>1 DEF HoldsOf
    <3>3. CASE ReportFormat[i].width = Text
      <4>1. i \in {1, 2}
        BY <3>1, <3>3, ReportNames
      <4>2. ReportFormat[1].name = "gameType" /\ ReportFormat[2].name = "missionType"
        BY ReportNames
      <4>3. msg.gameType \in Printable /\ msg.missionType \in Printable
        BY <2>1 DEF PrintableNames, isPrintableString
      <4>4. CASE i = 1
        BY <3>2, <3>3, <4>2, <4>3, <4>4
      <4>5. CASE i = 2
        BY <3>2, <3>3, <4>2, <4>3, <4>5
      <4> QED BY <4>1, <4>4, <4>5
    <3>4. CASE ReportFormat[i].width # Text
      <4>1. 4 + i \in 1 .. Len(FormatOf(msg)) /\ FormatOf(msg)[4 + i] = ReportFormat[i]
        BY <2>1, <3>1, ReportParts DEF PartOf
      <4> DEFINE j == 4 + i
      <4>2. j \in 1 .. Len(FormatOf(msg)) /\ FormatOf(msg)[j] = ReportFormat[i]
        BY <4>1
      <4> HIDE DEF j
      <4>3. LET f == FormatOf(msg)[j] IN f.width # Text => Fits(msg[f.name], f.width)
        BY <2>1, <4>2, FieldTypes
      <4> QED BY <3>2, <3>4, <4>2, <4>3
    <3> QED BY <3>3, <3>4
  <2> QED BY <2>1, <2>2, <2>3, <2>4 DEF info
<1> QED BY <1>1, StoredInvHolds, TypesInvHolds, PTL

\* A record is there exactly if a report of its server had its fixed part, and
\* it holds what the last such report said, the players that came included.
THEOREM RecordsReported == Spec => []StoredAsReported
<1>1. StoredInv => StoredAsReported
  <2>1. DOMAIN ReportFormat = 1 .. Len(ReportFormat)
    BY FormatTypes
  <2> QED BY <2>1 DEF StoredInv, StoredAsReported, Stored, HoldsOf
<1> QED BY <1>1, StoredInvHolds, PTL

-----------------------------------------------------------------------------
(***************************************************************************)
(* List requests                                                           *)
(***************************************************************************)
LEMMA AnswerIs ==
    ASSUME NEW data
    PROVE  LET r == IndexReader(data)
               q == QueryReader(data)
           IN  handleListRequest(data) =
                   IF r.values.index # NewQuery THEN [outcome |-> "resent", index |-> r.values.index]
                   ELSE IF Accepted(data, q)
                   THEN [outcome |-> "answered",
                         found   |-> UNION {QueryServers(Sane(Put(q.values, "buddyList", list))) :
                                               list \in Lists(data, q.packet, q.values.buddyCount)}]
                   ELSE [outcome |-> "refused"]
BY DEF handleListRequest, IndexReader, QueryReader

LEMMA QueryNames ==
    /\ Len(QueryFormat) = 10
    /\ QueryFormat[1].name = "gameType" /\ QueryFormat[2].name = "missionType"
    /\ QueryFormat[3].name = "minPlayers" /\ QueryFormat[4].name = "maxPlayers"
    /\ QueryFormat[5].name = "regions" /\ QueryFormat[6].name = "version"
    /\ QueryFormat[7].name = "filterFlags" /\ QueryFormat[8].name = "maxBots"
    /\ QueryFormat[9].name = "minCPUSpeed" /\ QueryFormat[10].name = "buddyCount"
<1>1. /\ QueryFormat[1] = Field("gameType", Text) /\ QueryFormat[2] = Field("missionType", Text)
      /\ QueryFormat[3] = Field("minPlayers", 1) /\ QueryFormat[4] = Field("maxPlayers", 1)
      /\ QueryFormat[5] = Field("regions", 4) /\ QueryFormat[6] = Field("version", 4)
      /\ QueryFormat[7] = Field("filterFlags", 1) /\ QueryFormat[8] = Field("maxBots", 1)
      /\ QueryFormat[9] = Field("minCPUSpeed", 2) /\ QueryFormat[10] = Field("buddyCount", 1)
  BY DEF QueryFormat
<1>2. \A name, width : Field(name, width).name = name
  BY DEF Field
<1> QED BY <1>1, <1>2, FormatTypes

LEMMA QueryHolds ==
    ASSUME NEW values, NEW msg, HoldsOf(values, msg, QueryFormat)
    PROVE  /\ values.gameType = msg.gameType /\ values.missionType = msg.missionType
           /\ values.minPlayers = msg.minPlayers /\ values.maxPlayers = msg.maxPlayers
           /\ values.regions = msg.regions /\ values.version = msg.version
           /\ values.filterFlags = msg.filterFlags /\ values.maxBots = msg.maxBots
           /\ values.minCPUSpeed = msg.minCPUSpeed /\ values.buddyCount = msg.buddyCount
<1>1. \A i \in 1 .. 10 : values[QueryFormat[i].name] = msg[QueryFormat[i].name]
  BY QueryNames DEF HoldsOf
<1>2. /\ values[QueryFormat[1].name] = msg[QueryFormat[1].name]
      /\ values[QueryFormat[2].name] = msg[QueryFormat[2].name]
      /\ values[QueryFormat[3].name] = msg[QueryFormat[3].name]
      /\ values[QueryFormat[4].name] = msg[QueryFormat[4].name]
      /\ values[QueryFormat[5].name] = msg[QueryFormat[5].name]
      /\ values[QueryFormat[6].name] = msg[QueryFormat[6].name]
      /\ values[QueryFormat[7].name] = msg[QueryFormat[7].name]
      /\ values[QueryFormat[8].name] = msg[QueryFormat[8].name]
      /\ values[QueryFormat[9].name] = msg[QueryFormat[9].name]
      /\ values[QueryFormat[10].name] = msg[QueryFormat[10].name]
  BY <1>1
<1> QED BY <1>2, QueryNames

\* A query is accepted if it is whole and its names can be printed.
LEMMA QueryAccepted ==
    ASSUME NEW msg \in Message, IsQuery(msg), NEW n \in 0 .. Len(Encode(msg)), n > HeaderSize
    PROVE  LET q == QueryReader(Arriving(msg, n))
           IN  Accepted(Arriving(msg, n), q) <=> n = Len(Encode(msg)) /\ PrintableNames(msg)
<1> DEFINE data == Arriving(msg, n)
           q == QueryReader(data)
           p == q.packet
           fixed == Len(FixedPart(msg))
           count == Len(msg.list)
           whole == Len(Encode(msg))
<1>1. fixed \in Nat /\ count \in Nat /\ whole = fixed + 4 * count /\ n \in Nat /\ n <= whole
  <2>1. msg.list \in Seq(Nat)
    BY MessageAssumption
  <2>2. count \in Nat
    BY <2>1
  <2>3. fixed \in Nat /\ whole = fixed + 4 * count
    BY EncodeBegins
  <2> HIDE DEF fixed, count
  <2> QED BY <2>2, <2>3
<1>2. PICK off : Offsets(off, msg) /\ Begins(data, off, msg)
  BY Arrives
<1>3. Len(data) = n /\ data \in Seq(Cell)
  BY <1>2, Arrives DEF Begins
<1>4. /\ q \in Readers(data)
      /\ n >= fixed => p.length = fixed /\ p.statusOK /\ HoldsOf(q.values, msg, QueryFormat)
      /\ n < fixed => ~p.statusOK
  <2> HIDE DEF data
  <2>1. LET r == QueryReader(data)
        IN  /\ r \in Readers(data)
            /\ Len(data) >= Len(FixedPart(msg)) => /\ r.packet.length = Len(FixedPart(msg))
                                                   /\ r.packet.statusOK
                                                   /\ HoldsOf(r.values, msg, QueryFormat)
            /\ Len(data) < Len(FixedPart(msg)) => ~r.packet.statusOK
    BY <1>2, <1>3, QueryRead
  <2> QED BY <1>3, <2>1
<1>5. Accepted(data, q) <=> /\ isPrintableString(q.values.gameType) /\ isPrintableString(q.values.missionType)
                            /\ p.statusOK
                            /\ AfterReads(p, q.values.buddyCount)[q.values.buddyCount].statusOK
  BY DEF Accepted, WellFormed
<1>6. msg.buddyCount = count
  BY MessageAssumption
<1> HIDE DEF data, q, fixed, count, whole
<1>7. CASE n < fixed
  <2>1. n # whole
    BY <1>1, <1>7
  <2> QED BY <1>4, <1>5, <1>7, <2>1 DEF data, q, whole
<1>8. CASE ~(n < fixed)
  <2>1. p.length = fixed /\ p.statusOK /\ HoldsOf(q.values, msg, QueryFormat) /\ p \in Pointers(data)
    BY <1>1, <1>4, <1>8 DEF Readers
  <2>2. /\ q.values.gameType = msg.gameType /\ q.values.missionType = msg.missionType
        /\ q.values.buddyCount = count
    BY <1>6, <2>1, QueryHolds
  <2> HIDE DEF p
  <2>3. LET after == AfterReads(p, count)
        IN  \A i \in 0 .. count :
               /\ p.length + 4 * i <= Len(data) => after[i].statusOK = p.statusOK
               /\ p.length + 4 * i > Len(data) => ~after[i].statusOK
    BY <1>1, <1>3, <2>1, EntriesRead
  <2>4. AfterReads(p, count)[count].statusOK <=> n = whole
    <3>1. count \in 0 .. count
      BY <1>1
    <3>2. CASE n = whole
      <4>1. p.length + 4 * count <= Len(data)
        BY <1>1, <1>3, <2>1, <3>2
      <4> QED BY <2>1, <2>3, <3>1, <3>2, <4>1
    <3>3. CASE n # whole
      <4>1. p.length + 4 * count > Len(data)
        BY <1>1, <1>3, <2>1, <3>3
      <4> QED BY <2>3, <3>1, <3>3, <4>1
    <3> QED BY <3>2, <3>3
  <2>5. Accepted(data, q) <=> n = whole /\ PrintableNames(msg)
    BY <1>5, <2>1, <2>2, <2>4 DEF PrintableNames
  <2> QED BY <2>5 DEF data, q, whole
<1> QED BY <1>7, <1>8

LEMMA CutRequest ==
    ASSUME NEW msg \in ListRequests, NEW n \in HeaderSize .. Len(Encode(msg)) - 1
    PROVE  \/ Answer(msg, n).outcome = "refused"
           \/ n = HeaderSize /\ Answer(msg, n) = [outcome |-> "resent", index |-> 0]
<1> DEFINE data == Arriving(msg, n)
           index == IndexReader(data).values.index
           whole == Len(Encode(msg))
<1>1. msg \in Message /\ msg.type = MasterServerListRequest
  BY DEF ListRequests
<1>2. whole \in Nat /\ HeaderSize \in Nat /\ whole = Len(FixedPart(msg)) + 4 * Len(msg.list)
  <2>1. msg.list \in Seq(Nat)
    BY <1>1, MessageAssumption
  <2>2. Len(msg.list) \in Nat
    BY <2>1
  <2>3. Len(FixedPart(msg)) \in Nat /\ whole = Len(FixedPart(msg)) + 4 * Len(msg.list)
    BY <1>1, EncodeBegins
  <2> HIDE DEF whole
  <2> QED BY <2>2, <2>3 DEF HeaderSize
<1> HIDE DEF whole
<1>3. n \in 0 .. whole /\ n \in Nat /\ n >= HeaderSize /\ n < whole
  BY <1>2 DEF whole
<1>4. PICK off : Offsets(off, msg) /\ Begins(data, off, msg)
  BY <1>1, <1>3, Arrives DEF whole
<1>5. Len(data) = n
  BY <1>1, <1>3, Arrives DEF whole
<1>6. /\ off[5] = HeaderSize + 1
      /\ n > HeaderSize => index = msg.index
      /\ n = HeaderSize => index = 0
  <2> HIDE DEF data
  <2> QED BY <1>1, <1>3, <1>4, <1>5, IndexRead
<1>7. Answer(msg, n) = handleListRequest(data)
  BY DEF Answer
<1>8. index # NewQuery => handleListRequest(data) = [outcome |-> "resent", index |-> index]
  BY AnswerIs
<1>9. CASE n = HeaderSize
  BY <1>6, <1>7, <1>8, <1>9 DEF NewQuery
<1>10. CASE n > HeaderSize
  <2>1. IsQuery(msg)
    <3> SUFFICES ASSUME ~IsQuery(msg) PROVE FALSE
      OBVIOUS
    <3>1. Len(FormatOf(msg)) = 5
      BY <1>1, RequestParts
    <3>2. Len(FixedPart(msg)) = HeaderSize + 1
      BY <1>4, <1>6, <3>1 DEF Offsets
    <3>3. msg.list = <<>>
      <4>1. msg.type # GameMasterInfoResponse
        BY <1>1 DEF GameMasterInfoResponse, MasterServerListRequest
      <4> QED BY <1>1, <4>1, MessageAssumption
    <3>4. Len(msg.list) = 0
      BY <3>3, EmptySeq
    <3>5. whole = HeaderSize + 1
      BY <1>2, <3>2, <3>4
    <3> QED BY <1>2, <1>3, <1>10, <3>5
  <2>2. ~Accepted(data, QueryReader(data))
    <3>1. n # whole
      BY <1>2, <1>3
    <3> QED BY <1>1, <1>3, <1>10, <2>1, <3>1, QueryAccepted DEF whole
  <2>3. index = NewQuery
    BY <1>6, <1>10, <2>1 DEF IsQuery
  <2>4. handleListRequest(data) = [outcome |-> "refused"]
    BY <2>2, <2>3, AnswerIs
  <2> QED BY <1>7, <2>4
<1> QED BY <1>2, <1>3, <1>9, <1>10

\* A list request cut at any byte finds nothing and makes no session: it is
\* refused, or asks for a packet of an answer that may be there.
THEOREM CutRequestsRefused == Spec => []CutRequestsHarmless
<1>1. CutRequestsHarmless
  BY CutRequest DEF CutRequestsHarmless
<1> QED BY <1>1, PTL

\* What a whole query looks for.
FilterOf(values, q) == Put(values, "buddyList", q.list)

\* The filter says what the query says, which allows this many players.
Says(filter, q, most) ==
    /\ filter.gameType = q.gameType /\ filter.missionType = q.missionType
    /\ filter.minPlayers = q.minPlayers /\ filter.maxPlayers = most
    /\ filter.regions = q.regions /\ filter.version = q.version
    /\ filter.filterFlags = q.filterFlags /\ filter.maxBots = q.maxBots
    /\ filter.minCPUSpeed = q.minCPUSpeed /\ filter.buddyCount = Len(q.list)
    /\ filter.buddyList = q.list

\* The filter that is looked for.
SaysFilter(filter, q) == Says(filter, q, MostPlayers(q))

LEMMA FilterSays ==
    ASSUME NEW q \in Message, IsQuery(q), NEW values, HoldsOf(values, q, QueryFormat)
    PROVE  Says(FilterOf(values, q), q, q.maxPlayers) /\ SaysFilter(Sane(FilterOf(values, q)), q)
<1> DEFINE filter == FilterOf(values, q)
<1>1. filter = [b \in DOMAIN values \cup {"buddyList"} |-> IF b = "buddyList" THEN q.list ELSE values[b]]
  BY DEF FilterOf, Put
<1>2. /\ filter.buddyList = q.list
      /\ \A b \in DOMAIN values : b # "buddyList" => filter[b] = values[b]
  BY <1>1
<1>3. \A i \in 1 .. 10 : QueryFormat[i].name \in DOMAIN values
  BY QueryNames DEF HoldsOf
<1>4. /\ "gameType" \in DOMAIN values /\ "missionType" \in DOMAIN values
      /\ "minPlayers" \in DOMAIN values /\ "maxPlayers" \in DOMAIN values
      /\ "regions" \in DOMAIN values /\ "version" \in DOMAIN values
      /\ "filterFlags" \in DOMAIN values /\ "maxBots" \in DOMAIN values
      /\ "minCPUSpeed" \in DOMAIN values /\ "buddyCount" \in DOMAIN values
  <2>1. /\ QueryFormat[1].name \in DOMAIN values /\ QueryFormat[2].name \in DOMAIN values
        /\ QueryFormat[3].name \in DOMAIN values /\ QueryFormat[4].name \in DOMAIN values
        /\ QueryFormat[5].name \in DOMAIN values /\ QueryFormat[6].name \in DOMAIN values
        /\ QueryFormat[7].name \in DOMAIN values /\ QueryFormat[8].name \in DOMAIN values
        /\ QueryFormat[9].name \in DOMAIN values /\ QueryFormat[10].name \in DOMAIN values
    BY <1>3
  <2> QED BY <2>1, QueryNames
<1> HIDE DEF filter
<1>5. /\ filter.gameType = values.gameType /\ filter.missionType = values.missionType
      /\ filter.minPlayers = values.minPlayers /\ filter.maxPlayers = values.maxPlayers
      /\ filter.regions = values.regions /\ filter.version = values.version
      /\ filter.filterFlags = values.filterFlags /\ filter.maxBots = values.maxBots
      /\ filter.minCPUSpeed = values.minCPUSpeed /\ filter.buddyCount = values.buddyCount
  BY <1>2, <1>4
<1>6. q.buddyCount = Len(q.list)
  BY MessageAssumption
<1>7. Says(filter, q, q.maxPlayers)
  BY <1>2, <1>5, <1>6, QueryHolds DEF Says
<1>8. CASE filter.maxPlayers < filter.minPlayers
  <2>1. Sane(filter) = [filter EXCEPT !.maxPlayers = filter.minPlayers] /\ MostPlayers(q) = q.minPlayers
    BY <1>7, <1>8 DEF Sane, MostPlayers, Says
  <2>2. DOMAIN filter = DOMAIN values \cup {"buddyList"}
    BY <1>1
  <2>3. Sane(filter).maxPlayers = filter.minPlayers
        /\ \A b \in DOMAIN filter : b # "maxPlayers" => Sane(filter)[b] = filter[b]
    BY <1>4, <2>1, <2>2
  <2>4. SaysFilter(Sane(filter), q)
    BY <1>4, <1>7, <2>1, <2>2, <2>3 DEF SaysFilter, Says
  <2> QED BY <1>7, <2>4 DEF filter
<1>9. CASE ~(filter.maxPlayers < filter.minPlayers)
  BY <1>7, <1>9 DEF Sane, MostPlayers, SaysFilter, Says, filter
<1> QED BY <1>8, <1>9

LEMMA QueryAnswered ==
    ASSUME NEW q \in Message, IsQuery(q), PrintableNames(q)
    PROVE  \E filter : /\ SaysFilter(filter, q)
                       /\ Answer(q, Len(Encode(q))) = [outcome |-> "answered", found |-> QueryServers(filter)]
<1> DEFINE n == Len(Encode(q))
           data == Arriving(q, n)
           r == QueryReader(data)
           list == q.list
           lists == Lists(data, r.packet, r.values.buddyCount)
           filter == Sane(FilterOf(r.values, q))
           fixed == Len(FixedPart(q))
<1>1. list \in Seq(Nat) /\ Len(list) \in Nat /\ q.buddyCount = Len(list) /\ q.type = MasterServerListRequest
  <2>1. list \in Seq(Nat) /\ q.buddyCount = Len(list)
    BY MessageAssumption
  <2> HIDE DEF list
  <2> QED BY <2>1 DEF IsQuery
<1>2. fixed \in Nat /\ n = fixed + 4 * Len(list)
  BY EncodeBegins
<1> HIDE DEF fixed, list
<1>3. n \in Nat /\ n \in 0 .. Len(Encode(q))
  BY <1>1, <1>2
<1>4. PICK off : Offsets(off, q) /\ Begins(data, off, q)
  BY <1>3, Arrives
<1>5. Len(data) = n /\ data \in Seq(Cell)
  BY <1>3, <1>4, Arrives DEF Begins
<1>6. n > HeaderSize
  <2>1. n >= HeaderSize
    <3>1. off[4] = HeaderSize
      <4> HIDE DEF data
      <4> QED BY <1>4, HeaderRead
    <3>2. off[4] <= fixed /\ off[4] \in Nat
      <4>1. Len(FormatOf(q)) = 15
        BY <1>1, RequestParts
      <4>2. 4 \in 0 .. Len(FormatOf(q))
        BY <4>1
      <4> QED BY <1>4, <4>2, OffsetsGrow DEF fixed
    <3> HIDE DEF n
    <3> QED BY <1>1, <1>2, <3>1, <3>2
  <2>2. off[5] = HeaderSize + 1
    <3> HIDE DEF data
    <3> QED BY <1>1, <1>4, <1>5, <2>1, IndexRead
  <2>3. off[5] <= fixed
    <3>1. Len(FormatOf(q)) = 15
      BY <1>1, RequestParts
    <3>2. 5 \in 0 .. Len(FormatOf(q))
      BY <3>1
    <3> QED BY <1>4, <3>2, OffsetsGrow DEF fixed
  <2> HIDE DEF n
  <2> QED BY <1>1, <1>2, <2>2, <2>3 DEF HeaderSize
<1>7. IndexReader(data).values.index = NewQuery
  <2> HIDE DEF data
  <2>1. Len(data) >= HeaderSize /\ Len(data) > HeaderSize
    BY <1>3, <1>5, <1>6 DEF HeaderSize
  <2>2. IndexReader(data).values.index = q.index
    BY <1>1, <1>4, <2>1, IndexRead
  <2> QED BY <2>2 DEF IsQuery
<1>8. Accepted(data, r)
  BY <1>3, <1>6, QueryAccepted
<1>9. r \in Readers(data) /\ r.packet.length = fixed /\ HoldsOf(r.values, q, QueryFormat)
  <2>1. Len(data) > HeaderSize /\ Len(data) >= fixed
    <3> HIDE DEF n, data
    <3> QED BY <1>1, <1>2, <1>5, <1>6
  <2> HIDE DEF data
  <2>2. LET b == QueryReader(data)
        IN  /\ b \in Readers(data)
            /\ Len(data) >= Len(FixedPart(q)) => /\ b.packet.length = Len(FixedPart(q))
                                                 /\ b.packet.statusOK
                                                 /\ HoldsOf(b.values, q, QueryFormat)
            /\ Len(data) < Len(FixedPart(q)) => ~b.packet.statusOK
    BY <1>4, <2>1, QueryRead
  <2> QED BY <2>1, <2>2 DEF fixed
<1>10. lists = {list}
  <2> DEFINE p == r.packet
  <2>1. r.values.buddyCount = Len(list)
    BY <1>1, <1>9, QueryHolds
  <2>2. p \in Pointers(data) /\ p.length = fixed
    BY <1>9 DEF Readers
  <2>3. \A j \in 1 .. Len(list) : Lies(data, fixed + 4 * (j - 1), list[j], 4)
    BY <1>4 DEF Begins, fixed, list
  <2> HIDE DEF data, r, p
  <2>4. \A j \in 1 .. Len(list) : Lies(data, p.length + 4 * (j - 1), list[j], 4)
    BY <2>2, <2>3
  <2>5. /\ Lists(data, p, Len(list)) # {}
        /\ \A got \in Lists(data, p, Len(list)) :
               /\ got \in Seq(Nat) /\ Len(got) = Len(list)
               /\ list \in Seq(Guid) => got \in Seq(Guid)
               /\ \A j \in 1 .. Len(list) : p.length + 4 * j <= Len(data) => got[j] = list[j]
    BY <1>1, <1>5, <2>2, <2>4, ListsRead
  <2>6. \A j \in 1 .. Len(list) : p.length + 4 * j <= Len(data)
    BY <1>1, <1>2, <1>5, <2>2
  <2>7. \A got \in Lists(data, p, Len(list)) : got = list
    BY <1>1, <2>5, <2>6, SeqEqual
  <2>8. Lists(data, p, Len(list)) = {list}
    BY <2>5, <2>7
  <2> QED BY <2>1, <2>8 DEF p
<1>11. SaysFilter(filter, q)
  BY <1>9, FilterSays
<1>13. Answer(q, n) = handleListRequest(data)
  BY DEF Answer
<1>14. handleListRequest(data) =
           [outcome |-> "answered",
            found   |-> UNION {QueryServers(Sane(Put(r.values, "buddyList", got))) : got \in lists}]
  BY <1>7, <1>8, AnswerIs
<1> HIDE DEF lists, r, data, n
<1>15. UNION {QueryServers(Sane(Put(r.values, "buddyList", got))) : got \in lists} = QueryServers(filter)
  <2>1. Sane(Put(r.values, "buddyList", list)) = filter
    BY DEF FilterOf, list
  <2>2. {QueryServers(Sane(Put(r.values, "buddyList", got))) : got \in lists} = {QueryServers(filter)}
    BY <1>10, <2>1
  <2> QED BY <2>2
<1>16. Answer(q, n) = [outcome |-> "answered", found |-> QueryServers(filter)]
  BY <1>13, <1>14, <1>15
<1> HIDE DEF filter
<1> QED BY <1>11, <1>16 DEF n

\* The record of a report passes the filter of a query exactly if the report
\* said nothing that the query excludes and one of the players is a buddy.
LEMMA PassesIs ==
    ASSUME NEW info, NEW msg \in Message, msg.type = GameMasterInfoResponse,
           HoldsOf(info, msg, ReportFormat), NEW filter, NEW q, SaysFilter(filter, q)
    PROVE  Passes(info, filter)
               <=> /\ Eligible(msg, q)
                   /\ Len(q.list) # 0 => ToSet(q.list) \cap ToSet(info.playerList) # {}
<1>1. /\ info.regions = msg.regions /\ info.version = msg.version
      /\ info.infoFlags = msg.infoFlags /\ info.numBots = msg.numBots
      /\ info.CPUSpeed = msg.CPUSpeed /\ info.playerCount = Len(msg.list)
  <2>1. msg.playerCount = Len(msg.list)
    BY MessageAssumption
  <2> QED BY <2>1, ReportHolds
<1> QED BY <1>1 DEF Passes, Eligible, AtLeast, AtMost, SaysFilter, Says

\* A type that the list keeps for the record is found exactly by its name.
LEMMA IsTypeKept ==
    ASSUME NEW list, NEW wanted, NEW ptr, NEW name,
           wanted \in {Empty, Wildcard} \/ Keeps(list, ptr, name)
    PROVE  IsType(list, wanted, ptr) <=> wanted \in {Empty, Wildcard, name}
BY DEF IsType, GetRef, Keeps

\* A whole query finds the servers whose last report meets it and no others,
\* whatever was cut off the reports, but for three exceptions: types that were
\* freed under a record, players that did not arrive, and a minimum of players
\* without a maximum, which is taken for both.
THEOREM QueriesExact == Spec => []AnswerExact
<1>1. StoredInv => AnswerExact
  <2> SUFFICES ASSUME StoredInv, NEW q \in ListRequests, IsQuery(q),
                      {q.gameType, q.missionType} \subseteq Printable
               PROVE  LET answer == Answer(q, Len(Encode(q)))
                      IN  answer.outcome = "answered" /\ Exact(q, answer.found)
    BY DEF AnswerExact
  <2>1. q \in Message /\ PrintableNames(q)
    BY DEF ListRequests, PrintableNames, isPrintableString
  <2>2. PICK filter : /\ SaysFilter(filter, q)
                      /\ Answer(q, Len(Encode(q))) = [outcome |-> "answered", found |-> QueryServers(filter)]
    BY <2>1, QueryAnswered
  <2> DEFINE found == QueryServers(filter)
  <2>3. found \subseteq DOMAIN reported
    BY DEF QueryServers, StoredInv
  <2>4. q.list \in Seq(Nat) /\ (q.list = <<>> <=> Len(q.list) = 0)
    <3>1. q.list \in Seq(Nat)
      BY <2>1, MessageAssumption
    <3> QED BY <3>1, EmptySeq
  <2>5. ASSUME NEW s \in DOMAIN reported
        PROVE  LET report == reported[s].msg
               IN  /\ s \in found => /\ Eligible(report, q)
                                     /\ TypesKept(s, q) => HasTypes(report, q)
                                     /\ CameWhole(s) => HasBuddy(report.list, q)
                   /\ Eligible(report, q) /\ HasTypes(report, q) /\ TypesKept(s, q)
                        /\ HasBuddy(SubSeq(report.list, 1, reported[s].players), q) => s \in found
    <3> DEFINE report == reported[s].msg
               info == servers[s]
               list == report.list
               players == reported[s].players
    <3>1. /\ s \in DOMAIN servers /\ report \in Message /\ report.type = GameMasterInfoResponse
          /\ players \in 0 .. Len(list)
          /\ HoldsOf(info, report, ReportFormat)
          /\ info.playerList \in Seq(Guid) /\ Len(info.playerList) = Len(list)
          /\ \A i \in 1 .. players : info.playerList[i] = list[i]
      BY DEF StoredInv, Stored
    <3>2. list \in Seq(Guid)
      BY <3>1, MessageAssumption
    <3>3. CameWhole(s) <=> players = Len(list)
      BY DEF CameWhole
    <3> DEFINE Typed == /\ IsType(gameTypes, q.gameType, pointers[s].game)
                        /\ IsType(missionTypes, q.missionType, pointers[s].mission)
    <3>4. s \in found <=> Typed /\ Passes(info, filter)
      BY <2>2, <3>1 DEF QueryServers, SaysFilter, Says
    <3>9. TypesKept(s, q) => (Typed <=> HasTypes(report, q))
      BY IsTypeKept DEF TypesKept, HasTypes
    <3> HIDE DEF report, info, players, found, Typed
    <3>5. s \in found <=> /\ Typed
                          /\ Eligible(report, q)
                          /\ q.list # <<>> => ToSet(q.list) \cap ToSet(info.playerList) # {}
      BY <2>2, <2>4, <3>1, <3>4, PassesIs
    <3> HIDE DEF list
    <3>6. CameWhole(s) => info.playerList = list
      BY <3>1, <3>2, <3>3, SeqEqual
    <3>7. s \in found /\ CameWhole(s) => HasBuddy(list, q)
      BY <3>5, <3>6 DEF HasBuddy
    <3>8. ASSUME Eligible(report, q), HasTypes(report, q), TypesKept(s, q), HasBuddy(SubSeq(list, 1, players), q)
          PROVE  s \in found
      <4> DEFINE part == SubSeq(list, 1, players)
      <4>1. Len(list) \in Nat /\ players \in Nat /\ players <= Len(list)
        BY <3>1, <3>2
      <4>2. part \in Seq(Guid) /\ Len(part) = players /\ \A i \in 1 .. players : part[i] = list[i]
        <5>1. \A i \in 1 .. players : list[i] \in Guid
          BY <3>2, <4>1
        <5>2. /\ SubSeq(list, 1, players) \in Seq(Guid)
              /\ Len(SubSeq(list, 1, players)) = IF 1 <= players THEN players - 1 + 1 ELSE 0
              /\ \A i \in 1 .. players - 1 + 1 : SubSeq(list, 1, players)[i] = list[1 + i - 1]
          BY <4>1, <5>1, SubSeqProperties
        <5>3. players - 1 + 1 = players /\ \A i \in 1 .. players : 1 + i - 1 = i
          BY <4>1
        <5>4. (IF 1 <= players THEN players - 1 + 1 ELSE 0) = players
          BY <4>1
        <5> QED BY <5>2, <5>3, <5>4
      <4> HIDE DEF part
      <4>3. ToSet(part) \subseteq ToSet(info.playerList)
        <5> SUFFICES ASSUME NEW x \in ToSet(part) PROVE x \in ToSet(info.playerList)
          OBVIOUS
        <5>1. PICK i \in 1 .. players : x = part[i]
          BY <4>2 DEF ToSet
        <5>2. x = info.playerList[i]
          BY <3>1, <4>2, <5>1
        <5>3. i \in DOMAIN info.playerList
          BY <3>1, <4>1
        <5> QED BY <5>2, <5>3 DEF ToSet
      <4>4. q.list # <<>> => ToSet(q.list) \cap ToSet(part) # {}
        BY <3>8 DEF HasBuddy, part
      <4> QED BY <3>5, <3>8, <3>9, <4>3, <4>4
    <3> QED BY <3>5, <3>7, <3>8, <3>9 DEF report, list, players
  <2>6. Exact(q, found)
    BY <2>3, <2>5 DEF Exact
  <2> HIDE DEF found
  <2>7. Answer(q, Len(Encode(q))) = [outcome |-> "answered", found |-> found]
    BY <2>2 DEF found
  <2> QED BY <2>6, <2>7
<1> QED BY <1>1, StoredInvHolds, PTL

=============================================================================
