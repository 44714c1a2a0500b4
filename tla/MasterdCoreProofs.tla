-------------------------- MODULE MasterdCoreProofs --------------------------
(***************************************************************************)
(* TypeOK, PidFileCurrent and CreatedIsRead for any number of instances,   *)
(* any limits and any preferences files.                                   *)
(***************************************************************************)
EXTENDS MasterdCore, SequenceTheorems, TLAPS

\* For recursion and induction on numbers, which are no matter of End.
Steps == INSTANCE MapSweepProofs WITH End <- 0

Phase == HasCore \cup {"install", "new", "setNull", "done"}

-----------------------------------------------------------------------------
(***************************************************************************)
(* Types and ranges                                                        *)
(***************************************************************************)
InRange(prefs) == /\ prefs \in Prefs
                  /\ prefs["port"] <= MaxPort
                  /\ prefs["heartbeat"] <= MaxHeartbeat

LEMMA ClampInRange ==
  ASSUME NEW prefs \in Prefs
  PROVE  InRange(Clamp(prefs))
  BY DefaultAssumption DEF Clamp, InRange, Prefs, Setting

LEMMA NumberIsNat ==
  ASSUME NEW text
  PROVE  strtoul(text) \in Nat
  <1> DEFINE longest == {n \in DOMAIN Decimal :
                           /\ Begins(TrimFront(text), n)
                           /\ \A m \in DOMAIN Decimal :
                                Begins(TrimFront(text), m) => Len(Decimal[m]) <= Len(Decimal[n])}
  <1>1. longest \subseteq Nat
    BY DecimalAssumption
  <1>2. strtoul(text) = IF longest = {} THEN 0 ELSE CHOOSE n \in longest : TRUE
    BY DEF strtoul
  <1> HIDE DEF longest
  <1>3. CASE longest = {}
    BY <1>2, <1>3
  <1>4. CASE longest # {}
    <2>1. (CHOOSE n \in longest : TRUE) \in longest
      BY <1>4
    <2> QED  BY <1>1, <1>2, <1>4, <2>1
  <1> QED  BY <1>3, <1>4

\* Whatever lines a file has, reading them gives a number for every setting.
LEMMA ReadIsPrefs ==
  ASSUME NEW prefs \in Prefs, NEW lines
  PROVE  Read(prefs, lines) \in Prefs
  BY NumberIsNat DEF Read, Prefs

LEMMA GotoTyped ==
  ASSUME TypeOK, NEW i \in Instance, NEW from, NEW to \in Phase, Goto(i, from, to)
  PROVE  pc' \in [Instance -> Phase]
  BY DEF TypeOK, Goto, Phase

LEMMA RunTyped ==
  ASSUME TypeOK, NEW i \in Instance, Run(i)
  PROVE  TypeOK'
  <1>1. ASSUME UNCHANGED <<m_RunThread, m_Prefs, socket, files, world>>,
               pc' \in [Instance -> Phase]
        PROVE  TypeOK'
    BY <1>1 DEF TypeOK, socket, files, world, Phase
  <1>2. CASE \/ InstallHandlers(i) \/ Sweep(i) \/ Handle(i)
             \/ DeleteCore(i) \/ SetNull(i)
    <2>1. pc' \in [Instance -> Phase]
      BY <1>2, GotoTyped
      DEF InstallHandlers, Sweep, Handle, DeleteCore, SetNull, Phase, HasCore
    <2> QED  BY <1>1, <1>2, <2>1
             DEF InstallHandlers, Sweep, Handle, DeleteCore, SetNull
  <1>3. CASE TestFlag(i)
    <2>1. pc' \in [Instance -> Phase]
      BY <1>3, GotoTyped DEF TestFlag, Phase, HasCore
    <2> QED  BY <1>1, <1>3, <2>1 DEF TestFlag
  <1>4. CASE NewCore(i)
    <2>1. pc' \in [Instance -> Phase]
      BY <1>4, GotoTyped DEF NewCore, Phase, HasCore
    <2>2. InRange(Default)
      BY DefaultAssumption DEF InRange, Prefs
    <2> QED  BY <1>4, <2>1, <2>2
             DEF NewCore, InitPrefs, InRange, TypeOK, socket, files, world, Phase
  <1>5. CASE LoadPrefs(i)
    <2>1. pc' \in [Instance -> Phase]
      BY <1>5, GotoTyped DEF LoadPrefs, Phase, HasCore
    <2>2. unclean' \subseteq Instance
      BY <1>5 DEF LoadPrefs, TypeOK, world
    <2>3. DOMAIN m_Prefs' = Instance /\ \A j \in Instance : InRange(m_Prefs'[j])
      <3>1. CASE UNCHANGED m_Prefs
        BY <3>1 DEF TypeOK, InRange
      <3>2. CASE m_Prefs' = [m_Prefs EXCEPT ![i] = Clamp(Read(@, prefsFile.lines))]
        <4>1. InRange(Clamp(Read(m_Prefs[i], prefsFile.lines)))
          BY ReadIsPrefs, ClampInRange DEF TypeOK
        <4>2. \A j \in Instance : InRange(m_Prefs[j])
          BY DEF TypeOK, InRange
        <4> HIDE DEF InRange
        <4>3. DOMAIN m_Prefs = Instance
          BY DEF TypeOK
        <4> QED  BY <3>2, <4>1, <4>2, <4>3
      <3> QED  BY <1>5, <3>1, <3>2 DEF LoadPrefs
    <2>4. m_Prefs' \in [Instance -> Prefs]
      <3>1. m_Prefs' = [j \in Instance |-> m_Prefs'[j]]
        BY <1>5 DEF LoadPrefs, TypeOK
      <3> QED  BY <2>3, <3>1 DEF InRange
    <2> QED  BY <1>5, <2>1, <2>2, <2>3, <2>4
             DEF LoadPrefs, TypeOK, InRange, socket, files, world, Phase
  <1>6. CASE SetPid(i)
    <2>1. pc' \in [Instance -> Phase]
      BY <1>6, GotoTyped DEF SetPid, Phase, HasCore
    <2> QED  BY <1>6, <2>1 DEF SetPid, TypeOK, socket, world, Phase
  <1>7. CASE SetRunThread(i)
    <2>1. pc' \in [Instance -> Phase]
      BY <1>7, GotoTyped DEF SetRunThread, Phase, HasCore
    <2> QED  BY <1>7, <2>1 DEF SetRunThread, TypeOK, socket, files, world, Phase
  <1>8. CASE Bind(i)
    <2>1. pc' \in [Instance -> Phase]
      BY <1>8, GotoTyped DEF Bind, Phase, HasCore
    <2> QED  BY <1>8, <2>1 DEF Bind, TypeOK, socket, files, world, Phase
  <1>9. CASE Poll(i)
    <2>1. pc' \in [Instance -> Phase]
      BY <1>9, GotoTyped DEF Poll, Phase, HasCore
    <2>2. queue' \in [Instance -> 0 .. QueueSize]
      BY <1>9, QueueAssumption DEF Poll, TypeOK, socket
    <2> QED  BY <1>9, <2>1, <2>2 DEF Poll, TypeOK, socket, files, world, Phase
  <1>10. CASE ShutDown(i)
    <2>1. pc' \in [Instance -> Phase]
      BY <1>10, GotoTyped DEF ShutDown, Phase, HasCore
    <2>2. queue' \in [Instance -> 0 .. QueueSize] /\ bound' \subseteq Instance
      BY <1>10, QueueAssumption DEF ShutDown, Release, TypeOK
    <2> QED  BY <1>10, <2>1, <2>2 DEF ShutDown, TypeOK, files, world, Phase
  <1>11. CASE ClearPid(i)
    <2>1. pc' \in [Instance -> Phase]
      BY <1>11, GotoTyped DEF ClearPid, Phase, HasCore
    <2> QED  BY <1>11, <2>1 DEF ClearPid, TypeOK, socket, world, Phase
  <1> QED  BY <1>2, <1>3, <1>4, <1>5, <1>6, <1>7, <1>8, <1>9, <1>10, <1>11
           DEF Run, Start, Work

\* Every instance runs with settings in range, whatever preferences files it,
\* another instance or the administrator wrote.
THEOREM TypesCorrect == Spec => []TypeOK
  <1>1. Init => TypeOK
    <2> SUFFICES ASSUME Init PROVE TypeOK
      OBVIOUS
    <2>1. InRange(Default)
      BY DefaultAssumption DEF InRange, Prefs
    <2>2. /\ pc \in [Instance -> Phase]
          /\ m_Prefs \in [Instance -> Prefs]
          /\ queue \in [Instance -> 0 .. QueueSize]
      BY <2>1, QueueAssumption DEF Init, InRange, Phase
    <2> QED  BY <2>1, <2>2 DEF Init, TypeOK, InRange, Phase
  <1>2. TypeOK /\ [Next]_vars => TypeOK'
    <2> SUFFICES ASSUME TypeOK, [Next]_vars PROVE TypeOK'
      OBVIOUS
    <2>1. ASSUME NEW i \in Instance, Run(i) PROVE TypeOK'
      BY <2>1, RunTyped
    <2>2. ASSUME NEW i \in Instance, Stop(i) PROVE TypeOK'
      <3>1. pc' \in [Instance -> Phase]
        BY <2>2, GotoTyped DEF Stop, TypeOK, Phase, HasCore
      <3> QED  BY <2>2, <3>1 DEF Stop, TypeOK, socket, files, world, Phase
    <2>3. ASSUME NEW i \in Instance, Kill(i) PROVE TypeOK'
      <3>1. pc' \in [Instance -> Phase]
        BY <2>3 DEF Kill, TypeOK, Phase
      <3>2. queue' \in [Instance -> 0 .. QueueSize] /\ bound' \subseteq Instance
        BY <2>3, QueueAssumption DEF Kill, Release, TypeOK
      <3> QED  BY <2>3, <3>1, <3>2 DEF Kill, TypeOK, files, Phase
    <2>4. ASSUME NEW i \in Instance, Arrive(i) PROVE TypeOK'
      <3>1. queue' \in [Instance -> 0 .. QueueSize]
        BY <2>4, QueueAssumption DEF Arrive, TypeOK
      <3> QED  BY <2>4, <3>1 DEF Arrive, TypeOK, files, world
    <2>5. CASE TrafficEnds
      BY <2>5 DEF TrafficEnds, TypeOK, socket, files
    <2>6. CASE EditPrefs
      BY <2>6 DEF EditPrefs, TypeOK, socket, world
    <2>7. CASE UNCHANGED vars
      BY <2>7 DEF vars, TypeOK, socket, files, world
    <2> QED  BY <2>1, <2>2, <2>3, <2>4, <2>5, <2>6, <2>7 DEF Next
  <1> QED  BY <1>1, <1>2, PTL DEF Spec

-----------------------------------------------------------------------------
(***************************************************************************)
(* The pid file                                                            *)
(***************************************************************************)

\* A step of another instance that leaves the pid file alone, and one of the
\* instance named that stays between SetPid and ClearPid.
LEMMA StillCurrent ==
  ASSUME TypeOK, PidFileCurrent, NEW i \in Instance,
         UNCHANGED pidFile, unclean \subseteq unclean',
         \A j \in Instance \ {i} : pc'[j] = pc[j],
         pc[i] \in HoldsPid => pc'[i] \in HoldsPid
  PROVE  PidFileCurrent'
  BY NoneAssumption DEF TypeOK, PidFileCurrent

LEMMA GotoMoves ==
  ASSUME TypeOK, NEW i \in Instance, NEW from, NEW to, Goto(i, from, to)
  PROVE  /\ pc[i] = from /\ pc'[i] = to
         /\ \A j \in Instance \ {i} : pc'[j] = pc[j]
  BY DEF TypeOK, Goto

\* However many instances are started, fail to bind, are stopped or killed, in
\* any order: the process the pid file names is at work, or was killed, or its
\* remove() of the file failed.
THEOREM PidFileLeadsToProcess == Spec => []PidFileCurrent
  <1>1. Init => PidFileCurrent
    BY DEF Init, PidFileCurrent
  <1>2. TypeOK /\ PidFileCurrent /\ [Next]_vars => PidFileCurrent'
    <2> SUFFICES ASSUME TypeOK, PidFileCurrent, [Next]_vars PROVE PidFileCurrent'
      OBVIOUS
    <2>1. ASSUME NEW i \in Instance,
                 \/ InstallHandlers(i) \/ NewCore(i) \/ LoadPrefs(i)
                 \/ DeleteCore(i) \/ SetNull(i)
          PROVE  PidFileCurrent'
      <3>1. UNCHANGED pidFile /\ unclean \subseteq unclean'
        BY <2>1 DEF InstallHandlers, NewCore, LoadPrefs, DeleteCore, SetNull, files, world
      <3>2. /\ pc[i] \notin HoldsPid
            /\ \A j \in Instance \ {i} : pc'[j] = pc[j]
        BY <2>1, GotoMoves
        DEF InstallHandlers, NewCore, LoadPrefs, DeleteCore, SetNull, HoldsPid
      <3> QED  BY <3>1, <3>2, StillCurrent
    <2>2. ASSUME NEW i \in Instance,
                 \/ SetRunThread(i) \/ Bind(i) \/ TestFlag(i) \/ Sweep(i)
                 \/ Poll(i) \/ Handle(i) \/ ShutDown(i)
          PROVE  PidFileCurrent'
      <3>1. UNCHANGED <<pidFile, unclean>>
        BY <2>2 DEF SetRunThread, Bind, TestFlag, Sweep, Poll, Handle, ShutDown, files, world
      <3>2. /\ pc'[i] \in HoldsPid
            /\ \A j \in Instance \ {i} : pc'[j] = pc[j]
        BY <2>2, GotoMoves
        DEF SetRunThread, Bind, TestFlag, Sweep, Poll, Handle, ShutDown, HoldsPid
      <3> QED  BY <3>1, <3>2, StillCurrent
    <2>3. ASSUME NEW i \in Instance, SetPid(i) PROVE PidFileCurrent'
      <3>1. pc'[i] \in HoldsPid /\ \A j \in Instance \ {i} : pc'[j] = pc[j]
        BY <2>3, GotoMoves DEF SetPid, HoldsPid
      <3>2. CASE pidFile' = i
        BY <3>1, <3>2 DEF PidFileCurrent
      <3>3. CASE pidFile' = pidFile
        BY <2>3, <3>1, <3>3, StillCurrent DEF SetPid, world
      <3>4. CASE pidFile' = None
        BY <3>4 DEF PidFileCurrent
      <3> QED  BY <2>3, <3>2, <3>3, <3>4 DEF SetPid
    <2>4. ASSUME NEW i \in Instance, ClearPid(i) PROVE PidFileCurrent'
      <3>1. CASE pidFile' = None
        BY <3>1 DEF PidFileCurrent
      <3>2. CASE unclean' = unclean \cup {i} /\ UNCHANGED pidFile
        <4>1. \A j \in Instance \ {i} : pc'[j] = pc[j]
          BY <2>4, GotoMoves DEF ClearPid
        <4> QED  BY <3>2, <4>1, NoneAssumption DEF TypeOK, PidFileCurrent
      <3> QED  BY <2>4, <3>1, <3>2 DEF ClearPid
    <2>5. ASSUME NEW i \in Instance, Stop(i) PROVE PidFileCurrent'
      <3>1. UNCHANGED <<pidFile, unclean>>
        BY <2>5 DEF Stop, files, world
      <3>2. CASE UNCHANGED pc
        BY <3>1, <3>2, StillCurrent
      <3>3. CASE Goto(i, "install", "done") \/ Goto(i, "setNull", "done")
        <4>1. pc[i] \notin HoldsPid /\ \A j \in Instance \ {i} : pc'[j] = pc[j]
          BY <3>3, GotoMoves DEF HoldsPid
        <4> QED  BY <3>1, <4>1, StillCurrent
      <3> QED  BY <2>5, <3>2, <3>3 DEF Stop
    <2>6. ASSUME NEW i \in Instance, Kill(i) PROVE PidFileCurrent'
      <3>1. pidFile' = pidFile /\ unclean' = unclean \cup {i}
        BY <2>6 DEF Kill, files
      <3>2. \A j \in Instance \ {i} : pc'[j] = pc[j]
        BY <2>6 DEF Kill, TypeOK
      <3> QED  BY <3>1, <3>2, NoneAssumption DEF TypeOK, PidFileCurrent
    <2>7. CASE \/ \E i \in Instance : Arrive(i)
               \/ TrafficEnds \/ EditPrefs \/ UNCHANGED vars
      <3>1. UNCHANGED <<pc, pidFile, unclean>>
        BY <2>7 DEF Arrive, TrafficEnds, EditPrefs, vars, files, world
      <3> QED  BY <3>1 DEF PidFileCurrent
    <2> QED  BY <2>1, <2>2, <2>3, <2>4, <2>5, <2>6, <2>7
         DEF Next, Run, Start, Work
  <1> QED  BY <1>1, <1>2, TypesCorrect, PTL DEF Spec

-----------------------------------------------------------------------------
(***************************************************************************)
(* The preferences file that is created                                    *)
(***************************************************************************)

\* What a written line is made of.
Chars == Setting \cup Digit \cup {"$", " "}

LineOf(s, digits) == <<"$", s, " ">> \o digits

LEMMA FirstIs ==
  ASSUME NEW places \in SUBSET Nat, NEW k \in places, \A j \in places : k <= j
  PROVE  FirstOf(places) = k
  <1>1. \A m \in places : (\A j \in places : m <= j) => m = k
    OBVIOUS
  <1> QED  BY <1>1 DEF FirstOf

\* A text without quotes is left as it is.
LEMMA UnquotedSame ==
  ASSUME NEW text \in Seq(Digit)
  PROVE  strprocfieldvalue(text) = text
  <1> DEFINE n == Len(text)
             Body(g) == [i \in 0 .. n |-> IF i = 0 THEN <<>>
                                          ELSE IF text[i] = "\"" THEN g[i - 1]
                                          ELSE Append(g[i - 1], text[i])]
             first == [i \in 0 .. n |-> SubSeq(text, 1, i)]
             out == CHOOSE g : g = Body(g)
  <1>1. n \in Nat /\ \A i \in 1 .. n : text[i] \in Digit
    OBVIOUS
  <1>2. \A c \in Digit : c # "\""
    BY DEF Digit
  <1> HIDE DEF n
  <1>3. \A i \in 0 .. n : /\ SubSeq(text, 1, i) \in Seq(Digit)
                          /\ Len(SubSeq(text, 1, i)) = i
                          /\ \A k \in 1 .. i : SubSeq(text, 1, i)[k] = text[k]
    <2> SUFFICES ASSUME NEW i \in 0 .. n
                 PROVE  /\ SubSeq(text, 1, i) \in Seq(Digit)
                        /\ Len(SubSeq(text, 1, i)) = i
                        /\ \A k \in 1 .. i : SubSeq(text, 1, i)[k] = text[k]
      OBVIOUS
    <2>1. i \in Nat /\ i - 1 + 1 = i /\ \A k \in 1 .. i : k \in 1 .. n /\ 1 + k - 1 = k
      BY <1>1
    <2>2. /\ SubSeq(text, 1, i) \in Seq(Digit)
          /\ Len(SubSeq(text, 1, i)) = IF 1 <= i THEN i - 1 + 1 ELSE 0
          /\ \A k \in 1 .. i - 1 + 1 : SubSeq(text, 1, i)[k] = text[1 + k - 1]
      BY <1>1, <2>1, SubSeqProperties
    <2>3. (IF 1 <= i THEN i - 1 + 1 ELSE 0) = i
      BY <2>1
    <2> QED  BY <2>1, <2>2, <2>3
  <1>4. SubSeq(text, 1, 0) = <<>>
    BY SubSeqEmpty
  <1>5. ASSUME NEW i \in 1 .. n
        PROVE  SubSeq(text, 1, i) = Append(SubSeq(text, 1, i - 1), text[i])
    <2> DEFINE a == SubSeq(text, 1, i)
               b == SubSeq(text, 1, i - 1)
               c == text[i]
    <2>1. i - 1 \in 0 .. n /\ i \in 0 .. n /\ i \in Nat /\ c \in Digit
      BY <1>1
    <2>2. /\ a \in Seq(Digit) /\ Len(a) = i /\ \A k \in 1 .. i : a[k] = text[k]
          /\ b \in Seq(Digit) /\ Len(b) = i - 1 /\ \A k \in 1 .. i - 1 : b[k] = text[k]
      BY <1>3, <2>1
    <2> HIDE DEF a, b, c
    <2>3. /\ Append(b, c) \in Seq(Digit) /\ Len(Append(b, c)) = i
          /\ \A k \in 1 .. i : Append(b, c)[k] = IF k = i THEN c ELSE b[k]
      BY <2>1, <2>2
    <2>4. \A k \in 1 .. i : a[k] = Append(b, c)[k]
      BY <2>1, <2>2, <2>3 DEF c
    <2>5. a = Append(b, c)
      BY <2>2, <2>3, <2>4, SeqEqual
    <2> QED  BY <2>5 DEF a, b, c
  <1>6. first = Body(first)
    <2>1. ASSUME NEW i \in 0 .. n
          PROVE  first[i] = IF i = 0 THEN <<>> ELSE IF text[i] = "\"" THEN first[i - 1]
                            ELSE Append(first[i - 1], text[i])
      <3>1. CASE i = 0
        BY <1>4, <3>1
      <3>2. CASE i # 0
        <4>1. i \in 1 .. n /\ i - 1 \in 0 .. n
          BY <1>1, <3>2
        <4> QED  BY <1>1, <1>2, <1>5, <3>2, <4>1
      <3> QED  BY <3>1, <3>2
    <2> QED  BY <2>1
  <1>7. out = Body(out)
    BY <1>6
  <1>8. strprocfieldvalue(text) = out[n]
    BY DEF strprocfieldvalue, n
  <1> HIDE DEF out
  <1> DEFINE T == {i \in 0 .. n : out[i] = first[i]}
  <1>9. \A i \in 0 .. n : out[i] = IF i = 0 THEN <<>> ELSE IF text[i] = "\"" THEN out[i - 1]
                                   ELSE Append(out[i - 1], text[i])
    BY <1>7
  <1>10. \A i \in 0 .. n : first[i] = SubSeq(text, 1, i)
    OBVIOUS
  <1> HIDE DEF first
  <1>11. 0 \in T
    <2>1. 0 \in 0 .. n
      BY <1>1
    <2>2. out[0] = <<>>
      BY <1>9, <2>1
    <2>3. first[0] = <<>>
      BY <1>4, <1>10, <2>1
    <2> QED  BY <2>1, <2>2, <2>3
  <1>12. ASSUME NEW i \in 1 .. n, i - 1 \in T PROVE i \in T
    <2>1. i \in 0 .. n /\ i - 1 \in 0 .. n /\ i # 0
      BY <1>1
    <2>2. text[i] # "\""
      BY <1>1, <1>2
    <2>3. out[i - 1] = first[i - 1]
      BY <1>12
    <2>4. out[i] = Append(out[i - 1], text[i])
      BY <1>9, <2>1, <2>2
    <2>5. out[i] = first[i]
      BY <1>5, <1>10, <2>1, <2>3, <2>4
    <2> QED  BY <2>1, <2>5
  <1> HIDE DEF T
  <1>13. n \in T
    <2>1. 0 .. n \subseteq T
      BY <1>1, <1>11, <1>12, Steps!UpToInSteps
    <2> QED  BY <1>1, <2>1
  <1>14. out[n] = SubSeq(text, 1, n)
    BY <1>1, <1>10, <1>13 DEF T
  <1> QED  BY <1>8, <1>14, SubSeqFull DEF n

\* The digits of a number are read as that number.
LEMMA DecimalRead ==
  ASSUME NEW n \in DOMAIN Decimal
  PROVE  strtoul(Decimal[n]) = n
  <1> DEFINE text == Decimal[n]
             longest == {m \in DOMAIN Decimal :
                           /\ Begins(text, m)
                           /\ \A k \in DOMAIN Decimal :
                                Begins(text, k) => Len(Decimal[k]) <= Len(Decimal[m])}
  <1>1. \A m \in DOMAIN Decimal : Decimal[m] \in Seq(Digit) /\ Len(Decimal[m]) \in Nat
    <2>1. \A m \in DOMAIN Decimal : Decimal[m] \in Seq(Digit)
      BY DecimalAssumption
    <2> QED  BY <2>1, LenProperties
  <1>2. SubSeq(text, 1, Len(text)) = text
    BY <1>1, SubSeqFull
  <1>3. Begins(text, n)
    BY <1>1, <1>2 DEF Begins
  <1>4. \A m \in DOMAIN Decimal : Begins(text, m) => Len(Decimal[m]) <= Len(Decimal[n])
    BY DEF Begins
  <1>5. n \in longest
    BY <1>3, <1>4
  <1>6. ASSUME NEW m \in longest PROVE m = n
    <2>1. Begins(text, m) /\ Len(Decimal[n]) <= Len(Decimal[m])
      BY <1>3
    <2>2. Len(Decimal[m]) = Len(text)
      BY <1>1, <1>4, <2>1
    <2>3. Decimal[m] = text
      BY <1>2, <2>1, <2>2 DEF Begins
    <2> QED  BY <2>3, DecimalAssumption
  <1>7. longest = {n}
    BY <1>5, <1>6
  <1>8. TrimFront(text) = text
    <2>1. DOMAIN text = 1 .. Len(text) /\ Len(text) \in Nat /\ Len(text) >= 1
      <3>1. text \in Seq(Digit) /\ text # <<>>
        BY DecimalAssumption
      <3> HIDE DEF text
      <3> QED  BY <3>1, EmptySeq, LenProperties
    <2>2. \A k \in 1 .. Len(text) : text[k] \notin Blank
      <3>1. \A k \in 1 .. Len(text) : text[k] \in Digit
        BY <1>1, ElementOfSeq
      <3>2. \A c \in Digit : c \notin Blank
        BY DEF Digit, Blank
      <3> QED  BY <3>1, <3>2
    <2> HIDE DEF text
    <2>3. Text(text) = 1 .. Len(text)
      BY <2>1, <2>2 DEF Text
    <2>4. FirstOf(Text(text)) = 1 /\ Text(text) # {}
      <3>1. Text(text) \in SUBSET Nat /\ 1 \in Text(text) /\ \A j \in Text(text) : 1 <= j
        BY <2>1, <2>3
      <3> QED  BY <3>1, FirstIs
    <2> QED  BY <1>2, <2>4 DEF TrimFront
  <1>9. strtoul(text) = IF longest = {} THEN 0 ELSE CHOOSE m \in longest : TRUE
    BY <1>8 DEF strtoul
  <1> HIDE DEF longest
  <1> QED  BY <1>7, <1>9

Joined(a, b, c, d) == <<a, b, c>> \o d

IsJoined(seq, a, b, c, d) ==
    /\ Len(seq) = 3 + Len(d)
    /\ seq[1] = a /\ seq[2] = b /\ seq[3] = c
    /\ \A k \in 4 .. 3 + Len(d) : seq[k] = d[k - 3]
    /\ SubSeq(seq, 2, 2) = <<b>>
    /\ SubSeq(seq, 4, Len(seq)) = d

LEMMA PartsOf ==
  ASSUME NEW S, NEW a \in S, NEW b \in S, NEW c \in S, NEW d \in Seq(S),
         NEW seq, seq = Joined(a, b, c, d)
  PROVE  seq \in Seq(S) /\ IsJoined(seq, a, b, c, d)
  <1> DEFINE head == <<a, b, c>>
             n == Len(d)
  <1>1. /\ head \in Seq(S) /\ Len(head) = 3
        /\ head[1] = a /\ head[2] = b /\ head[3] = c
    OBVIOUS
  <1>2. n \in Nat
    OBVIOUS
  <1> HIDE DEF head
  <1>3. /\ seq \in Seq(S) /\ Len(seq) = 3 + n
        /\ \A i \in 1 .. 3 + n : seq[i] = IF i <= 3 THEN head[i] ELSE d[i - 3]
    <2>1. seq = head \o d
      BY DEF head, Joined
    <2>2. /\ head \o d \in Seq(S) /\ Len(head \o d) = Len(head) + Len(d)
          /\ \A i \in 1 .. Len(head) + Len(d) :
                (head \o d)[i] = IF i <= Len(head) THEN head[i] ELSE d[i - Len(head)]
      BY <1>1, ConcatProperties
    <2>3. /\ seq \in Seq(S) /\ Len(seq) = Len(head) + Len(d)
          /\ \A i \in 1 .. Len(head) + Len(d) :
                seq[i] = IF i <= Len(head) THEN head[i] ELSE d[i - Len(head)]
      BY <2>1, <2>2
    <2> QED  BY <1>1, <2>3
  <1> HIDE DEF n
  <1>4. seq[1] = a /\ seq[2] = b /\ seq[3] = c
    BY <1>1, <1>2, <1>3
  <1>5. \A k \in 4 .. 3 + n : seq[k] = d[k - 3]
    BY <1>2, <1>3
  <1>6. SubSeq(seq, 2, 2) = <<b>>
    <2>1. \A i \in 2 .. 2 : seq[i] \in S
      BY <1>4
    <2>2. /\ SubSeq(seq, 2, 2) \in Seq(S)
          /\ Len(SubSeq(seq, 2, 2)) = IF 2 <= 2 THEN 2 - 2 + 1 ELSE 0
          /\ \A i \in 1 .. 2 - 2 + 1 : SubSeq(seq, 2, 2)[i] = seq[2 + i - 1]
      BY <2>1, SubSeqProperties
    <2>3. /\ SubSeq(seq, 2, 2) \in Seq(S) /\ Len(SubSeq(seq, 2, 2)) = 1
          /\ SubSeq(seq, 2, 2)[1] = b
      BY <1>4, <2>2
    <2> DEFINE x == SubSeq(seq, 2, 2)
               y == <<b>>
    <2>4. /\ x \in Seq(S) /\ Len(x) = 1 /\ x[1] = b
          /\ y \in Seq(S) /\ Len(y) = 1 /\ y[1] = b
      BY <2>3
    <2> HIDE DEF x, y
    <2>5. x = y
      BY <2>4, SeqEqual
    <2> QED  BY <2>5 DEF x, y
  <1>7. SubSeq(seq, 4, Len(seq)) = d
    <2> DEFINE last == 3 + n
    <2>1. last \in Int /\ 4 \in Int /\ \A i \in 4 .. last : seq[i] \in S
      BY <1>2, <1>3, ElementOfSeq
    <2>2. Len(seq) = last
      BY <1>3
    <2> HIDE DEF last
    <2> DEFINE x == SubSeq(seq, 4, last)
    <2>3. /\ x \in Seq(S)
          /\ Len(x) = IF 4 <= last THEN last - 4 + 1 ELSE 0
          /\ \A i \in 1 .. last - 4 + 1 : x[i] = seq[4 + i - 1]
      BY <2>1, SubSeqProperties
    <2> HIDE DEF x
    <2>4. x \in Seq(S) /\ Len(x) = n /\ \A i \in 1 .. n : x[i] = seq[4 + i - 1]
      BY <1>2, <2>3 DEF last
    <2>5. \A i \in 1 .. n : 4 + i - 1 \in 4 .. 3 + n /\ (4 + i - 1) - 3 = i
      BY <1>2
    <2>6. \A i \in 1 .. n : x[i] = d[i]
      BY <1>5, <2>4, <2>5
    <2>7. Len(d) = n
      BY DEF n
    <2>8. x = d
      BY <2>4, <2>6, <2>7, SeqEqual
    <2> QED  BY <2>2, <2>8 DEF x
  <1> QED  BY <1>3, <1>4, <1>5, <1>6, <1>7 DEF n, IsJoined

\* A line with one blank, its third character, is taken apart there.
LEMMA TakenApart ==
  ASSUME NEW S, NEW line \in Seq(S), NEW n \in Nat, n >= 1, Len(line) = 3 + n,
         \A k \in 1 .. 3 + n : line[k] \in Blank <=> k = 3
  PROVE  /\ strtrim(line) = line
         /\ Gap(line) = {3} /\ FirstOf(Gap(line)) = 3
         /\ TrimFront(SubSeq(line, 3, Len(line))) = SubSeq(line, 4, Len(line))
  <1>1. DOMAIN line = 1 .. 3 + n
    BY LenProperties
  <1>2. EndsAt(line) = {}
    <2>1. ASSUME NEW k \in 2 .. Len(line)
          PROVE  ~ \A j \in k .. Len(line) : (Len(line) - j) % 2 = 0 => line[j] \in Blank
      <3> DEFINE last == 3 + n
      <3>1. last \in k .. Len(line) /\ last \in 1 .. 3 + n /\ last # 3
        OBVIOUS
      <3>2. (Len(line) - last) % 2 = 0
        OBVIOUS
      <3> HIDE DEF last
      <3> QED  BY <3>1, <3>2
    <2> QED  BY <2>1 DEF EndsAt
  <1>3. Text(line) = {k \in 1 .. 3 + n : k # 3}
    BY <1>1 DEF Text
  <1>4. FirstOf(Text(line)) = 1 /\ Text(line) # {}
    <2>1. Text(line) \in SUBSET Nat /\ 1 \in Text(line) /\ \A j \in Text(line) : 1 <= j
      BY <1>3
    <2> QED  BY <2>1, FirstIs
  <1>5. strtrim(line) = line
    <2>1. SubSeq(line, 1, Len(line)) = line
      BY SubSeqFull
    <2> QED  BY <1>2, <1>4, <2>1 DEF strtrim, TrimFront, TrimBack
  <1>6. Gap(line) = {3}
    BY <1>1, <1>3 DEF Gap
  <1>7. FirstOf(Gap(line)) = 3
    <2>1. {3} \in SUBSET Nat /\ 3 \in {3} /\ \A j \in {3} : 3 <= j
      OBVIOUS
    <2> QED  BY <1>6, <2>1, FirstIs
  <1>8. TrimFront(SubSeq(line, 3, Len(line))) = SubSeq(line, 4, Len(line))
    <2> DEFINE rest == SubSeq(line, 3, 3 + n)
               m == 1 + n
    <2>1. \A i \in 3 .. 3 + n : line[i] \in S
      BY <1>1, ElementOfSeq
    <2>2. /\ rest \in Seq(S)
          /\ Len(rest) = IF 3 <= 3 + n THEN 3 + n - 3 + 1 ELSE 0
          /\ \A i \in 1 .. 3 + n - 3 + 1 : rest[i] = line[3 + i - 1]
      BY <2>1, SubSeqProperties
    <2> HIDE DEF rest
    <2>3. rest \in Seq(S) /\ Len(rest) = m /\ \A i \in 1 .. m : rest[i] = line[3 + i - 1]
      BY <2>2
    <2>4. DOMAIN rest = 1 .. m
      BY <2>3, LenProperties
    <2>5. \A i \in 1 .. m : 3 + i - 1 \in 1 .. 3 + n /\ (3 + i - 1 = 3 <=> i = 1)
      OBVIOUS
    <2>6. \A i \in 1 .. m : rest[i] \in Blank <=> i = 1
      BY <2>3, <2>5
    <2>7. Text(rest) = {i \in 1 .. m : i # 1}
      BY <2>4, <2>6 DEF Text
    <2>8. FirstOf(Text(rest)) = 2 /\ Text(rest) # {}
      <3>1. Text(rest) \in SUBSET Nat /\ 2 \in Text(rest) /\ \A j \in Text(rest) : 2 <= j
        BY <2>7
      <3> QED  BY <3>1, FirstIs
    <2>9. TrimFront(rest) = SubSeq(rest, 2, m)
      BY <2>3, <2>8 DEF TrimFront
    <2> DEFINE x == SubSeq(rest, 2, m)
               y == SubSeq(line, 4, 3 + n)
    <2>10. /\ x \in Seq(S) /\ Len(x) = n
           /\ \A i \in 1 .. n : x[i] = rest[2 + i - 1]
      <3>1. \A i \in 2 .. m : rest[i] \in S
        BY <2>3, ElementOfSeq
      <3>2. /\ x \in Seq(S)
            /\ Len(x) = IF 2 <= m THEN m - 2 + 1 ELSE 0
            /\ \A i \in 1 .. m - 2 + 1 : x[i] = rest[2 + i - 1]
        BY <3>1, SubSeqProperties
      <3> HIDE DEF x
      <3> QED  BY <3>2
    <2>11. /\ y \in Seq(S) /\ Len(y) = n
           /\ \A i \in 1 .. n : y[i] = line[4 + i - 1]
      <3>1. \A i \in 4 .. 3 + n : line[i] \in S
        BY ElementOfSeq
      <3>2. /\ y \in Seq(S)
            /\ Len(y) = IF 4 <= 3 + n THEN 3 + n - 4 + 1 ELSE 0
            /\ \A i \in 1 .. 3 + n - 4 + 1 : y[i] = line[4 + i - 1]
        BY <3>1, SubSeqProperties
      <3> HIDE DEF y
      <3> QED  BY <3>2
    <2> HIDE DEF x, y
    <2>12. \A i \in 1 .. n : 2 + i - 1 \in 1 .. m /\ 3 + (2 + i - 1) - 1 = 4 + i - 1
      OBVIOUS
    <2>13. \A i \in 1 .. n : x[i] = y[i]
      BY <2>3, <2>10, <2>11, <2>12
    <2>14. x = y
      BY <2>10, <2>11, <2>13, SeqEqual
    <2> QED  BY <2>9, <2>14 DEF rest, x, y
  <1> QED  BY <1>5, <1>6, <1>7, <1>8

\* A line that is written is read: its name, and its value to the last digit.
LEMMA LineRead ==
  ASSUME NEW s \in Setting, NEW digits \in Seq(Digit), digits # <<>>
  PROVE  LET line == LineOf(s, digits)
         IN  IsVariable(line) /\ HasValue(line) /\ Name(line) = <<s>> /\ Value(line) = digits
  <1> DEFINE line == <<"$", s, " ">> \o digits
             n == Len(digits)
  <1>1. "$" \in Chars /\ s \in Chars /\ " " \in Chars /\ Digit \subseteq Chars
    BY DEF Chars
  <1>2. digits \in Seq(Chars)
    BY <1>1, SeqMonotonic
  <1>3. /\ line \in Seq(Chars) /\ Len(line) = 3 + n
        /\ line[1] = "$" /\ line[2] = s /\ line[3] = " "
        /\ \A k \in 4 .. 3 + n : line[k] = digits[k - 3]
        /\ SubSeq(line, 2, 2) = <<s>>
        /\ SubSeq(line, 4, Len(line)) = digits
    <2> DEFINE a == "$"
               c == " "
    <2>1. a \in Chars /\ s \in Chars /\ c \in Chars
      BY <1>1
    <2> HIDE DEF a, c
    <2>2. line = Joined(a, s, c, digits)
      BY DEF a, c, Joined
    <2> HIDE DEF line
    <2>3. line \in Seq(Chars) /\ IsJoined(line, a, s, c, digits)
      BY <1>2, <2>1, <2>2, PartsOf
    <2>4. /\ line \in Seq(Chars) /\ Len(line) = 3 + n
          /\ line[1] = a /\ line[2] = s /\ line[3] = c
          /\ \A k \in 4 .. 3 + n : line[k] = digits[k - 3]
          /\ SubSeq(line, 2, 2) = <<s>>
          /\ SubSeq(line, 4, Len(line)) = digits
      BY <2>3 DEF IsJoined
    <2> QED  BY <2>4 DEF a, c
  <1>4. n \in Nat /\ n >= 1
    <2>1. n \in Nat \ {0}
      BY EmptySeq
    <2> QED  BY <2>1
  <1>5. /\ \A c \in Digit : c \notin Blank
        /\ s \notin Blank /\ "$" \notin Blank /\ " " \in Blank
    BY DEF Digit, Blank, Setting
  <1>6. \A k \in 4 .. 3 + n : k - 3 \in 1 .. n
    BY <1>4
  <1>7. \A j \in 1 .. n : digits[j] \in Digit
    BY ElementOfSeq
  <1> HIDE DEF line, n
  <1>8. line[1] \notin Blank /\ line[2] \notin Blank /\ line[3] \in Blank
    BY <1>3, <1>5
  <1>9. \A k \in 4 .. 3 + n : line[k] \notin Blank
    BY <1>3, <1>5, <1>6, <1>7
  <1>10. \A k \in 1 .. 3 + n : line[k] \in Blank <=> k = 3
    <2>1. \A k \in 1 .. 3 + n : k \in {1, 2, 3} \/ k \in 4 .. 3 + n
      BY <1>4
    <2>2. \A k \in 4 .. 3 + n : k # 3
      BY <1>4
    <2> QED  BY <1>8, <1>9, <2>1, <2>2
  <1>11. line \in Seq(Chars) /\ Len(line) = 3 + n
    BY <1>3
  <1>12. /\ strtrim(line) = line
         /\ Gap(line) = {3} /\ FirstOf(Gap(line)) = 3
         /\ TrimFront(SubSeq(line, 3, Len(line))) = SubSeq(line, 4, Len(line))
    BY <1>4, <1>10, <1>11, TakenApart
  <1>13. IsVariable(line)
    <2>1. line # <<>>
      <3>1. Len(line) # 0
        BY <1>4, <1>11
      <3> QED  BY <3>1, EmptySeq
    <2>2. Head(line) = line[1]
      BY <1>11, <2>1
    <2> QED  BY <1>3, <1>12, <2>1, <2>2 DEF IsVariable
  <1>14. HasValue(line)
    BY <1>12 DEF HasValue
  <1>15. Name(line) = <<s>>
    <2>1. Name(line) = SubSeq(line, 2, 3 - 1)
      BY <1>12, <1>14 DEF Name
    <2>2. 3 - 1 = 2
      OBVIOUS
    <2> QED  BY <1>3, <2>1, <2>2
  <1>16. Value(line) = strprocfieldvalue(digits)
    BY <1>3, <1>12 DEF Value
  <1> QED  BY <1>13, <1>14, <1>15, <1>16, UnquotedSame DEF LineOf, line

\* What begins with neither a blank nor the mark of a variable sets nothing.
LEMMA CommentSkipped ==
  ASSUME NEW S, NEW line \in Seq(S), line # <<>>, line[1] \notin Blank, line[1] # "$",
         EndsAt(line) \subseteq {2}
  PROVE  ~IsVariable(line)
  <1> DEFINE str == TrimBack(line)
             mark == "$"
  <1>1. Len(line) \in Nat /\ Len(line) >= 1 /\ line[1] # mark
    BY EmptySeq
  <1> HIDE DEF mark
  <1>2. str \in Seq(S) /\ str # <<>> /\ str[1] = line[1]
    <2>1. CASE EndsAt(line) = {}
      BY <2>1 DEF TrimBack
    <2>2. CASE EndsAt(line) = {2}
      <3>1. FirstOf({2}) = 2
        <4>1. {2} \in SUBSET Nat /\ 2 \in {2} /\ \A j \in {2} : 2 <= j
          OBVIOUS
        <4> QED  BY <4>1, FirstIs
      <3>2. str = SubSeq(line, 1, 1)
        BY <2>2, <3>1 DEF TrimBack
      <3>3. \A k \in 1 .. 1 : line[k] \in S
        BY <1>1, ElementOfSeq
      <3>4. /\ SubSeq(line, 1, 1) \in Seq(S)
            /\ Len(SubSeq(line, 1, 1)) = IF 1 <= 1 THEN 1 - 1 + 1 ELSE 0
            /\ \A k \in 1 .. 1 - 1 + 1 : SubSeq(line, 1, 1)[k] = line[1 + k - 1]
        BY <3>3, SubSeqProperties
      <3> HIDE DEF str
      <3>5. str \in Seq(S) /\ Len(str) = 1 /\ str[1] = line[1]
        BY <3>2, <3>4
      <3> QED  BY <3>5, EmptySeq
    <2> QED  BY <2>1, <2>2
  <1>3. strtrim(line) = TrimFront(str)
    BY DEF strtrim
  <1> HIDE DEF str
  <1>4. DOMAIN str = 1 .. Len(str) /\ Len(str) \in Nat /\ Len(str) >= 1
    BY <1>2, EmptySeq, LenProperties
  <1>5. FirstOf(Text(str)) = 1 /\ Text(str) # {}
    <2>1. Text(str) \in SUBSET Nat /\ 1 \in Text(str) /\ \A j \in Text(str) : 1 <= j
      BY <1>2, <1>4 DEF Text
    <2> QED  BY <2>1, FirstIs
  <1>6. strtrim(line) = str
    <2>1. SubSeq(str, 1, Len(str)) = str
      BY <1>2, SubSeqFull
    <2> QED  BY <1>3, <1>5, <2>1 DEF TrimFront
  <1>7. Head(str) = line[1]
    BY <1>2
  <1>8. Head(strtrim(line)) # mark
    BY <1>1, <1>6, <1>7
  <1> QED  BY <1>8 DEF IsVariable, mark

LEMMA RemarksSkipped ==
  ~IsVariable(Remark) /\ ~IsVariable(BareRemark) /\ ~IsVariable(<<>>)
  <1> DEFINE a == "#"
             b == " "
             c == "t"
             S == {a, b, c}
  <1>1. a # "$" /\ a \notin Blank /\ c \notin Blank
    BY Zenon DEF Blank
  <1>2. Remark = <<a, b, c>> /\ BareRemark = <<a, b>>
    BY Zenon DEF Remark, BareRemark
  <1> HIDE DEF a, b, c
  <1>3. /\ Remark \in Seq(S) /\ Remark # <<>> /\ Len(Remark) = 3
        /\ Remark[1] = a /\ Remark[3] = c
    BY <1>2
  <1>4. /\ BareRemark \in Seq(S) /\ BareRemark # <<>> /\ Len(BareRemark) = 2
        /\ BareRemark[1] = a
    BY <1>2
  <1>5. EndsAt(Remark) = {}
    <2>1. ASSUME NEW k \in 2 .. 3
          PROVE  ~ \A j \in k .. 3 : (3 - j) % 2 = 0 => Remark[j] \in Blank
      <3>1. 3 \in k .. 3 /\ (3 - 3) % 2 = 0
        OBVIOUS
      <3> QED  BY <1>1, <1>3, <3>1
    <2> QED  BY <1>3, <2>1 DEF EndsAt
  <1>6. EndsAt(BareRemark) \subseteq {2}
    BY <1>4 DEF EndsAt
  <1>7. ~IsVariable(Remark)
    BY <1>1, <1>3, <1>5, CommentSkipped
  <1>8. ~IsVariable(BareRemark)
    BY <1>1, <1>4, <1>6, CommentSkipped
  <1>9. ~IsVariable(<<>>)
    <2>1. Len(<<>>) = 0 /\ DOMAIN <<>> = {}
      OBVIOUS
    <2>2. TrimBack(<<>>) = <<>>
      BY <2>1 DEF EndsAt, TrimBack
    <2>3. TrimFront(<<>>) = <<>>
      BY <2>1 DEF TrimFront, Text
    <2> QED  BY <2>2, <2>3 DEF IsVariable, strtrim
  <1> QED  BY <1>7, <1>8, <1>9

\* Where the settings are in the created file.
PlaceOf(s) == IF s = "port" THEN 4 ELSE 7

\* Of the lines that are created the settings', and no others, are looked at,
\* and each has its name and its value.
LEMMA CreatedLines ==
  LET lines == CreatePrefs(Default)
  IN  /\ DOMAIN lines = 1 .. 11
      /\ \A k \in 1 .. 11 : IsVariable(lines[k]) => k \in {4, 7}
      /\ \A s \in Setting : LET line == lines[PlaceOf(s)]
                            IN  /\ IsVariable(line) /\ HasValue(line)
                                /\ Name(line) = <<s>>
                                /\ strtoul(Value(line)) = Default[s]
  <1> DEFINE lines == CreatePrefs(Default)
             first == Written("port", Default)
             second == Written("heartbeat", Default)
  <1>1. lines = << Remark, <<>>, Remark, first, <<>>, Remark, second, <<>>,
                   Remark, BareRemark, Remark >>
    BY DEF CreatePrefs
  <1> HIDE DEF lines, first, second
  <1>2. DOMAIN lines = 1 .. 11
    BY <1>1
  <1>3. /\ lines[1] = Remark /\ lines[2] = <<>> /\ lines[3] = Remark /\ lines[4] = first
        /\ lines[5] = <<>> /\ lines[6] = Remark /\ lines[7] = second /\ lines[8] = <<>>
        /\ lines[9] = Remark /\ lines[10] = BareRemark /\ lines[11] = Remark
    BY <1>1
  <1>4. ASSUME NEW k \in 1 .. 11, IsVariable(lines[k]) PROVE k \in {4, 7}
    <2>1. k \in {1, 2, 3, 4, 5, 6, 7, 8, 9, 10, 11}
      OBVIOUS
    <2> QED  BY <1>3, <1>4, <2>1, RemarksSkipped
  <1>5. ASSUME NEW s \in Setting
        PROVE  LET line == lines[PlaceOf(s)]
               IN  /\ IsVariable(line) /\ HasValue(line)
                   /\ Name(line) = <<s>>
                   /\ strtoul(Value(line)) = Default[s]
    <2> DEFINE m == Default[s]
               line == lines[PlaceOf(s)]
    <2>1. line = Written(s, Default)
      BY <1>3 DEF PlaceOf, Setting, first, second
    <2>2. Written(s, Default) = LineOf(s, Decimal[m])
      BY Zenon DEF Written, LineOf
    <2>3. m \in DOMAIN Decimal
      BY DefaultAssumption
    <2> HIDE DEF m, line
    <2>4. Decimal[m] \in Seq(Digit) /\ Decimal[m] # <<>>
      BY <2>3, DecimalAssumption
    <2>5. IsVariable(line) /\ HasValue(line) /\ Name(line) = <<s>> /\ Value(line) = Decimal[m]
      BY <2>1, <2>2, <2>4, LineRead
    <2>6. strtoul(Decimal[m]) = m
      BY <2>3, DecimalRead
    <2> QED  BY <2>5, <2>6 DEF m, line
  <1> QED  BY <1>2, <1>4, <1>5 DEF lines

\* The created file sets each setting to its default, and ends no process but
\* by the line before which a blank may lie.
LEMMA CreatedRead ==
  ASSUME NEW prefs
  PROVE  LET lines == CreatePrefs(Default)
         IN  Read(prefs, lines) = Default /\ ~EndsProcess(lines) /\ ~MayEndProcess(lines)
  <1> DEFINE lines == CreatePrefs(Default)
  <1>1. /\ DOMAIN lines = 1 .. 11
        /\ \A k \in 1 .. 11 : IsVariable(lines[k]) => k \in {4, 7}
        /\ \A s \in Setting : /\ IsVariable(lines[PlaceOf(s)]) /\ HasValue(lines[PlaceOf(s)])
                              /\ Name(lines[PlaceOf(s)]) = <<s>>
                              /\ strtoul(Value(lines[PlaceOf(s)])) = Default[s]
    BY CreatedLines
  <1> HIDE DEF lines
  <1>2. /\ \A s \in Setting : PlaceOf(s) \in 1 .. 11
        /\ \A k \in {4, 7} : \E s \in Setting : k = PlaceOf(s)
        /\ \A r, s \in Setting : PlaceOf(r) = PlaceOf(s) => r = s
    BY DEF Setting, PlaceOf
  <1>3. ASSUME NEW k \in 1 .. 11, IsVariable(lines[k])
        PROVE  \E s \in Setting : k = PlaceOf(s)
    BY <1>1, <1>2, <1>3
  <1>4. \A k \in 1 .. 11, s \in Setting : Sets(lines[k], s) <=> k = PlaceOf(s)
    <2> SUFFICES ASSUME NEW k \in 1 .. 11, NEW s \in Setting
                 PROVE  Sets(lines[k], s) <=> k = PlaceOf(s)
      OBVIOUS
    <2>1. ASSUME Sets(lines[k], s) PROVE k = PlaceOf(s)
      <3>1. PICK r \in Setting : k = PlaceOf(r)
        BY <1>3, <2>1 DEF Sets
      <3>2. <<r>> = <<s>>
        BY <1>1, <2>1, <3>1 DEF Sets
      <3> QED  BY <3>1, <3>2
    <2>2. ASSUME k = PlaceOf(s) PROVE Sets(lines[k], s)
      BY <1>1, <2>2 DEF Sets
    <2> QED  BY <2>1, <2>2
  <1>5. ~EndsProcess(lines)
    BY <1>1, <1>4 DEF EndsProcess
  <1>6. ~MayEndProcess(lines)
    <2>1. ASSUME NEW k \in 1 .. 11, IsVariable(lines[k])
          PROVE  \E s \in Setting : Name(lines[k]) = <<s>>
      BY <1>1, <1>3, <2>1
    <2> QED  BY <1>1, <1>5, <2>1 DEF MayEndProcess
  <1>7. ASSUME NEW s \in Setting PROVE Read(prefs, lines)[s] = Default[s]
    <2> DEFINE at == {k \in DOMAIN lines : Sets(lines[k], s)}
    <2>1. at = {PlaceOf(s)}
      BY <1>1, <1>2, <1>4
    <2>2. Read(prefs, lines)[s]
            = IF at = {} THEN prefs[s]
              ELSE strtoul(Value(lines[CHOOSE j \in at : \A m \in at : m <= j]))
      BY DEF Read
    <2> HIDE DEF at
    <2>3. PlaceOf(s) \in Nat
      BY DEF PlaceOf
    <2>4. (CHOOSE j \in at : \A m \in at : m <= j) = PlaceOf(s)
      BY <2>1, <2>3
    <2>5. Read(prefs, lines)[s] = strtoul(Value(lines[PlaceOf(s)]))
      BY <2>1, <2>2, <2>4
    <2> QED  BY <1>1, <2>5
  <1>8. Read(prefs, lines) = Default
    <2>1. Read(prefs, lines) = [s \in Setting |-> Read(prefs, lines)[s]]
      BY DEF Read
    <2>2. Default = [s \in Setting |-> Default[s]]
      BY DefaultAssumption
    <2> QED  BY <1>7, <2>1, <2>2
  <1> QED  BY <1>5, <1>6, <1>8 DEF lines

\* A file with the defaults, written by any instance at any time, is read by
\* whichever instance comes next as the settings it was written from, and does
\* not end that instance, unless a blank lies before its buffer.
THEOREM CreatedFileRead == Spec => CreatedIsRead
  <1> DEFINE Loaded == \A i \in Instance :
                 LoadPrefs(i) /\ prefsFile = WithLines(CreatePrefs(Default))
                   => \/ pc'[i] = "SetPid" /\ m_Prefs'[i] = Default
                      \/ pc'[i] = "done" /\ i \in StrayBlank
  <1>1. Clamp(Default) = Default
    BY DefaultAssumption DEF Clamp, Setting
  <1>2. TypeOK => Loaded
    <2> SUFFICES ASSUME TypeOK, NEW i \in Instance, LoadPrefs(i),
                        prefsFile = WithLines(CreatePrefs(Default))
                 PROVE  \/ pc'[i] = "SetPid" /\ m_Prefs'[i] = Default
                        \/ pc'[i] = "done" /\ i \in StrayBlank
      OBVIOUS
    <2> DEFINE lines == CreatePrefs(Default)
    <2>1. ~EndsProcess(lines) /\ ~MayEndProcess(lines) /\ \A prefs : Read(prefs, lines) = Default
      BY CreatedRead
    <2> HIDE DEF lines
    <2>2. prefsFile.status = "good" /\ prefsFile.lines = lines
      BY DEF WithLines, lines
    <2>3. prefsFile # Missing /\ prefsFile # Unreadable
      BY <2>2 DEF Missing, Unreadable
    <2>4. CASE Goto(i, "LoadPrefs", "done") /\ i \in StrayBlank
      BY <2>4, GotoMoves
    <2>5. CASE /\ Goto(i, "LoadPrefs", "SetPid")
               /\ m_Prefs' = [m_Prefs EXCEPT ![i] = Clamp(Read(@, lines))]
      <3>1. pc'[i] = "SetPid"
        BY <2>5, GotoMoves
      <3>2. m_Prefs'[i] = Clamp(Read(m_Prefs[i], lines))
        BY <2>5 DEF TypeOK
      <3> QED  BY <1>1, <2>1, <3>1, <3>2
    <2> QED  BY <2>1, <2>2, <2>3, <2>4, <2>5 DEF LoadPrefs
  <1> QED  BY <1>2, TypesCorrect, PTL DEF CreatedIsRead


=============================================================================
