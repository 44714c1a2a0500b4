-------------------------- MODULE ListPagingProofs --------------------------
(***************************************************************************)
(* PagesDisjoint, ShortListWhole and ReadsInRange for every size of        *)
(* packets, bytes and words, as long as the number of packets fits a byte. *)
(***************************************************************************)
EXTENDS ListPaging, SequenceTheorems, TLAPS

\* packTotal does not wrap: a list of less than 61710 servers in the code.
CountedInByte == \A list \in Listing : (Len(list) \div PerPacket) + 1 < ByteSize
                                       /\ Len(list) < WordSize

-----------------------------------------------------------------------------
(***************************************************************************)
(* Arithmetic                                                              *)
(***************************************************************************)
LEMMA PerPacketPositive == PerPacket \in Nat \ {0}
  <1>1. (LIST_PACKET_SIZE - 12) \div 6 \in Nat \ {0}
    BY SizeAssumption
  <1> QED  BY <1>1, SizeAssumption DEF PerPacket

LEMMA TimesMonotone ==
  ASSUME NEW n \in Nat, NEW i \in Nat, NEW j \in Nat, i < j
  PROVE  n * i + n <= n * j
  <1>1. PICK d \in Nat : j = i + 1 + d
    BY j - i - 1 \in Nat, j = i + 1 + (j - i - 1)
  <1>2. n * j = n * i + n + n * d
    BY <1>1
  <1>3. n * d \in Nat /\ n * i \in Nat
    OBVIOUS
  <1> QED  BY <1>2, <1>3

\* A product of two numbers below a byte fits a word.
LEMMA ProductFits ==
  ASSUME NEW n \in Nat, NEW i \in Nat, n < ByteSize, i < ByteSize
  PROVE  n * i \in 0 .. WordSize - 1
  <1>1. n * i <= n * ByteSize
    BY TimesMonotone, SizeAssumption, n * i \in Nat, n * i + n \in Nat
  <1>2. ByteSize * n + ByteSize <= ByteSize * ByteSize
    BY TimesMonotone, SizeAssumption
  <1>3. n * ByteSize = ByteSize * n /\ n * i \in Nat /\ n * ByteSize \in Nat /\ ByteSize * ByteSize \in Nat
    BY SizeAssumption
  <1> QED  BY <1>1, <1>2, <1>3, SizeAssumption

LEMMA WordSizePositive == WordSize \in Nat \ {0}
  <1>1. 0 * 0 \in 0 .. WordSize - 1
    BY ProductFits, SizeAssumption
  <1> QED  BY <1>1, SizeAssumption

LEMMA SmallModulo ==
  ASSUME NEW m \in Nat \ {0}, NEW n \in 0 .. m - 1
  PROVE  n % m = n
  OBVIOUS

-----------------------------------------------------------------------------
(***************************************************************************)
(* The layout of one answer                                                *)
(***************************************************************************)
LEMMA LayoutFits ==
  ASSUME CountedInByte, NEW list \in Listing
  PROVE  /\ Layout(list).results = list
         /\ Layout(list).packTotal = (Len(list) \div PerPacket) + 1
         /\ Layout(list).packNum = Len(list) \div PerPacket
         /\ Layout(list).packNum \in Nat /\ Layout(list).packNum < ByteSize
         /\ Layout(list).packTotal \in Nat /\ Layout(list).packTotal < ByteSize
         /\ Layout(list).packLast \in Nat
  <1>1. Len(list) \in Nat /\ Len(list) % WordSize = Len(list)
    <2>1. Len(list) \in Nat
      BY ListingAssumption
    <2>2. Len(list) \in 0 .. WordSize - 1
      BY <2>1, WordSizePositive DEF CountedInByte
    <2> QED  BY <2>1, <2>2, WordSizePositive, SmallModulo
  <1>2. Len(list) \div PerPacket \in Nat /\ Len(list) % PerPacket \in Nat
    BY <1>1, PerPacketPositive
  <1>3. (Len(list) \div PerPacket) + 1 < ByteSize
    BY DEF CountedInByte
  <1>4. ((Len(list) \div PerPacket) + 1) % ByteSize = (Len(list) \div PerPacket) + 1
    BY <1>2, <1>3, SizeAssumption
  <1>5. Layout(list) = [results   |-> list,
                        packTotal |-> (Len(list) \div PerPacket) + 1,
                        packNum   |-> Len(list) \div PerPacket,
                        packLast  |-> Len(list) % PerPacket]
    BY <1>1, <1>4 DEF Layout
  <1>6. (Len(list) \div PerPacket) + 1 \in Nat /\ Len(list) \div PerPacket < ByteSize
    BY <1>2, <1>3, SizeAssumption
  <1> QED  BY <1>2, <1>3, <1>5, <1>6

LEMMA StartFits ==
  ASSUME CountedInByte, NEW list \in Listing,
         NEW i \in Nat, i < Layout(list).packTotal
  PROVE  Start(Layout(list), i) = Layout(list).packNum * i
  <1>1. Layout(list).packNum * i \in 0 .. WordSize - 1
    <2>1. /\ Layout(list).packNum \in Nat /\ Layout(list).packNum < ByteSize
          /\ i < ByteSize
      BY LayoutFits, SizeAssumption
    <2> QED  BY <2>1, ProductFits
  <1> QED  BY <1>1, WordSizePositive, SmallModulo DEF Start

\* A packet's slice ends before that of any later packet begins.
LEMMA SlicesInOrder ==
  ASSUME CountedInByte, NEW list \in Listing,
         NEW i \in Nat, NEW j \in Nat, i < j, j < Layout(list).packTotal
  PROVE  /\ Start(Layout(list), i) + Count(Layout(list), i) <= Start(Layout(list), j)
         /\ Start(Layout(list), i) \in Nat /\ Start(Layout(list), j) \in Nat
  <1> DEFINE lay == Layout(list)
  <1>1. lay.packNum \in Nat /\ lay.packTotal \in Nat
    BY LayoutFits
  <1>2. Count(lay, i) = lay.packNum
    BY <1>1 DEF Count
  <1>3. Start(lay, i) = lay.packNum * i /\ Start(lay, j) = lay.packNum * j
    BY <1>1, StartFits
  <1>4. lay.packNum * i + lay.packNum <= lay.packNum * j
    BY <1>1, TimesMonotone
  <1>5. lay.packNum * i \in Nat /\ lay.packNum * j \in Nat
    BY <1>1
  <1> QED  BY <1>2, <1>3, <1>4, <1>5

-----------------------------------------------------------------------------
(***************************************************************************)
(* The invariant: what is sent is a page of an answer                      *)
(***************************************************************************)
IsPage(p) == /\ p.of \in Listing
             /\ p.index \in Nat /\ p.index < Layout(p.of).packTotal
             /\ Len(p.servers) = Count(Layout(p.of), p.index)
             /\ p \in ListResponse(Layout(p.of), p.index)

\* Every session has its first packet sent.
PageInv == /\ sessions \in Seq({Layout(list) : list \in Listing})
           /\ \A p \in sent : IsPage(p)
           /\ \A n \in 1 .. Len(sessions) : ListResponse(sessions[n], 0) \subseteq sent

LEMMA ResponseIsPage ==
  ASSUME CountedInByte, NEW list \in Listing, NEW i \in Nat,
         NEW p \in ListResponse(Layout(list), i)
  PROVE  IsPage(p)
  <1>1. ~(i >= Layout(list).packTotal)
    BY DEF ListResponse
  <1>5. i < Layout(list).packTotal /\ Layout(list).results = list
    BY <1>1, LayoutFits
  <1>2. Count(Layout(list), i) \in Nat
    BY LayoutFits DEF Count
  <1>3. /\ p.of = list /\ p.index = i
        /\ DOMAIN p.servers = 1 .. Count(Layout(list), i)
        /\ p.servers = [n \in 1 .. Count(Layout(list), i) |-> p.servers[n]]
    <2> DEFINE taken == [n \in 1 .. Count(Layout(list), i) |->
                            IF Start(Layout(list), i) + n <= Len(Layout(list).results)
                            THEN Layout(list).results[Start(Layout(list), i) + n]
                            ELSE Garbage]
    <2>1. p = [of |-> Layout(list).results, index |-> i,
               packTotal |-> Layout(list).packTotal, servers |-> taken]
      BY <1>1 DEF ListResponse
    <2>2. /\ DOMAIN taken = 1 .. Count(Layout(list), i)
          /\ taken = [n \in 1 .. Count(Layout(list), i) |-> taken[n]]
      OBVIOUS
    <2> HIDE DEF taken
    <2> QED  BY <1>5, <2>1, <2>2
  <1>4. Len(p.servers) = Count(Layout(list), i)
    BY <1>2, <1>3
  <1> QED  BY <1>5, <1>3, <1>4 DEF IsPage

LEMMA PageInvHolds == CountedInByte => (Spec => []PageInv)
  <1> SUFFICES ASSUME CountedInByte PROVE Spec => []PageInv
    OBVIOUS
  <1> DEFINE Layouts == {Layout(list) : list \in Listing}
  <1>1. Init => PageInv
    BY DEF Init, PageInv
  <1>2. PageInv /\ [Next]_vars => PageInv'
    <2> SUFFICES ASSUME PageInv, [Next]_vars PROVE PageInv'
      OBVIOUS
    <2>1. ASSUME NEW list \in Listing, Query(list) PROVE PageInv'
      <3>1. /\ sessions' \in Seq(Layouts)
            /\ \A n \in 1 .. Len(sessions') :
                   \/ sessions'[n] = Layout(list)
                   \/ n \in 1 .. Len(sessions) /\ sessions'[n] = sessions[n]
        BY <2>1, AppendProperties DEF PageInv, Query
      <3>2. ASSUME NEW p \in sent' PROVE IsPage(p)
        <4>1. CASE p \in sent
          BY <4>1 DEF PageInv
        <4>2. CASE p \notin sent
          <5>1. PICK i \in 0 .. Layout(list).packTotal - 1 : p \in ListResponse(Layout(list), i)
            BY <2>1, <3>2, <4>2 DEF Query
          <5> QED  BY <5>1, ResponseIsPage
        <4> QED  BY <4>1, <4>2
      <3>3. /\ sent \subseteq sent'
            /\ ListResponse(Layout(list), 0) \subseteq sent'
        <4>1. 0 \in 0 .. Layout(list).packTotal - 1
          BY LayoutFits
        <4> QED  BY <2>1, <4>1 DEF Query
      <3>4. \A n \in 1 .. Len(sessions') : ListResponse(sessions'[n], 0) \subseteq sent'
        BY <3>1, <3>3 DEF PageInv
      <3> QED  BY <3>1, <3>2, <3>4 DEF PageInv
    <2>2. ASSUME NEW i \in 0 .. ByteSize - 2, Resend(i) PROVE PageInv'
      <3>1. PICK list \in Listing : Head(sessions) = Layout(list)
        BY <2>2 DEF PageInv, Resend
      <3>2. ASSUME NEW p \in sent' PROVE IsPage(p)
        BY <2>2, <3>1, <3>2, ResponseIsPage DEF PageInv, Resend
      <3>3. sent \subseteq sent' /\ sessions' = sessions
        BY <2>2 DEF Resend
      <3> QED  BY <3>2, <3>3 DEF PageInv
    <2>3. ASSUME NEW n \in 1 .. Len(sessions), Expire(n) PROVE PageInv'
      <3> DEFINE front == SubSeq(sessions, 1, n - 1)
                 back  == SubSeq(sessions, n + 1, Len(sessions))
      <3>1. Len(sessions) \in Nat /\ sessions \in Seq(Layouts)
        BY DEF PageInv
      <3>2. /\ front \in Seq(Layouts)
            /\ \A i \in 1 .. Len(front) : \E k \in 1 .. Len(sessions) : front[i] = sessions[k]
        BY <3>1, SubSeqProperties
      <3>3. /\ back \in Seq(Layouts)
            /\ \A i \in 1 .. Len(back) : \E k \in 1 .. Len(sessions) : back[i] = sessions[k]
        BY <3>1, SubSeqProperties
      <3>4. sessions' = front \o back /\ sent' = sent
        BY <2>3 DEF Expire
      <3> HIDE DEF front, back
      <3>5. sessions' \in Seq(Layouts)
        BY <3>2, <3>3, <3>4, ConcatProperties
      <3>6. \A i \in 1 .. Len(sessions') : \E k \in 1 .. Len(sessions) : sessions'[i] = sessions[k]
        <4>1. Len(front) \in Nat /\ Len(back) \in Nat
          BY <3>2, <3>3
        <4> SUFFICES ASSUME NEW i \in 1 .. Len(sessions')
                     PROVE  \E k \in 1 .. Len(sessions) : sessions'[i] = sessions[k]
          OBVIOUS
        <4>2. /\ i \in 1 .. Len(front) + Len(back)
              /\ sessions'[i] = IF i <= Len(front) THEN front[i] ELSE back[i - Len(front)]
          BY <3>2, <3>3, <3>4, ConcatProperties
        <4>3. CASE i <= Len(front)
          BY <3>2, <4>1, <4>2, <4>3
        <4>4. CASE ~(i <= Len(front))
          <5>1. i - Len(front) \in 1 .. Len(back) /\ sessions'[i] = back[i - Len(front)]
            BY <4>1, <4>2, <4>4
          <5> QED  BY <3>3, <5>1
        <4> QED  BY <4>3, <4>4
      <3> QED  BY <3>4, <3>5, <3>6 DEF PageInv
    <2>4. CASE UNCHANGED vars
      BY <2>4 DEF vars, PageInv
    <2> QED  BY <2>1, <2>2, <2>3, <2>4 DEF Next
  <1> QED  BY <1>1, <1>2, PTL DEF Spec

\* The packets of an answer never take the same server twice, so that a client
\* which adds up any of them, received in any order and any number of times,
\* counts no server twice: for all sizes, as long as packTotal does not wrap.
THEOREM ServersSentOnce == CountedInByte => (Spec => []PagesDisjoint)
  <1> SUFFICES ASSUME CountedInByte PROVE Spec => []PagesDisjoint
    OBVIOUS
  <1>1. PageInv => PagesDisjoint
    <2> SUFFICES ASSUME PageInv, NEW p \in sent, NEW q \in sent,
                        p.of = q.of, p.index < q.index
                 PROVE  Slice(p) \cap Slice(q) = {}
      BY DEF PagesDisjoint, PageInv, IsPage
    <2>1. IsPage(p) /\ IsPage(q)
      BY DEF PageInv
    <2> DEFINE lay == Layout(p.of)
    <2>2. /\ Start(lay, p.index) + Count(lay, p.index) <= Start(lay, q.index)
          /\ Start(lay, p.index) \in Nat /\ Start(lay, q.index) \in Nat
      BY <2>1, SlicesInOrder DEF IsPage
    <2>3. Count(lay, p.index) \in Nat /\ Count(lay, q.index) \in Nat
      BY <2>1, LayoutFits DEF IsPage, Count
    <2>4. /\ Slice(p) = Start(lay, p.index) + 1 .. Start(lay, p.index) + Count(lay, p.index)
          /\ Slice(q) = Start(lay, q.index) + 1 .. Start(lay, q.index) + Count(lay, q.index)
      BY <2>1 DEF IsPage, Slice
    <2> HIDE DEF lay
    <2> QED  BY <2>2, <2>3, <2>4
  <1> QED  BY <1>1, PageInvHolds, PTL

\* The one packet of a list shorter than a packet.
LEMMA ShortPage ==
  ASSUME CountedInByte, NEW list \in Listing, Len(list) < PerPacket
  PROVE  /\ Layout(list).packTotal = 1
         /\ ListResponse(Layout(list), 0) =
                {[of |-> list, index |-> 0, packTotal |-> 1, servers |-> list]}
  <1> DEFINE lay == Layout(list)
  <1>1. Len(list) \in Nat /\ list = [n \in 1 .. Len(list) |-> list[n]]
    BY ListingAssumption
  <1>2. Len(list) \div PerPacket = 0 /\ Len(list) % PerPacket = Len(list)
    BY <1>1, PerPacketPositive
  <1>3. Len(list) % WordSize = Len(list)
    <2>1. Len(list) \in 0 .. WordSize - 1
      BY <1>1, WordSizePositive DEF CountedInByte
    <2> QED  BY <2>1, WordSizePositive, SmallModulo
  <1>4. lay.packTotal = 1 /\ lay.results = list /\ lay.packNum = 0
    BY <1>2, LayoutFits
  <1>5. lay.packLast = Len(list)
    BY <1>2, <1>3 DEF Layout
  <1>6. Count(lay, 0) = Len(list)
    BY <1>4, <1>5 DEF Count
  <1>7. Start(lay, 0) = 0
    BY <1>4, StartFits
  <1> DEFINE taken == [n \in 1 .. Count(lay, 0) |->
                          IF Start(lay, 0) + n <= Len(lay.results)
                          THEN lay.results[Start(lay, 0) + n]
                          ELSE Garbage]
  <1>8. ListResponse(lay, 0) = {[of |-> lay.results, index |-> 0,
                                 packTotal |-> lay.packTotal, servers |-> taken]}
    BY <1>4 DEF ListResponse
  <1> HIDE DEF lay
  <1>9. taken = [n \in 1 .. Len(list) |-> list[n]]
    BY <1>1, <1>4, <1>6, <1>7
  <1> HIDE DEF taken
  <1>10. ListResponse(lay, 0) = {[of |-> list, index |-> 0, packTotal |-> 1, servers |-> list]}
    BY <1>1, <1>4, <1>8, <1>9
  <1> QED  BY <1>4, <1>10 DEF lay

\* The answer to a query that finds less than a packet of servers is whole, in
\* one packet, whatever else has been asked, resent or has expired.
THEOREM ShortListsSentWhole == CountedInByte => (Spec => []ShortListWhole)
  <1> SUFFICES ASSUME CountedInByte PROVE Spec => []ShortListWhole
    OBVIOUS
  <1>1. PageInv => ShortListWhole
    <2> SUFFICES ASSUME PageInv PROVE ShortListWhole
      OBVIOUS
    <2>1. ASSUME NEW p \in sent, Len(p.of) < PerPacket
          PROVE  p.packTotal = 1 /\ p.servers = p.of
      <3>1. IsPage(p)
        BY DEF PageInv
      <3>2. Layout(p.of).packTotal = 1
        BY <2>1, <3>1, ShortPage DEF IsPage
      <3>3. p.index = 0
        BY <3>1, <3>2 DEF IsPage
      <3>4. p \in {[of |-> p.of, index |-> 0, packTotal |-> 1, servers |-> p.of]}
        BY <2>1, <3>1, <3>3, ShortPage DEF IsPage
      <3> QED  BY <3>4
    <2>2. ASSUME NEW n \in 1 .. Len(sessions), Len(sessions[n].results) < PerPacket
          PROVE  SentWhole(sessions[n].results)
      <3>1. PICK list \in Listing : sessions[n] = Layout(list)
        BY DEF PageInv
      <3>2. sessions[n].results = list
        BY <3>1, LayoutFits
      <3> DEFINE page == [of |-> list, index |-> 0, packTotal |-> 1, servers |-> list]
                 pages == {p \in sent : p.of = list}
      <3>3. page \in pages
        BY <2>2, <3>1, <3>2, ShortPage DEF PageInv
      <3>4. \A p \in pages : p.servers = list
        BY <2>1, <2>2, <3>2
      <3> HIDE DEF pages
      <3>5. ServersIn(pages) = {list[i] : i \in 1 .. Len(list)}
        BY <3>3, <3>4 DEF ServersIn
      <3> QED  BY <3>2, <3>5 DEF SentWhole, pages
    <2> QED  BY <2>1, <2>2 DEF ShortListWhole
  <1> QED  BY <1>1, PageInvHolds, PTL

-----------------------------------------------------------------------------
(***************************************************************************)
(* What a packet reads and how much it holds                               *)
(***************************************************************************)

\* For the least element of a set of numbers, which is no matter of End.
Sweep == INSTANCE MapSweepProofs WITH End <- 0

\* A buffer of the packet size, written up to length.
Filled(length) == [size |-> LIST_PACKET_SIZE, length |-> length, statusOK |-> TRUE]

LEMMA WriteMoves ==
  ASSUME NEW length \in Nat, NEW n \in Nat \ {0}
  PROVE  WriteBytes(Filled(length), n) = Filled(length + n)
  <1>1. Negated(length + n) = 0 /\ ~(0 > LIST_PACKET_SIZE)
    BY SizeAssumption DEF Negated
  <1> QED  BY <1>1 DEF WriteBytes, Moved, Filled

\* The header, packTotal, index and the number of servers take 10 bytes.
ReplyHead == WriteU16(WriteU8(WriteU8(WriteHeader(NewPacket(LIST_PACKET_SIZE)))))

LEMMA HeadLength == ReplyHead = Filled(10)
  <1>1. \A length \in Nat : length < LIST_PACKET_SIZE => WriteU8(Filled(length)) = Filled(length + 1)
    BY DEF WriteU8, Moved, Filled
  <1>2. \A length \in Nat : WriteU16(Filled(length)) = Filled(length + 2)
    BY WriteMoves DEF WriteU16
  <1>3. NewPacket(LIST_PACKET_SIZE) = Filled(0)
    BY DEF NewPacket, Filled
  <1>4. WriteU8(Filled(0)) = Filled(1) /\ WriteU8(Filled(1)) = Filled(2)
    BY <1>1, SizeAssumption
  <1>5. WriteU16(Filled(2)) = Filled(4) /\ WriteU16(Filled(4)) = Filled(6)
    BY <1>2
  <1>6. WriteU8(Filled(6)) = Filled(7) /\ WriteU8(Filled(7)) = Filled(8) /\ WriteU16(Filled(8)) = Filled(10)
    BY <1>1, <1>2, SizeAssumption
  <1> QED  BY <1>3, <1>4, <1>5, <1>6 DEF ReplyHead, WriteHeader

\* The buffer after each server of a packet.
Written(count) == [n \in 0 .. count |-> Filled(10 + 6 * n)]

IsWritten(f, count) ==
  f = [n \in 0 .. count |-> IF n = 0 THEN ReplyHead ELSE WriteU16(WriteU32(f[n - 1]))]

LEMMA WrittenIs == ASSUME NEW count \in Nat PROVE IsWritten(Written(count), count)
  <1>1. ASSUME NEW n \in 1 .. count
        PROVE  WriteU16(WriteU32(Filled(10 + 6 * (n - 1)))) = Filled(10 + 6 * n)
    <2> DEFINE length == 10 + 6 * (n - 1)
    <2>1. length \in Nat /\ length + 4 \in Nat /\ (length + 4) + 2 = 10 + 6 * n
      OBVIOUS
    <2> HIDE DEF length
    <2>2. WriteU32(Filled(length)) = Filled(length + 4)
      BY <2>1, WriteMoves DEF WriteU32
    <2>3. WriteU16(Filled(length + 4)) = Filled((length + 4) + 2)
      BY <2>1, WriteMoves DEF WriteU16
    <2> QED  BY <2>1, <2>2, <2>3 DEF length
  <1>2. ASSUME NEW n \in 0 .. count
        PROVE  Written(count)[n] = IF n = 0 THEN ReplyHead
                                   ELSE WriteU16(WriteU32(Written(count)[n - 1]))
    <2>1. CASE n = 0
      BY <2>1, HeadLength DEF Written
    <2>2. CASE n # 0
      <3>1. n \in 1 .. count /\ n - 1 \in 0 .. count
        BY <2>2
      <3>2. Written(count)[n] = Filled(10 + 6 * n) /\ Written(count)[n - 1] = Filled(10 + 6 * (n - 1))
        BY <3>1 DEF Written
      <3> QED  BY <1>1, <2>2, <3>1, <3>2
    <2> QED  BY <2>1, <2>2
  <1>3. Written(count) = [n \in 0 .. count |-> Written(count)[n]]
    BY DEF Written
  <1> QED  BY <1>2, <1>3 DEF IsWritten

LEMMA WrittenUnique ==
  ASSUME NEW count \in Nat, NEW f, NEW g, IsWritten(f, count), IsWritten(g, count)
  PROVE  f[count] = g[count]
  <1> DEFINE Fails == {n \in 0 .. count : f[n] # g[n]}
  <1>1. \A n \in 0 .. count : /\ f[n] = IF n = 0 THEN ReplyHead ELSE WriteU16(WriteU32(f[n - 1]))
                              /\ g[n] = IF n = 0 THEN ReplyHead ELSE WriteU16(WriteU32(g[n - 1]))
    BY DEF IsWritten
  <1>2. Fails = {}
    <2> SUFFICES ASSUME Fails # {} PROVE FALSE
      OBVIOUS
    <2>1. PICK k \in Fails : \A j \in Fails : k <= j
      <3>1. Fails \subseteq Nat
        OBVIOUS
      <3> HIDE DEF Fails
      <3> QED  BY <3>1, Sweep!LeastElement
    <2>2. k # 0
      BY <1>1
    <2>3. k - 1 \in 0 .. count /\ k - 1 \notin Fails
      BY <2>1, <2>2
    <2>4. f[k - 1] = g[k - 1]
      BY <2>3
    <2> QED  BY <1>1, <2>2, <2>4
  <1> QED  BY <1>2

LEMMA ReplyLength == ASSUME NEW count \in Nat PROVE Reply(count) = Filled(10 + 6 * count)
  <1> DEFINE f == CHOOSE f : IsWritten(f, count)
  <1>1. IsWritten(f, count)
    BY WrittenIs
  <1>2. Reply(count) = f[count]
    BY DEF Reply, IsWritten, ReplyHead
  <1> HIDE DEF f
  <1>3. f[count] = Written(count)[count]
    BY <1>1, WrittenIs, WrittenUnique
  <1> QED  BY <1>2, <1>3 DEF Written

\* Of a list of at most PerPacket full packets and a remainder, every packet
\* takes what is there, and no more than a packet holds.
LEMMA PageInRange ==
  ASSUME CountedInByte, NEW list \in Listing, Len(list) < PerPacket * (PerPacket + 1),
         NEW i \in Nat, i < Layout(list).packTotal
  PROVE  /\ Count(Layout(list), i) \in Nat /\ Start(Layout(list), i) \in Nat
         /\ Start(Layout(list), i) + Count(Layout(list), i) <= Len(list)
         /\ Count(Layout(list), i) <= PerPacket
  <1> DEFINE len == Len(list)
             lay == Layout(list)
             full == len \div PerPacket
             rest == len % PerPacket
  <1>1. len \in Nat /\ PerPacket \in Nat \ {0}
    BY ListingAssumption, PerPacketPositive
  <1>2. full \in Nat /\ rest \in Nat /\ rest < PerPacket /\ len = PerPacket * full + rest
    <2> HIDE DEF len
    <2> QED  BY <1>1
  <1>3. lay.packNum = full /\ lay.packTotal = full + 1
    BY LayoutFits
  <1>4. lay.packLast = rest
    <2>1. len \in 0 .. WordSize - 1
      BY <1>1, WordSizePositive DEF CountedInByte
    <2>2. len % WordSize = len
      BY <2>1, WordSizePositive, SmallModulo
    <2> QED  BY <2>2 DEF Layout
  <1>5. Start(lay, i) = full * i
    BY <1>3, StartFits
  <1>6. Count(lay, i) = IF i = full THEN rest ELSE full
    BY <1>2, <1>3, <1>4 DEF Count
  <1>7. len < PerPacket * (PerPacket + 1)
    OBVIOUS
  <1>8. i <= full
    BY <1>2, <1>3
  <1> HIDE DEF len, lay, full, rest
  <1>9. full <= PerPacket
    <2> SUFFICES ASSUME full > PerPacket PROVE FALSE
      BY <1>1, <1>2
    <2>1. PerPacket * PerPacket + PerPacket <= PerPacket * full
      BY <1>1, <1>2, TimesMonotone
    <2>2. PerPacket * (PerPacket + 1) = PerPacket * PerPacket + PerPacket
      BY <1>1
    <2>3. PerPacket * full \in Nat /\ PerPacket * PerPacket \in Nat
      BY <1>1, <1>2
    <2> QED  BY <1>1, <1>2, <1>7, <2>1, <2>2, <2>3
  <1>10. full * full <= PerPacket * full /\ full * full \in Nat /\ PerPacket * full \in Nat
    <2>1. CASE full = PerPacket
      BY <1>1, <1>2, <2>1
    <2>2. CASE full < PerPacket
      <3>1. full * full + full <= full * PerPacket
        BY <1>1, <1>2, <2>2, TimesMonotone
      <3>2. full * PerPacket = PerPacket * full /\ full * full \in Nat /\ PerPacket * full \in Nat
        BY <1>1, <1>2
      <3> QED  BY <1>2, <3>1, <3>2
    <2> QED  BY <1>1, <1>2, <1>9, <2>1, <2>2
  <1>11. CASE i = full
    <2>1. Start(lay, i) = full * full /\ Count(lay, i) = rest
      BY <1>5, <1>6, <1>11
    <2> QED  BY <1>1, <1>2, <1>10, <2>1 DEF len, lay
  <1>12. CASE i < full
    <2>1. Start(lay, i) = full * i /\ Count(lay, i) = full
      BY <1>2, <1>5, <1>6, <1>12
    <2>2. full * i + full <= full * full /\ full * i \in Nat
      BY <1>2, <1>12, TimesMonotone
    <2> QED  BY <1>1, <1>2, <1>9, <1>10, <2>1, <2>2 DEF len, lay
  <1> QED  BY <1>2, <1>8, <1>11, <1>12

LEMMA FullPacketFits == 10 + 6 * PerPacket <= LIST_PACKET_SIZE
  <1> DEFINE most == (LIST_PACKET_SIZE - 12) \div 6
  <1>1. most \in Nat /\ 6 * most <= LIST_PACKET_SIZE - 12
    BY SizeAssumption
  <1>2. PerPacket <= most
    BY <1>1, SizeAssumption DEF PerPacket
  <1> HIDE DEF most
  <1> QED  BY <1>1, <1>2, PerPacketPositive, SizeAssumption

\* sendListResponse reads no result that is not there and writes no byte past
\* its buffer, for every list of at most PerPacket full packets.
THEOREM ReadsStayInRange == CountedInByte => (Spec => []ReadsInRange)
  <1> SUFFICES ASSUME CountedInByte PROVE Spec => []ReadsInRange
    OBVIOUS
  <1>1. PageInv => ReadsInRange
    <2> SUFFICES ASSUME PageInv, NEW p \in sent, Len(p.of) < PerPacket * (PerPacket + 1)
                 PROVE  Slice(p) \subseteq 1 .. Len(p.of) /\ ~Overrun(Reply(Len(p.servers)))
      BY DEF ReadsInRange
    <2> DEFINE start == Start(Layout(p.of), p.index)
               count == Count(Layout(p.of), p.index)
    <2>1. p.of \in Listing /\ p.index \in Nat /\ p.index < Layout(p.of).packTotal
          /\ Len(p.servers) = count
      BY DEF PageInv, IsPage
    <2>2. count \in Nat /\ start \in Nat /\ start + count <= Len(p.of) /\ count <= PerPacket
      BY <2>1, PageInRange
    <2>3. Len(p.of) \in Nat
      BY <2>1, ListingAssumption
    <2>4. Slice(p) = start + 1 .. start + count
      BY <2>1 DEF Slice
    <2> HIDE DEF start, count
    <2>5. Slice(p) \subseteq 1 .. Len(p.of)
      BY <2>2, <2>3, <2>4
    <2>6. Reply(count).length = 10 + 6 * count /\ Reply(count).size = LIST_PACKET_SIZE
      <3>1. Reply(count) = Filled(10 + 6 * count)
        BY <2>2, ReplyLength
      <3>2. Filled(10 + 6 * count).length = 10 + 6 * count
            /\ Filled(10 + 6 * count).size = LIST_PACKET_SIZE
        BY DEF Filled
      <3> QED  BY <3>1, <3>2
    <2>7. 10 + 6 * count <= LIST_PACKET_SIZE
      BY <2>2, FullPacketFits, PerPacketPositive, SizeAssumption
    <2>8. ~Overrun(Reply(count))
      BY <2>2, <2>6, <2>7, SizeAssumption DEF Overrun
    <2> QED  BY <2>1, <2>5, <2>8
  <1> QED  BY <1>1, PageInvHolds, PTL

=============================================================================
