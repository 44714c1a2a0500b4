---------------------------- MODULE TypesResponse ----------------------------
(***************************************************************************)
(* The answer to a types request, sendTypesResponse (masterd/TorqueIO.cc): *)
(* which of the game and mission types that servers have fit one packet.   *)
(*                                                                         *)
(* A type is its length here.  The lists are those of UniqueStringList     *)
(* (include/ServerStore.h): types come and go as servers do, in any order, *)
(* and a running total of their lengths is kept.                           *)
(***************************************************************************)
EXTENDS PacketBuffer, Sequences, FiniteSets

CONSTANTS
    Length,             \* the lengths of type names
    MaxPacketSize,      \* MAX_PACKET_SIZE: 1464
    MaxCount,           \* the largest U8: 255
    MaxTypes            \* bound of the model: types in a list

ASSUME SizeAssumption == /\ Length \subseteq 0 .. MaxString
                         /\ {MaxPacketSize, MaxCount, MaxTypes} \subseteq Nat
                         /\ MaxPacketSize >= HeaderSize + 2

VARIABLES game, mission    \* m_GameTypes, m_MissionTypes

vars == <<game, mission>>

PayloadSize == MaxPacketSize - HeaderSize    \* PACKET_PAYLOAD_SIZE

-----------------------------------------------------------------------------
(***************************************************************************)
(* UniqueStringList                                                        *)
(***************************************************************************)
NoTypes == [lengths |-> <<>>, totalSize |-> 0]

\* Push of a name that is new.  There is one empty name only.
CanPush(list, n) == /\ Len(list.lengths) < MaxTypes
                    /\ n = 0 => \A i \in DOMAIN list.lengths : list.lengths[i] # 0

Push(list, n) == [lengths   |-> Append(list.lengths, n),
                  totalSize |-> list.totalSize + n]

\* Fault for AllTypesSent: the total keeps the length of a name that is gone.
DropKeepingSize(list, i) ==
    [lengths   |-> SubSeq(list.lengths, 1, i - 1) \o SubSeq(list.lengths, i + 1, Len(list.lengths)),
     totalSize |-> list.totalSize]

\* PopRef of the last reference to the name at place i.
Drop(list, i) ==
    [lengths   |-> SubSeq(list.lengths, 1, i - 1) \o SubSeq(list.lengths, i + 1, Len(list.lengths)),
     totalSize |-> list.totalSize - list.lengths[i]]

Init == game = NoTypes /\ mission = NoTypes

Add == \E n \in Length :
          \/ CanPush(game, n) /\ game' = Push(game, n) /\ UNCHANGED mission
          \/ CanPush(mission, n) /\ mission' = Push(mission, n) /\ UNCHANGED game

Remove == \/ \E i \in DOMAIN game.lengths : game' = Drop(game, i) /\ UNCHANGED mission
          \/ \E i \in DOMAIN mission.lengths : mission' = Drop(mission, i) /\ UNCHANGED game

Next == Add \/ Remove

Spec == Init /\ [][Next]_vars

-----------------------------------------------------------------------------
(***************************************************************************)
(* sendTypesResponse                                                       *)
(***************************************************************************)
Count(list) == Len(list.lengths)

\* The size of the answer with all types, count bytes included.
WholeSize == game.totalSize + Count(game) + mission.totalSize + Count(mission) + 2

TooMuch == WholeSize > PayloadSize \/ Count(game) > MaxCount \/ Count(mission) > MaxCount

\* The bytes that the first names of the list take, for each number of them.
Sums(list) ==
    LET sum[k \in 0 .. Count(list)] == IF k = 0 THEN 0 ELSE sum[k - 1] + list.lengths[k] + 1
    IN  sum

BytesOf(list, n) == Sums(list)[n]

\* Fault for HalvesNearlyFit: the length byte of a name is not counted.
FittingNoLengthByte(list, limit) ==
    CHOOSE n \in 0 .. Count(list) :
        /\ BytesOf(list, n) - n <= limit
        /\ n < Count(list) => BytesOf(list, n + 1) - (n + 1) > limit

\* The names, from the first on, that fit the limit.
Fitting(list, limit) ==
    CHOOSE n \in 0 .. Count(list) :
        /\ BytesOf(list, n) <= limit
        /\ n < Count(list) => BytesOf(list, n + 1) > limit

\* How many names of a list are sent: all, or what fits half the payload.
Sent(list) == IF TooMuch THEN Fitting(list, PayloadSize \div 2) ELSE Count(list)

WriteTypes(p, list) ==
    LET written[k \in 0 .. Sent(list)] ==
            IF k = 0 THEN WriteU8(p) ELSE WriteCString(written[k - 1], list.lengths[k])
    IN  written[Sent(list)]

Reply == WriteTypes(WriteTypes(WriteHeader(NewPacket(MaxPacketSize)), game), mission)

-----------------------------------------------------------------------------
(***************************************************************************)
(* Properties                                                              *)
(***************************************************************************)

\* Whatever types have come and gone, an answer that fits the packet with all
\* types is sent with all of them, and no write fails or overruns.
AllTypesSent ==
    LET bytes == BytesOf(game, Count(game)) + BytesOf(mission, Count(mission)) + 2
    IN  bytes <= PayloadSize /\ Count(game) <= MaxCount /\ Count(mission) <= MaxCount
            => /\ Reply.statusOK
               /\ Reply.length = HeaderSize + bytes

\* An answer cut to size exceeds the packet by the two count bytes at most,
\* which the halves of the payload leave no room for.
HalvesNearlyFit == Reply.length <= MaxPacketSize + 2

\* What the README says of Packet: its write functions are aware of the size
\* of the buffer and prevent overruns.
NoOverrun == ~Overrun(Reply)

=============================================================================
