------------------------------ MODULE Messages ------------------------------
(***************************************************************************)
(* What the master server reads from a datagram and makes of it: the       *)
(* dispatch of ProcMessage (masterd/core.cc), the handlers of reports and  *)
(* list requests (masterd/TorqueIO.cc) on top of the reading half of       *)
(* Packet, and the filter of ServerStoreRAM::QueryServers.                 *)
(*                                                                         *)
(* Clients and game servers encode their messages in the format that is    *)
(* read; any datagram may be cut short.  Type names are numbers here, with *)
(* a size in bytes; a mask is a number, too.                               *)
(* A record has its types as pointers into the type lists, which free      *)
(* names that are still pointed to; queries look there.  The slots and     *)
(* leases of the database are in ServerStore, the sessions in FloodControl.*)
(***************************************************************************)
EXTENDS PacketBuffer, TypeLists, SequencesExt

CONSTANTS
    Server,             \* the game servers
    NameSize,           \* type name -> its length in bytes
    Printable,          \* the names that isPrintableString accepts
    Guid,               \* the GUIDs of players
    MaskBits,           \* the number of bits of a mask: 32
    Message             \* what clients and game servers send

\* The types of messages that are received (include/network.h).
MasterServerGameTypesRequest == 2
MasterServerListRequest == 6
GameMasterInfoResponse == 12
GameHeartbeat == 22
MasterServerInfoRequest == 24

\* Names that a filter takes for no condition.
Empty == 0
Wildcard == 1

\* There is one empty name only.
ASSUME NameAssumption == /\ {Empty, Wildcard} \subseteq DOMAIN NameSize
                         /\ DOMAIN NameSize \subseteq Nat
                         /\ \A name \in DOMAIN NameSize : NameSize[name] \in 0 .. MaxString
                         /\ \A name \in DOMAIN NameSize : NameSize[name] = 0 <=> name = Empty

ASSUME GuidAssumption == Guid \subseteq Nat /\ Guid # {} /\ MaskBits \in Nat

\* The numbers that a U8 and a U16 have room for.
ByteSize == 256
WordSize == 65536

Fits(value, width) == /\ value \in Nat
                      /\ width = 1 => value < ByteSize
                      /\ width = 2 => value < WordSize

VARIABLES
    servers,        \* server -> its ServerInfo, but for what nothing reads; the types
                    \* are the names that came, and not where they are stored
    pointers,       \* server -> where its record has its types stored
    gameTypes,      \* m_GameTypes
    missionTypes,   \* m_MissionTypes
    reported        \* history: server -> the last report that had its fixed part

database == <<servers, pointers, gameTypes, missionTypes>>
vars == <<database, reported>>

-----------------------------------------------------------------------------
(***************************************************************************)
(* The messages                                                            *)
(***************************************************************************)
Text == 0    \* the width of a string: a length byte, then the characters

Field(name, width) == [name |-> name, width |-> width]

HeaderFormat == <<Field("type", 1), Field("flags", 1), Field("session", 2), Field("key", 2)>>

\* The comment in handleInfoResponse gives CPUSpeed two bytes.
ReportFormat ==
    <<Field("gameType", Text), Field("missionType", Text), Field("maxPlayers", 1),
      Field("regions", 4), Field("version", 4), Field("infoFlags", 1), Field("numBots", 1),
      Field("CPUSpeed", 4), Field("playerCount", 1)>>

IndexFormat == <<Field("index", 1)>>

QueryFormat ==
    <<Field("gameType", Text), Field("missionType", Text), Field("minPlayers", 1),
      Field("maxPlayers", 1), Field("regions", 4), Field("version", 4),
      Field("filterFlags", 1), Field("maxBots", 1), Field("minCPUSpeed", 2),
      Field("buddyCount", 1)>>

NewQuery == 255    \* the index of a list request that asks for no resend

ListRequests == {msg \in Message : msg.type = MasterServerListRequest}

IsQuery(msg) == msg.type = MasterServerListRequest /\ msg.index = NewQuery

\* What a sender puts before the list, if the message has one.
FormatOf(msg) ==
    HeaderFormat \o IF msg.type = GameMasterInfoResponse THEN ReportFormat
                    ELSE IF IsQuery(msg) THEN IndexFormat \o QueryFormat
                    ELSE IF msg.type = MasterServerListRequest THEN IndexFormat
                    ELSE <<>>

\* A sender counts its list right, and the speed of a processor, in MHz, fits
\* 16 bits.
ASSUME MessageAssumption ==
    \A msg \in Message :
        /\ \A i \in DOMAIN FormatOf(msg) :
               LET f == FormatOf(msg)[i]
               IN  IF f.width = Text THEN msg[f.name] \in DOMAIN NameSize ELSE Fits(msg[f.name], f.width)
        /\ msg.list \in Seq(Nat)
        /\ msg.type = GameMasterInfoResponse => /\ msg.playerCount = Len(msg.list)
                                               /\ msg.list \in Seq(Guid)
                                               /\ Fits(msg.CPUSpeed, 2)
        /\ IsQuery(msg) => msg.buddyCount = Len(msg.list)
        /\ msg.type # GameMasterInfoResponse /\ ~IsQuery(msg) => msg.list = <<>>

EncodeField(msg, f) ==
    LET value == msg[f.name]
    IN  IF f.width = Text THEN Bytes(NameSize[value], 1) \o Bytes(value, NameSize[value])
        ELSE Bytes(value, f.width)

\* The datagram of a message, without its list and with it.
FixedPart(msg) == FlattenSeq([i \in DOMAIN FormatOf(msg) |-> EncodeField(msg, FormatOf(msg)[i])])
Encode(msg) == FixedPart(msg) \o FlattenSeq([i \in DOMAIN msg.list |-> Bytes(msg.list[i], 4)])

-----------------------------------------------------------------------------
(***************************************************************************)
(* Reading.  A reader is the packet and the values it has got so far.  The *)
(* reads that follow a failed one cannot make up for it: nothing sets the  *)
(* status back.                                                            *)
(***************************************************************************)
Reader(packet, values) == [packet |-> packet, values |-> values]

\* Fault for StoredAsReported: a terminating NUL is read, too.
ReadCStringWithNul(data, p) ==
    LET length == ValueAt(data, p, 1)
        chars  == ReadU8(p)
    IN  [packet |-> ReadBytes(chars, length + 1), value |-> ValueAt(data, chars, length)]

ReadCString(data, p) ==
    LET length == ValueAt(data, p, 1)
        chars  == ReadU8(p)
    IN  [packet |-> ReadBytes(chars, length), value |-> ValueAt(data, chars, length)]

\* readU8, readU16, readU32
ReadNumber(data, p, width) == [packet |-> ReadBytes(p, width), value |-> ValueAt(data, p, width)]

ReadField(data, r, f) ==
    LET got == IF f.width = Text THEN ReadCString(data, r.packet)
               ELSE ReadNumber(data, r.packet, f.width)
    IN  Reader(got.packet, Put(r.values, f.name, got.value))

Read(data, r, format) ==
    LET after[i \in 0 .. Len(format)] == IF i = 0 THEN r ELSE ReadField(data, after[i - 1], format[i])
    IN  after[Len(format)]

ReadHeader(data) == Read(data, Reader(Received(data), <<>>), HeaderFormat)

\* The packet after each of n calls of readU32.
AfterReads(packet, n) ==
    LET after[i \in 0 .. n] == IF i = 0 THEN packet ELSE ReadBytes(after[i - 1], 4)
    IN  after

\* The lists that n calls of readU32 may give: an entry that is not there is
\* whatever the memory held.
Lists(data, packet, n) ==
    LET after == AfterReads(packet, n)
        came  == {i \in 1 .. n : after[i].length > after[i - 1].length}
    IN  {[i \in 1 .. n |-> IF i \in came THEN ValueAt(data, after[i - 1], 4) ELSE unset[i]] :
            unset \in [(1 .. n) \ came -> Guid]}

isPrintableString(name) == name \in Printable

-----------------------------------------------------------------------------
(***************************************************************************)
(* handleInfoResponse                                                      *)
(***************************************************************************)
\* The strings and the status as they are when the fixed part has been read.
WellFormed(r) == /\ isPrintableString(r.values.gameType)
                 /\ isPrintableString(r.values.missionType)
                 /\ r.packet.statusOK

\* CPUSpeed is read as a U32 into a U16.
Narrowed(values) == [values EXCEPT !.CPUSpeed = @ % WordSize]

\* What a report may be stored as; nothing when it is malformed.  The status is
\* not looked at again after the players.
handleInfoResponse(data) ==
    LET r == Read(data, Reader(ReadHeader(data).packet, <<>>), ReportFormat)
    IN  IF WellFormed(r)
        THEN {Put(Narrowed(r.values), "playerList", list) : list \in Lists(data, r.packet, r.values.playerCount)}
        ELSE {}

\* Fault for TypeOK: a report without players leaves the list as it is.
RenewKeepingList(old, info) ==
    IF info.playerCount = 0 THEN [info EXCEPT !.playerList = old.playerList] ELSE info

\* UpdateServer: every property of the record is replaced.
Renew(old, info) == info

\* A new server: it counts its types.
AddServer(s, info) ==
    /\ s \notin DOMAIN servers
    /\ servers' = Put(servers, s, info)
    /\ \E g \in Push(gameTypes, info.gameType, TRUE), m \in Push(missionTypes, info.missionType, TRUE) :
           /\ pointers' = Put(pointers, s, [game |-> g.ptr, mission |-> m.ptr])
           /\ gameTypes' = g.list
           /\ missionTypes' = m.list

\* A type that changes is not counted, if the lists have it, and the one before
\* loses a reference.
RenewServer(s, info) ==
    /\ s \in DOMAIN servers
    /\ servers' = Put(servers, s, Renew(servers[s], info))
    /\ \E g \in Push(gameTypes, info.gameType, FALSE), m \in Push(missionTypes, info.missionType, FALSE) :
           /\ pointers' = Put(pointers, s, [game |-> g.ptr, mission |-> m.ptr])
           /\ gameTypes' = Release(g.list, pointers[s].game, g.ptr)
           /\ missionTypes' = Release(m.list, pointers[s].mission, m.ptr)

UpdateServer(s, info) == AddServer(s, info) \/ RenewServer(s, info)

-----------------------------------------------------------------------------
(***************************************************************************)
(* handleListRequest                                                       *)
(***************************************************************************)
\* The sanity check of a filter.
Sane(filter) ==
    IF filter.maxPlayers < filter.minPlayers THEN [filter EXCEPT !.maxPlayers = filter.minPlayers]
    ELSE filter

\* The masks have a bit in common.
Common(mask, other) ==
    \E bit \in 0 .. MaskBits - 1 : (mask \div (2 ^ bit)) % 2 = 1 /\ (other \div (2 ^ bit)) % 2 = 1

\* Fault for AnswerExact: an empty name is looked up like others.
IsTypeOfEmpty(list, wanted, ptr) == wanted = Wildcard \/ ptr \in GetRef(list, wanted)

\* A type that is a condition is looked up in the list.  It must be there, at
\* the very place the record points to.
IsType(list, wanted, ptr) == wanted \in {Empty, Wildcard} \/ ptr \in GetRef(list, wanted)

Passes(info, filter) ==
    /\ filter.minPlayers # 0 => info.playerCount >= filter.minPlayers
    /\ filter.maxPlayers # 0 => info.playerCount <= filter.maxPlayers
    /\ filter.regions # 0 => Common(info.regions, filter.regions)
    /\ filter.version # 0 => info.version >= filter.version
    /\ filter.filterFlags # 0 => Common(info.infoFlags, filter.filterFlags)
    /\ filter.maxBots # 0 => info.numBots <= filter.maxBots
    /\ filter.minCPUSpeed # 0 => info.CPUSpeed >= filter.minCPUSpeed
    /\ filter.buddyCount # 0 => ToSet(filter.buddyList) \cap ToSet(info.playerList) # {}

QueryServers(filter) ==
    {s \in DOMAIN servers : /\ IsType(gameTypes, filter.gameType, pointers[s].game)
                            /\ IsType(missionTypes, filter.missionType, pointers[s].mission)
                            /\ Passes(servers[s], filter)}

\* Fault for CutRequestsHarmless: the status is tested before the buddies are
\* read, as handleInfoResponse does with the players.
AcceptedBeforeBuddies(data, q) == WellFormed(q)

\* The query is well-formed, its list of buddies included.
Accepted(data, q) == /\ WellFormed(q)
                     /\ AfterReads(q.packet, q.values.buddyCount)[q.values.buddyCount].statusOK

\* The index is not tested for having been read: it is 0 then.
handleListRequest(data) ==
    LET r == Read(data, ReadHeader(data), IndexFormat)
        q == Read(data, r, QueryFormat)
    IN  IF r.values.index # NewQuery THEN [outcome |-> "resent", index |-> r.values.index]
        ELSE IF Accepted(data, q)
        THEN [outcome |-> "answered",
              found   |-> UNION {QueryServers(Sane(Put(q.values, "buddyList", list))) :
                                   list \in Lists(data, q.packet, q.values.buddyCount)}]
        ELSE [outcome |-> "refused"]

-----------------------------------------------------------------------------
(***************************************************************************)
(* ProcMessage: a datagram of which the first n bytes arrive               *)
(***************************************************************************)
Init == /\ servers = <<>>
        /\ pointers = <<>>
        /\ gameTypes = <<>>
        /\ missionTypes = <<>>
        /\ reported = <<>>

Arriving(msg, n) == SubSeq(Encode(msg), 1, n)

HasType(data, type) == /\ ReadHeader(data).packet.statusOK
                       /\ ReadHeader(data).values.type = type

\* A report with its fixed part and the players of this many that arrived.
Noted(s, msg, n) ==
    IF isPrintableString(msg.gameType) /\ isPrintableString(msg.missionType) /\ n >= Len(FixedPart(msg))
    THEN reported' = Put(reported, s, [msg |-> msg, players |-> (n - Len(FixedPart(msg))) \div 4])
    ELSE UNCHANGED reported

Report(s, msg, n) ==
    LET data == Arriving(msg, n)
    IN  /\ HasType(data, GameMasterInfoResponse)
        /\ IF handleInfoResponse(data) = {} THEN UNCHANGED database
           ELSE \E info \in handleInfoResponse(data) : UpdateServer(s, info)
        /\ Noted(s, msg, n)

\* What a list request gets is Answer; the session it makes is in FloodControl.
ListRequest(msg, n) == HasType(Arriving(msg, n), MasterServerListRequest) /\ UNCHANGED vars

Answer(msg, n) == handleListRequest(Arriving(msg, n))

\* A types or an info request or a heartbeat, which have no more to read; a
\* type that is unknown; a datagram too short for a header.
OtherMessage(msg, n) ==
    /\ ~HasType(Arriving(msg, n), GameMasterInfoResponse)
    /\ ~HasType(Arriving(msg, n), MasterServerListRequest)
    /\ UNCHANGED vars

\* DoProcessing of the database: the lease of s has lapsed.
Drop(s) == /\ s \in DOMAIN servers
           /\ servers' = [r \in DOMAIN servers \ {s} |-> servers[r]]
           /\ pointers' = [r \in DOMAIN pointers \ {s} |-> pointers[r]]
           /\ gameTypes' = PopRefs(gameTypes, {s}, [r \in {s} |-> pointers[r].game])
           /\ missionTypes' = PopRefs(missionTypes, {s}, [r \in {s} |-> pointers[r].mission])
           /\ reported' = [r \in DOMAIN reported \ {s} |-> reported[r]]

ProcMessage(s, msg, n) == Report(s, msg, n) \/ ListRequest(msg, n) \/ OtherMessage(msg, n)

Next == \/ \E s \in Server, msg \in Message : \E n \in 1 .. Len(Encode(msg)) : ProcMessage(s, msg, n)
        \/ \E s \in Server : Drop(s)

Spec == Init /\ [][Next]_vars

-----------------------------------------------------------------------------
(***************************************************************************)
(* Properties                                                              *)
(***************************************************************************)
\* Every field of a record fits its type, and the record has as many players
\* as it counts: the search for buddies stays inside the list.  The type lists
\* hold each printable name at most once.
TypeOK ==
    /\ \A s \in DOMAIN servers :
           /\ \A i \in DOMAIN ReportFormat :
                  LET f == ReportFormat[i]
                  IN  IF f.width = Text THEN servers[s][f.name] \in Printable
                      ELSE Fits(servers[s][f.name], f.width)
           /\ Fits(servers[s].CPUSpeed, 2)
           /\ servers[s].playerList \in Seq(Guid)
           /\ Len(servers[s].playerList) = servers[s].playerCount
    /\ pointers \in [DOMAIN servers -> [game : Pointer, mission : Pointer]]
    /\ IsTypeList(gameTypes, Printable)
    /\ IsTypeList(missionTypes, Printable)

\* Whatever was cut off the reports of a server, its record is there exactly
\* if one of them had its fixed part, and holds what the last such report
\* said, but for the players that did not arrive.
StoredAsReported ==
    /\ DOMAIN servers = DOMAIN reported
    /\ \A s \in DOMAIN servers :
           LET sent == reported[s].msg
           IN  /\ \A i \in DOMAIN ReportFormat :
                      servers[s][ReportFormat[i].name] = sent[ReportFormat[i].name]
               /\ \A i \in 1 .. reported[s].players : servers[s].playerList[i] = sent.list[i]

\* A list request that is cut short makes no session and finds nothing: it is
\* refused, and its host pays for it, unless just the header is left, which
\* asks for packet 0 of an answer that may be there.
CutRequestsHarmless ==
    \A msg \in ListRequests : \A n \in HeaderSize .. Len(Encode(msg)) - 1 :
        \/ Answer(msg, n).outcome = "refused"
        \/ n = HeaderSize /\ Answer(msg, n) = [outcome |-> "resent", index |-> 0]

\* What the report of s said of its players, whole.
CameWhole(s) == reported[s].players = Len(reported[s].msg.list)

\* The condition q sets on a quantity, a mask or a list, none when it is null.
AtLeast(value, bound) == bound = 0 \/ value >= bound
AtMost(value, bound) == bound = 0 \/ value <= bound

\* The most players q is taken to allow: a maximum below the minimum, which a
\* null one is, too, is raised to it.
MostPlayers(q) == IF q.maxPlayers < q.minPlayers THEN q.minPlayers ELSE q.maxPlayers

\* The report said nothing that q excludes, types and buddies aside.
Eligible(msg, q) ==
    /\ AtLeast(Len(msg.list), q.minPlayers) /\ AtMost(Len(msg.list), MostPlayers(q))
    /\ AtLeast(msg.version, q.version) /\ AtLeast(msg.CPUSpeed, q.minCPUSpeed)
    /\ AtMost(msg.numBots, q.maxBots)
    /\ q.regions # 0 => Common(msg.regions, q.regions)
    /\ q.filterFlags # 0 => Common(msg.infoFlags, q.filterFlags)

HasTypes(msg, q) == /\ q.gameType \in {Empty, Wildcard, msg.gameType}
                    /\ q.missionType \in {Empty, Wildcard, msg.missionType}

HasBuddy(players, q) == q.list = <<>> \/ ToSet(q.list) \cap ToSet(players) # {}

\* The list still has the name where it was stored for the record.  It may have
\* freed it for want of references, and stored another one there since.
Keeps(list, ptr, name) == ptr \in DOMAIN list /\ list[ptr].name = name

\* The types of s that q sets a condition on have not been freed.
TypesKept(s, q) ==
    /\ q.gameType \in {Empty, Wildcard} \/ Keeps(gameTypes, pointers[s].game, reported[s].msg.gameType)
    /\ q.missionType \in {Empty, Wildcard}
          \/ Keeps(missionTypes, pointers[s].mission, reported[s].msg.missionType)

\* From the client's message to the answer: a whole query finds the servers
\* whose last report meets it, where null is no condition.  There are three
\* exceptions.  A server whose type was freed under its record may be missed by
\* a query for it, and be found by one for the type that is stored there now;
\* all other conditions hold of what is found.  A server whose list of players
\* was cut short may be found for buddies it does not have, and is found for
\* those that arrived.  And a query with a minimum of players and no maximum
\* finds the servers with just that many.
Exact(q, found) ==
    /\ found \subseteq DOMAIN reported
    /\ \A s \in DOMAIN reported :
           LET report == reported[s].msg
           IN  /\ s \in found => /\ Eligible(report, q)
                                 /\ TypesKept(s, q) => HasTypes(report, q)
                                 /\ CameWhole(s) => HasBuddy(report.list, q)
               /\ Eligible(report, q) /\ HasTypes(report, q) /\ TypesKept(s, q)
                    /\ HasBuddy(SubSeq(report.list, 1, reported[s].players), q) => s \in found

AnswerExact ==
    \A q \in ListRequests :
        IsQuery(q) /\ {q.gameType, q.missionType} \subseteq Printable
            => LET answer == Answer(q, Len(Encode(q)))
               IN  answer.outcome = "answered" /\ Exact(q, answer.found)

=============================================================================
