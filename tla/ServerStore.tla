----------------------------- MODULE ServerStore -----------------------------
(***************************************************************************)
(* The database of game servers (masterd/ServerStoreRAM.cc), with the two  *)
(* lists of type names it shares with the types response.                  *)
(*                                                                         *)
(* A record is kept under a slot computed from the reporting address.  Its *)
(* game and mission types are pointers into the type lists, and a filtered *)
(* query compares these pointers.                                          *)
(*                                                                         *)
(* Type names that differ only in case are one member of GameType or       *)
(* MissionType; everything else a filter looks at is a member of Props.    *)
(***************************************************************************)
EXTENDS MapSweep, TypeLists

CONSTANTS
    Server,                  \* the addresses reports come from: [address, port]
    HalfWord,                \* 2^16
    GameType, MissionType,
    Props,
    Heartbeat,               \* $heartbeat
    SweepCount,              \* DoProcessing's default argument: 5 in the code
    Epoch, MaxClock          \* the clock starts at the one, stops at the other

\* Fault for ImplementsRegistry: the port is left out.
SlotOfHost(addr) == (addr.address * HalfWord) % (HalfWord * HalfWord)

\* U32 arithmetic keeps only the low half of the address above the port.
Slot(addr) == ((addr.address * HalfWord) % (HalfWord * HalfWord)) + addr.port

ASSUME ServerAssumption ==
    /\ HalfWord \in Nat \ {0}
    /\ Server \subseteq [address : 0 .. HalfWord * HalfWord - 1, port : 0 .. HalfWord - 1]
    /\ \A s \in Server : Slot(s) \in Nat /\ Slot(s) < End

ASSUME StoreAssumption == /\ {Epoch, MaxClock} \subseteq Nat /\ Epoch <= MaxClock
                          /\ Heartbeat \in Nat \ {0}
                          /\ SweepCount \in Nat /\ SweepCount >= 2

VARIABLES
    now,            \* getAbsTime()
    servers,        \* m_Servers: slot -> record
    procIT,         \* m_ProcIT: a slot of m_Servers, or End
    gameTypes,      \* m_GameTypes: pointer -> the name stored there, its count
    missionTypes,   \* m_MissionTypes
    reports         \* history: server -> its last report, while fresh or listed

vars == <<now, servers, procIT, gameTypes, missionTypes, reports>>

types == <<gameTypes, missionTypes>>

-----------------------------------------------------------------------------
(***************************************************************************)
(* Reports: UpdateServer                                                   *)
(***************************************************************************)
Init == /\ now = Epoch
        /\ servers = <<>>
        /\ procIT = End
        /\ gameTypes = <<>>
        /\ missionTypes = <<>>
        /\ reports = <<>>

Reported(s, info) ==
    /\ reports' = Put(reports, s, [game |-> info.game, mission |-> info.mission,
                                   props |-> info.props, at |-> now])
    /\ UNCHANGED <<now, procIT>>

\* The slot is free.
AddServer(s, info) ==
    /\ Slot(s) \notin DOMAIN servers
    /\ \E g \in Push(gameTypes, info.game, TRUE), m \in Push(missionTypes, info.mission, TRUE) :
           /\ servers' = Put(servers, Slot(s), [addr |-> s, game |-> g.ptr, mission |-> m.ptr,
                                                props |-> info.props, last_info |-> now])
           /\ gameTypes' = g.list
           /\ missionTypes' = m.list
    /\ Reported(s, info)

\* The slot has a record.  It keeps its address, and takes over the names
\* without counting them when the lists have them already.
RenewServer(s, info) ==
    /\ Slot(s) \in DOMAIN servers
    /\ LET rec == servers[Slot(s)]
       IN  \E g \in Push(gameTypes, info.game, FALSE), m \in Push(missionTypes, info.mission, FALSE) :
               /\ servers' = Put(servers, Slot(s), [addr |-> rec.addr, game |-> g.ptr, mission |-> m.ptr,
                                                    props |-> info.props, last_info |-> now])
               /\ gameTypes' = Release(g.list, rec.game, g.ptr)
               /\ missionTypes' = Release(m.list, rec.mission, m.ptr)
    /\ Reported(s, info)

UpdateServer(s, info) == AddServer(s, info) \/ RenewServer(s, info)

\* A heartbeat is answered with a request for a report and changes nothing.
HeartbeatServer(s) == UNCHANGED vars

-----------------------------------------------------------------------------
(***************************************************************************)
(* DoProcessing: the sweep                                                 *)
(***************************************************************************)
\* Fault for FreshReportListed: a second too early.
LapsedEarly(rec) == rec.last_info + Heartbeat <= now + 1

Lapsed(rec) == rec.last_info + Heartbeat <= now

Removed == {k \in VisitedFrom(DOMAIN servers, procIT, SweepCount) : Lapsed(servers[k])}

\* Fault for CursorValid: begin() is taken before the records are erased.
AdvanceToStaleBegin == PlaceAfter(DOMAIN servers, procIT, SweepCount, {})

\* Fault for LapsedRemoved: the iterator is left at end().
AdvanceToEnd ==
    FirstFrom(DOMAIN servers \ VisitedFrom(DOMAIN servers, procIT, SweepCount), procIT)

Advance == PlaceAfter(DOMAIN servers, procIT, SweepCount, Removed)

DoProcessing ==
    /\ servers' = [k \in DOMAIN servers \ Removed |-> servers[k]]
    /\ procIT' = Advance
    /\ gameTypes' = PopRefs(gameTypes, Removed, [k \in Removed |-> servers[k].game])
    /\ missionTypes' = PopRefs(missionTypes, Removed, [k \in Removed |-> servers[k].mission])
    /\ reports' = [s \in {r \in DOMAIN reports :
                              \/ reports[r].at + Heartbeat > now
                              \/ \E k \in DOMAIN servers' : servers'[k].addr = r} |-> reports[s]]
    /\ UNCHANGED now

Tick == /\ now < MaxClock
        /\ now' = now + 1
        /\ UNCHANGED <<servers, procIT, types, reports>>

Info == [game : GameType, mission : MissionType, props : Props]

Next == \/ \E s \in Server, info \in Info : UpdateServer(s, info)
        \/ \E s \in Server : HeartbeatServer(s)
        \/ DoProcessing
        \/ Tick

Spec == Init /\ [][Next]_vars

\* The core loop sweeps between two drains of the socket: fair as long as the
\* traffic leaves the socket empty now and then.
FairSpec == Spec /\ WF_vars(DoProcessing) /\ WF_vars(Tick)

-----------------------------------------------------------------------------
(***************************************************************************)
(* QueryServers                                                            *)
(***************************************************************************)
Wildcard == "any"

\* The addresses a filter selects: a set of game and of mission pointers, where
\* a name no list has selects nothing, and the properties it accepts.
QueryServers(filter) ==
    {servers[k].addr : k \in
        {j \in DOMAIN servers :
            /\ filter.game = Wildcard \/ servers[j].game \in GetRef(gameTypes, filter.game)
            /\ filter.mission = Wildcard \/ servers[j].mission \in GetRef(missionTypes, filter.mission)
            /\ servers[j].props \in filter.accepts}}

-----------------------------------------------------------------------------
(***************************************************************************)
(* Properties                                                              *)
(***************************************************************************)
Record == [addr : Server, game : Pointer, mission : Pointer,
           props : Props, last_info : Epoch .. MaxClock]

\* Every record sits in the slot of its own address and the type lists are
\* lists of distinct names.
TypeOK ==
    /\ now \in Epoch .. MaxClock
    /\ \A k \in DOMAIN servers : servers[k] \in Record /\ Slot(servers[k].addr) = k
    /\ IsTypeList(gameTypes, GameType)
    /\ IsTypeList(missionTypes, MissionType)
    /\ DOMAIN reports \subseteq Server

\* The sweep's iterator, kept across calls while records come and go, never
\* dangles.
CursorValid == procIT \in DOMAIN servers \cup {End}

\* A server that reported within the last Heartbeat seconds is in the database
\* with what it reported last.
FreshReportListed ==
    \A s \in DOMAIN reports :
        reports[s].at + Heartbeat > now =>
            \E k \in DOMAIN servers : /\ servers[k].addr = s
                                      /\ servers[k].props = reports[s].props
                                      /\ servers[k].last_info = reports[s].at

\* No name is kept, and offered to clients, that fewer servers use than its
\* count says: counts err on the low side only.
UsersOfGame(p) == {k \in DOMAIN servers : servers[k].game = p}
UsersOfMission(p) == {k \in DOMAIN servers : servers[k].mission = p}

TypesInUse ==
    /\ \A p \in DOMAIN gameTypes : gameTypes[p].refCount <= Cardinality(UsersOfGame(p))
    /\ \A p \in DOMAIN missionTypes : missionTypes[p].refCount <= Cardinality(UsersOfMission(p))

\* What "reference counter" in ServerStore.h means: a name lives as long as a
\* server has it.  So a query for a type finds the servers that reported it.
TypedQueryExact ==
    \A g \in GameType :
        QueryServers([game |-> g, mission |-> Wildcard, accepts |-> Props]) =
            {servers[k].addr : k \in {j \in DOMAIN servers : reports[servers[j].addr].game = g}}

\* A server that stops reporting is dropped in the end, wherever its slot is
\* and however the records around it change.
LapsedRemoved ==
    \A s \in Server :
        (Slot(s) \in DOMAIN servers /\ Lapsed(servers[Slot(s)]))
            ~> ~(Slot(s) \in DOMAIN servers /\ Lapsed(servers[Slot(s)]))

-----------------------------------------------------------------------------
(***************************************************************************)
(* The lease registry, when no two addresses share a slot                  *)
(***************************************************************************)
DistinctSlots == \A r, s \in Server : Slot(r) = Slot(s) => r = s

Listed == [s \in {servers[k].addr : k \in DOMAIN servers} |->
              [props |-> servers[Slot(s)].props, at |-> servers[Slot(s)].last_info]]

LastReport == [s \in DOMAIN reports |-> [props |-> reports[s].props, at |-> reports[s].at]]

Registry == INSTANCE ServerRegistry WITH listed <- Listed, reports <- LastReport

\* Every step of the database is a step of the registry: a report lists its
\* server or renews that server's lease and no other, and only lapsed leases
\* end.
ImplementsRegistry == Registry!Spec

=============================================================================
