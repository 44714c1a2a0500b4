----------------------------- MODULE MCMessages -----------------------------
(***************************************************************************)
(* An instance of Messages for TLC: five kinds of reports, and queries     *)
(* that differ in every field, with values on both sides of each test.     *)
(***************************************************************************)
EXTENDS Messages

\* Names 2 and 3 are printable, 4 is not.
MCNameSize == (0 :> 0) @@ (1 :> 3) @@ (2 :> 1) @@ (3 :> 2) @@ (4 :> 1)
MCPrintable == {0, 1, 2, 3}

\* Memory that was never set holds one of these, too.
MCGuid == {7, 8}

Packet(type, rest) == [type |-> type, flags |-> 0, session |-> 5, key |-> 6] @@ rest

MCReport(game, size, regions, version, flags, bots, cpu, players) ==
    Packet(GameMasterInfoResponse,
           [gameType |-> game, missionType |-> 2, maxPlayers |-> size, regions |-> regions,
            version |-> version, infoFlags |-> flags, numBots |-> bots, CPUSpeed |-> cpu,
            playerCount |-> Len(players), list |-> players])

MCQuery(game, fewest, most, regions, version, flags, bots, cpu, buddies) ==
    Packet(MasterServerListRequest,
           [index |-> NewQuery, gameType |-> game, missionType |-> Wildcard, minPlayers |-> fewest,
            maxPlayers |-> most, regions |-> regions, version |-> version, filterFlags |-> flags,
            maxBots |-> bots, minCPUSpeed |-> cpu, buddyCount |-> Len(buddies), list |-> buddies])

MCResend(index) == Packet(MasterServerListRequest, [index |-> index, list |-> <<>>])

MCMessage ==
    {MCReport(2, 16, 1, 130, 1, 0, 900, <<7, 8>>),
     MCReport(3, 8, 6, 120, 2, 3, 400, <<7>>),
     MCReport(2, 16, 3, 130, 0, 2, 700, <<>>),
     MCReport(2, 16, 2, 140, 1, 0, 600, <<8>>),
     MCReport(4, 16, 1, 130, 1, 0, 900, <<>>)}
    \cup
    {MCQuery(Empty, 0, 0, 0, 0, 0, 0, 0, <<>>),
     MCQuery(2, 1, 2, 0, 0, 0, 0, 0, <<>>),
     MCQuery(Wildcard, 0, 1, 2, 0, 0, 0, 0, <<>>),
     MCQuery(3, 0, 0, 0, 130, 0, 0, 0, <<>>),
     MCQuery(Wildcard, 0, 0, 0, 130, 3, 0, 0, <<>>),
     MCQuery(Wildcard, 0, 0, 0, 0, 0, 2, 600, <<>>),
     MCQuery(Wildcard, 0, 0, 0, 0, 0, 0, 0, <<8, 9>>),
     MCQuery(Wildcard, 2, 0, 0, 0, 0, 0, 0, <<>>),
     MCQuery(4, 0, 0, 0, 0, 0, 0, 0, <<>>)}
    \cup {MCResend(0), MCResend(3)}
    \cup {Packet(type, [list |-> <<>>]) : type \in {MasterServerGameTypesRequest, GameHeartbeat, 99}}

\* Neither servers nor places in memory differ in kind.
MCSymmetry == Permutations(Server) \cup Permutations(Pointer)

=============================================================================
