SPECIFICATION FairSpec
CONSTANTS
    End = 16
    Server <- MCDistinct
    HalfWord = 4
    GameType = {g1, g2}
    MissionType = {m1}
    Props = {x}
    Pointer = {p1, p2}
    Heartbeat = 2
    SweepCount = 2
    Epoch = 0
    MaxClock = 4
INVARIANTS TypeOK CursorValid FreshReportListed TypesInUse
PROPERTIES ImplementsRegistry LapsedRemoved
