SPECIFICATION Spec
CONSTANTS
    End = 16
    Server <- MCColliding
    HalfWord = 4
    GameType = {g1, g2}
    MissionType = {m1}
    Props = {x}
    Pointer = {p1, p2, p3}
    Heartbeat = 2
    SweepCount = 3
    Epoch = 0
    MaxClock = 4
INVARIANT FreshReportListed
