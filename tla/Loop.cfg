SPECIFICATION FairSpec
CONSTANTS
    Address = {1, 2}
    SessionId = {s1}
    HostEnd = 4
    MaxTickets = 2
    ResetTime = 1
    BanTime = 2
    ForgetTime = 1
    BadMsgTickets = 2
    SESSION_EXPIRE_TIME = 1
    SESSION_MAX = 1
    Server <- MCServers
    GameType = {g1}
    MissionType = {m1}
    Props = {x}
    Pointer = {p1}
    HalfWord = 4
    SlotEnd = 16
    Heartbeat = 1
    SweepCount = 2
    SignBit = 32
    Epoch = 16
    MaxClock = 21
    MaxLoop = 1
INVARIANTS NoReportInBan StaleBounded HostsSettled
PROPERTIES FloodRuns StoreRuns
