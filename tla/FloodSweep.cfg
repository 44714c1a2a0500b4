SPECIFICATION FairSpec
CONSTANTS
    Address = {1, 2}
    End = 4
    SessionId = {s1}
    MaxTickets = 3
    ResetTime = 3
    BanTime = 2
    ForgetTime = 1
    BadMsgTickets = 2
    SESSION_EXPIRE_TIME = 1
    SESSION_MAX = 2
    SweepCount = 2
    SignBit = 16
    Epoch = 8
    MaxClock = 11
INVARIANTS TypeOK CursorValid BanBounded BannedHasNoSessions
PROPERTIES LiveSessionsKept Remembered BanHolds ExpiredSessionsDropped IdleForgotten ElapsedBanLifted
