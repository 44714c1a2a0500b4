SPECIFICATION Spec
CONSTANTS
    Address = {1}
    End = 2
    SessionId = {s1, s2}
    MaxTickets = 3
    ResetTime = 3
    BanTime = 4
    ForgetTime = 3
    BadMsgTickets = 2
    SESSION_EXPIRE_TIME = 2
    SESSION_MAX = 2
    SweepCount = 2
    SignBit = 32
    Epoch = 16
    MaxClock = 25
PROPERTY BanServed
