SPECIFICATION FairSpec
CONSTANTS
    Instance = {i1, i2}
    None = none
    Default <- MCDefault
    MaxPort = 2
    MaxHeartbeat = 2
    File <- MCFile
    Decimal <- MCDecimal
    StrayBlank = {i2}
    QueueSize = 1
INVARIANTS TypeOK PidFileCurrent
PROPERTIES StopHonoured CreatedIsRead
