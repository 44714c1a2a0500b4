SPECIFICATION Spec
CONSTANTS
    Length = {0, 1, 3}
    MaxPacketSize = 20
    MaxCount = 3
    MaxTypes = 4
INVARIANTS AllTypesSent HalvesNearlyFit
