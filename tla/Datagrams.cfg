SPECIFICATION Spec
CONSTANTS
    Server = {s1, s2}
    Pointer = {p1, p2}
    NameSize <- MCNameSize
    Printable <- MCPrintable
    Guid <- MCGuid
    MaskBits = 4
    Message <- MCMessage
SYMMETRY MCSymmetry
INVARIANTS TypeOK StoredAsReported CutRequestsHarmless AnswerExact
