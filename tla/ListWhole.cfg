SPECIFICATION Spec
CONSTANTS
    LIST_PACKET_SIZE = 42
    ByteSize = 8
    WordSize = 64
    SESSION_MAX = 1
    Listing <- MCListing
    Garbage = 0
    MaxAnswers = 1
INVARIANT WholeListSent
