SPECIFICATION Spec
CONSTANTS
    LIST_PACKET_SIZE = 42
    ByteSize = 8
    WordSize = 64
    SESSION_MAX = 2
    Listing <- MCListing
    Garbage = 0
    MaxAnswers = 2
INVARIANTS PagesDisjoint ReadsInRange ShortListWhole
