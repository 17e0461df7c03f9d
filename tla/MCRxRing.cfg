\* Frames of two sizes, none of which ends at the last byte of the ring.
CONSTANTS
    Packet = {p1, p2, p3, p4}
    NoPacket = NoPacket
    Garbage = Garbage
    Sizes = {4, 6}
    RXSTOP_INIT = 11
    PtrSpace = 16
    MaxCount = 3
    ToEnd = FALSE
SPECIFICATION FairSpec
INVARIANTS
    TypeOK
    UnreadIntact
    CountFollowsChain
    SpaceReturned
PROPERTIES
    ImplementsQueue
