\* A frame may end at the last byte of the ring.
CONSTANTS
    Packet = {p1, p2, p3, p4, p5}
    NoPacket = NoPacket
    Garbage = Garbage
    Sizes = {4, 6}
    RXSTOP_INIT = 13
    PtrSpace = 16
    MaxCount = 3
    ToEnd = TRUE
SYMMETRY PacketSymmetry
SPECIFICATION Spec
INVARIANTS
    UnreadIntact
