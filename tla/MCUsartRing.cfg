CONSTANTS
    Byte = {b1, b2, b3}
    NoByte = NoByte
    Blank = b1
    Size = 4
SPECIFICATION FairSpec
INVARIANTS
    TypeOK
    NoLostWakeup
    SendIntact
PROPERTIES
    ImplementsFairChannel
    SendReturns
