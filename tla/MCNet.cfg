\* Two frames whose ends differ in both bytes; resets at any moment.
CONSTANTS
    Lengths = {60, 700}
SPECIFICATION FairSpec
INVARIANTS
    TypeOK
    MiiExclusive
    LinkFresh
    TransmitIntact
PROPERTIES
    ImplementsFlat
    SendReturns
