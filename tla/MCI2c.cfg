\* Leds of two registers, beyond the last one, and the last; a register out
\* of range.
CONSTANTS
    AddressByte <- Chip0
    Default <- PowerUp
    Leds = {1, 15, 18}
    Modes <- SomeModes
    Written = {0, 20, 28}
    Bytes <- SomeBytes
    Arrays <- SomeArrays
    Garbage <- SomeGarbage
    Calls = 2
CHECK_DEADLOCK FALSE
SPECIFICATION Spec
INVARIANTS
    OnlyNamedWritten
    SuccessMeansDone
