\* A short bound is enough: one call of i2c_write_register.
CONSTANTS
    AddressByte <- Chip0
    Default <- PowerUp
    Leds = {1}
    Modes <- SomeModes
    Written = {0, 20}
    Bytes <- SomeBytes
    Arrays = {}
    Garbage <- SomeGarbage
    Calls = 1
CHECK_DEADLOCK FALSE
SPECIFICATION Spec
INVARIANT
    RegisterSet
