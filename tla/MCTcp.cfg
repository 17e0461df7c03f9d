\* Two paths, two callbacks, a list of three.
CONSTANTS
    root = root
    status = status
    c1 = c1
    c2 = c2
    Null = Null
    NoPath = NoPath
    Path = {root, status}
    Callback = {c1, c2}
    Size = 3
    Pages <- MainPages
    Base = 4
    Numbers <- FirstNumbers
    Protocol = 6
    PathByte <- PathBytes
    CallbackByte <- CallbackBytes
    Faults = 1
    Changes = 2
CHECK_DEADLOCK FALSE
SPECIFICATION TcpFairSpec
INVARIANTS
    ReplyWhole
    ChecksumsVerify
PROPERTIES
    ImplementsPaths
    RequestAnswered
