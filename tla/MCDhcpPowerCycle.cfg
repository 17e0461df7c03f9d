\* One server, a network that loses and repeats nothing, one power cycle; scaled clocks.
CONSTANTS
    s1 = s1
    s2 = s2
    a1 = a1
    a2 = a2
    Servers <- OneServer
    Addr = {a1, a2}
    NoAddr = NoAddr
    NoServer = NoServer
    Pool <- OnePool
    Broadcast <- InitialOfFirst
    Leases = {3}
    Forever = 99
    Client = Client
    Xid0 = 1
    XidMod = 3
    SecMod = 4
    StartDelay = 1
    ResendAfter = 2
    MinuteAfter = 1
    LeaseUnit = 1
    MinLease = 2
    RenewBelow = 2
    RetryLease = 2
    LeaseCap = 3
    LeaseInf = 4
    Losses = 0
    LossKinds <- OnlyRequest
    Dups = 0
    Reboots = 1
    Flaps = 0
    Naks = FALSE
    Prompt = FALSE
    MaxNet = 2
SPECIFICATION Spec
INVARIANT
    AddressOnBound
