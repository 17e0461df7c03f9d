\* One server, one request lost, everything else delivered in time.
CONSTANTS
    s1 = s1
    s2 = s2
    a1 = a1
    a2 = a2
    Servers <- OneServer
    Addr = {a1}
    NoAddr = NoAddr
    NoServer = NoServer
    Pool <- OnePool
    Broadcast <- InitialOfFirst
    Leases = {3}
    Forever = 99
    Client = Client
    Xid0 = 1
    XidMod = 3
    SecMod = 4
    StartDelay = 1
    ResendAfter = 2
    MinuteAfter = 1
    LeaseUnit = 1
    MinLease = 2
    RenewBelow = 2
    RetryLease = 2
    LeaseCap = 3
    LeaseInf = 4
    Losses = 1
    LossKinds <- OnlyRequest
    Dups = 0
    Reboots = 0
    Flaps = 0
    Naks = FALSE
    Prompt = TRUE
    MaxNet = 9
SPECIFICATION FairSpec
PROPERTIES
    AddressEventually
