\* One server, the clocks of the code; a message, but not the request of an offered address or its answer, may be lost, and power may fail.
CONSTANTS
    s1 = s1
    s2 = s2
    a1 = a1
    a2 = a2
    Servers <- OneServer
    Addr = {a1}
    NoAddr = NoAddr
    NoServer = NoServer
    Pool <- OnePool
    Broadcast <- InitialOfFirst
    Leases = {307, 384, 600}
    Forever = 999999
    Client = Client
    Xid0 = 1
    XidMod = 4
    SecMod = 256
    StartDelay = 3
    ResendAfter = 33
    MinuteAfter = 50
    LeaseUnit = 64
    MinLease = 5
    RenewBelow = 3
    RetryLease = 5
    LeaseCap = 65533
    LeaseInf = 65535
    Losses = 1
    LossKinds <- ButRequest
    Dups = 0
    Reboots = 1
    Flaps = 0
    Naks = FALSE
    Prompt = TRUE
    MaxNet = 9
SPECIFICATION FairSpec
INVARIANTS
    LeaseHeld
PROPERTIES
    AddressEventually
    LeaseRenewed
