\* Two servers, duplicates, refusals and a failing link, scaled clocks; what is lost is what never arrives.
CONSTANTS
    s1 = s1
    s2 = s2
    a1 = a1
    a2 = a2
    Servers <- TwoServers
    Addr = {a1, a2}
    NoAddr = NoAddr
    NoServer = NoServer
    Pool <- TwoPools
    Broadcast <- AllOfSecond
    Leases = {3}
    Forever = 99
    Client = Client
    Xid0 = 1
    XidMod = 3
    SecMod = 4
    StartDelay = 1
    ResendAfter = 2
    MinuteAfter = 1
    LeaseUnit = 1
    MinLease = 2
    RenewBelow = 2
    RetryLease = 2
    LeaseCap = 3
    LeaseInf = 4
    Losses = 0
    LossKinds <- OnlyRequest
    Dups = 1
    Reboots = 0
    Flaps = 1
    Naks = TRUE
    Prompt = FALSE
    MaxNet = 2
SPECIFICATION Spec
INVARIANTS
    TypeOK
    OfferConsistent
    AddressOnBound
    FilterFollowsPhase
