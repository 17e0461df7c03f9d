\* Three hosts, a cache of two; losses, duplicates, moves, announcements.
CONSTANTS
    h1 = h1
    h2 = h2
    h3 = h3
    m1 = m1
    m2 = m2
    m3 = m3
    m4 = m4
    Ip = {h1, h2, h3}
    NoIp = NoIp
    Mac = {m1, m2, m3, m4}
    NoMac = NoMac
    Start <- ThreeHosts
    Null = Null
    Size = 2
    MaxDepth = 2
    MaxRequests = 3
    Losses = 1
    Dups = 1
    Moves = 1
    Announcements = 1
CHECK_DEADLOCK FALSE
SPECIFICATION FairSpec
INVARIANTS
    TypeOK
    AnswerClaimed
PROPERTIES
    ImplementsTable
    RequestsEnd
