\* One host that announces itself, moves and announces itself again.
CONSTANTS
    h1 = h1
    h2 = h2
    h3 = h3
    m1 = m1
    m2 = m2
    m3 = m3
    m4 = m4
    Ip = {h1, h2, h3}
    NoIp = NoIp
    Mac = {m1, m2, m3, m4}
    NoMac = NoMac
    Start <- ThreeHosts
    Null = Null
    Size = 2
    MaxDepth = 1
    MaxRequests = 1
    Losses = 0
    Dups = 0
    Moves = 1
    Announcements = 2
CHECK_DEADLOCK FALSE
SPECIFICATION Spec
PROPERTIES
    CombinationCached
