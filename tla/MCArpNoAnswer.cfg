\* One request while another host announces itself.
CONSTANTS
    h1 = h1
    h2 = h2
    h3 = h3
    m1 = m1
    m2 = m2
    m3 = m3
    m4 = m4
    Ip = {h1, h2, h3}
    NoIp = NoIp
    Mac = {m1, m2, m3, m4}
    NoMac = NoMac
    Start <- ThreeHosts
    Null = Null
    Size = 2
    MaxDepth = 1
    MaxRequests = 1
    Losses = 0
    Dups = 0
    Moves = 0
    Announcements = 1
CHECK_DEADLOCK FALSE
SPECIFICATION Spec
INVARIANT
    AnswerExists
