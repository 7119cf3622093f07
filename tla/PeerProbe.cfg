SPECIFICATION FairSpec
CONSTANTS
    o1 = o1
    o2 = o2
    i1 = i1
    i2 = i2
    i3 = i3
    i4 = i4
    i5 = i5
    target = target
    Null = Null
    Conns = {i1, i2}
    AddrOf <- InboundAddr
    Targets = {}
    MaxPeers = 2
    FirstFd = 4
    LastFd = 5
    Commands = {}
    FarEnds = {}
PROPERTIES EveryPeerIsProbed
CHECK_DEADLOCK FALSE
