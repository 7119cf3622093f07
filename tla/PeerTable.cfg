SPECIFICATION Spec
CONSTANTS
    o1 = o1
    o2 = o2
    i1 = i1
    i2 = i2
    i3 = i3
    i4 = i4
    i5 = i5
    target = target
    Null = Null
    Conns = {o1, o2, i1}
    AddrOf <- MixedAddr
    Targets = {target}
    MaxPeers = 2
    FirstFd = 1
    LastFd = 3
    Commands = {"connect", "disconnect"}
    FarEnds = {"closed"}
INVARIANTS Capacity EntriesPublished Ledger TargetsListedOnce
PROPERTIES ImplementsPeerList
SYMMETRY DialSymmetry
VIEW StateView
CHECK_DEADLOCK FALSE
CONSTRAINT AddsApart
