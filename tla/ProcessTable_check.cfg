CONSTANTS
    k1 = k1  k2 = k2
    r1 = r1  r2 = r2  r3 = r3
    p1 = p1  p2 = p2
    Null = Null
    Key <- TwoKeys
    Record <- Records
    Pid <- TwoPids
    STUB_COUNT = 2
    Reserve = 1
SPECIFICATION FairSpec
INVARIANTS
    LiveIsListed
    NamedIsListed
    NameLostOnlyToSibling
    ListedIsWatched
PROPERTIES PoolSpec ListedAliveIsCollected
