CONSTANTS
    Conns = {c1, c2}
    Addrs = {a1}
    PeerIDs = {p1, p2}
    None = None
SPECIFICATION FairSpec
INVARIANT TypeOK
INVARIANT ListedOrClosed
INVARIANT ListedHasReader
PROPERTY AddressIsRetried
CHECK_DEADLOCK FALSE
