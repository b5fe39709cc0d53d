CONSTANTS
    VConns = {v1, v2}
    PeerIDs = {p1}
    Frames = {"hello", "data", "bad"}
    QueueCap = 1
    None = None
SPECIFICATION FairSpec
INVARIANT TypeOK
INVARIANT OpenIsMapped
INVARIANT QueueIsDrained
PROPERTY LinkLossNoticed
PROPERTY EngineSpec
CHECK_DEADLOCK FALSE
