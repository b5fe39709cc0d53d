CONSTANTS
    Sessions = {s1, s2, s3}
    Peers = {p1, p2}
    Names = {n1}
    SyncKeys = {k1, k2}
    Overlap = TRUE
    None = None
SPECIFICATION Spec
SYMMETRY Symmetry
INVARIANT TypeOK
INVARIANT MappedWhileServing
INVARIANT Introduced
INVARIANT GoneIsUnreachable
INVARIANT RoomIsolation
CHECK_DEADLOCK FALSE
