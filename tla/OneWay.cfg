CONSTANTS
    a = a
    b = b
    Nodes <- MCNodes
    Paths = {1, 2, 3}
    UserPaths = {1, 2}
    Editors = {a, b}
    Ignored <- IgnoreThirdAtA
    ConflictName <- NoCopies
    Size <- AlternatingSize
    CfgChoices <- Mismatched
    DiskChoices <- PrivateThird
    HelloOnWire = FALSE
    EditWhen = {TRUE, FALSE}
    NoFile = NoFile
    Senders = {1}
    MaxEdits = 1
    MaxDeletes = 0
    MaxTime = 1
    MaxConns = 2
    MaxPulls = 0
    Strays = {}
    MaxAsks = 0
    MaxFaults = 0
SPECIFICATION Spec
INVARIANT TypeOK
INVARIANT ReceiverServed
PROPERTY OneWayRespected
CHECK_DEADLOCK FALSE
