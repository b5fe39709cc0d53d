CONSTANTS
    a = a
    b = b
    Nodes <- MCNodes
    Paths = {1, 2, 3, 4, 5, 6}
    UserPaths = {1, 2}
    Editors = {a}
    Ignored <- IgnoreNone
    ConflictName <- Copies
    Size <- AlternatingSize
    CfgChoices <- Provided
    DiskChoices <- FreshPeer
    HelloOnWire = FALSE
    EditWhen = {TRUE, FALSE}
    NoFile = NoFile
    Senders = {1}
    MaxEdits = 1
    MaxDeletes = 1
    MaxTime = 1
    MaxConns = 2
    MaxPulls = 0
    Strays = {}
    MaxAsks = 0
    MaxFaults = 1
SPECIFICATION Spec
INVARIANT ContentKeepsItsPath
PROPERTY NeverRegresses
CHECK_DEADLOCK FALSE
