CONSTANTS
    a = a
    b = b
    Nodes <- MCNodes
    Paths = {1, 2}
    UserPaths = {1, 2}
    Editors = {a, b}
    Ignored <- IgnoreNone
    ConflictName <- NoCopies
    Size <- AlternatingSize
    CfgChoices <- BothWaysOnly
    DiskChoices <- FreshPeer
    HelloOnWire = FALSE
    EditWhen = {FALSE}
    NoFile = NoFile
    Senders = {1, 2}
    MaxEdits = 1
    MaxDeletes = 0
    MaxTime = 0
    MaxConns = 1
    MaxPulls = 0
    Strays = {}
    MaxAsks = 0
    MaxFaults = 0
SPECIFICATION Spec
INVARIANT ReceiverServed
CHECK_DEADLOCK FALSE
