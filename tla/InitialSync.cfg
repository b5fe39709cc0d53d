CONSTANTS
    a = a
    b = b
    Nodes <- MCNodes
    Paths = {1, 2, 3, 4}
    UserPaths = {1, 2}
    Editors = {a, b}
    Ignored <- IgnoreOneEach
    ConflictName <- NoCopies
    Size <- AlternatingSize
    CfgChoices <- OneWay
    DiskChoices <- AnyTrees
    HelloOnWire = TRUE
    EditWhen = {TRUE, FALSE}
    NoFile = NoFile
    Senders = {1, 2}
    MaxEdits = 0
    MaxDeletes = 0
    MaxTime = 0
    MaxConns = 2
    MaxPulls = 1
    Strays <- SharedAndIgnored
    MaxAsks = 1
    MaxFaults = 0
SPECIFICATION FairSpec
INVARIANT IgnoredStaysLocal
PROPERTY Converges
CHECK_DEADLOCK FALSE
