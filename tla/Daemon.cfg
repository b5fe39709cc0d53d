SPECIFICATION FairSpec
CONSTANTS
    Procs = {p1, p2}
    Configs <- MCConfigs
    Jobs = {1}
    Sizes = {2}
    None = None
    StaleAfter = 4
    MaxMissed = 1
    MaxFaults = 1
INVARIANTS TypeOK OneIdentity GroupsReachable ActiveIsAtWork CompletedIsComplete
PROPERTIES LiveIsListed StoppedIsNoticed
CHECK_DEADLOCK FALSE
