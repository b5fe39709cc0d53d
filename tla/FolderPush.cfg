SPECIFICATION FairSpec
CONSTANTS
    Folders = {root, src}
    Root = root
    Edited = {src}
    Procs = {1, 2, 3}
    Modes = {"auto", "ask_folder"}
    None = None
    MaxChanges = 2
    MaxApprovals = 1
    MaxBreaks = 1
INVARIANTS TypeOK NoLostWakeup WaitingIsListed ReleasedIsApproved
PROPERTIES ChangesAnnounced FeedSpec
CHECK_DEADLOCK FALSE
