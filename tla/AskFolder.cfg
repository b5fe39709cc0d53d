SPECIFICATION Spec
CONSTANTS
    Folders = {root, src}
    Root = root
    Edited = {src}
    Procs = {1, 2, 3}
    Modes = {"ask_folder"}
    None = None
    MaxChanges = 2
    MaxApprovals = 1
    MaxBreaks = 1
INVARIANT OnlyApprovedIsSent
CHECK_DEADLOCK FALSE
