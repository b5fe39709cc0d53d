SPECIFICATION Spec
CONSTANTS
    Glob <- MCGlob
    EndsWith <- MCEndsWith
    RawPatterns <- MCRawPatterns
    MaxPatterns = 3
    Tree <- MCTree
    TempNames = {"x.tmp"}
INVARIANTS ScanFindsFiles HiddenIsRefused MatchesReference
CHECK_DEADLOCK FALSE
