\* Four files, four moves, every command.
SPECIFICATION Spec
CONSTANTS
    a = a
    d = d
    l = l
    o = o
    Files <- AllFiles
    Versions = {1}
    FirstTree <- OneFile
    Allowed <- InAllowed
    Denied <- OnlyDenied
    Main = Main
    Other = Other
    Expected = {Main, Other}
    MaxMoves = 4
    Linked <- OnlyLinked
    Critical <- OnlyDenied
    Forbidden = {}
    NeedApproval <- OnlyOutside
    RequireReceipt = TRUE
    Needed <- OnlyLinked
    MaxRuns = 2
    MaxSteps = 5
INVARIANTS PassCovers GateIsRight
PROPERTIES BlockCommits
CHECK_DEADLOCK FALSE
