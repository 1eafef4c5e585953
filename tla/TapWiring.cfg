\* Two files, three entries, deaths, unreadable files and edits.
SPECIFICATION WiringSpec
CONSTANTS
    c1 = c1
    c2 = c2
    n1 = n1
    n2 = n2
    x = x
    y = y
    Slots <- TwoFiles
    Commands = {x, y}
    None = None
    MaxRuns = 2
    MaxEdits = 2
    MayDie = TRUE
    MayMisread = TRUE
INVARIANTS Restorable
PROPERTIES OnlyDriftReverts
CHECK_DEADLOCK FALSE
