\* Failing appends, kills, exits that time out, a second process on the file.
SPECIFICATION LogLiveSpec
CONSTANTS
    Corrupt = Corrupt
    QueueCap = 1
    RepeatCap = 3
    MaxFrames = 3
    MaxBoots = 2
    Fails = TRUE
    Crashes = TRUE
    LateFrames = FALSE
INVARIANTS BreakHasCause MergeLossless NothingSilent
PROPERTIES ExitEnds
CHECK_DEADLOCK FALSE
