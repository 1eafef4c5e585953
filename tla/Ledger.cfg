\* Writers that crash and tear the file; a rebuild when nobody writes.
SPECIFICATION TSpec
CONSTANTS
    w1 = w1
    w2 = w2
    Writers <- TwoWriters
    NoWriter = NoWriter
    Dead = Dead
    Corrupt = Corrupt
    Old = 5
    MaxReceipts = 2
    MaxRebuilds = 1
    Torn = TRUE
    Crashes = TRUE
    Overlap = FALSE
SYMMETRY Symmetry
INVARIANTS ChainIntact  ForkShows
CHECK_DEADLOCK FALSE
