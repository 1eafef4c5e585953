\* begin beside hooks that die or lose their mark, and a tap that goes on writing.
SPECIFICATION TSpec
CONSTANTS
    h1 = h1
    h2 = h2
    b1 = b1
    Hooks <- TwoHooks
    NoHook = NoHook
    Dead = Dead
    Corrupt = Corrupt
    MaxBatch = 2
    MaxCalls = 2
    MaxResets = 0
    MaxVerifies = 0
    Torn = FALSE
    HeadFails = TRUE
    Crashes = TRUE
    Begins <- OneBegin
    MaxBegins = 2
    MaxDrops = 1
    Alone = TRUE
    MaxTapped = 2
    MaxBoots = 2
    MaxRemovals = 1
SYMMETRY HookSymmetry
INVARIANTS WindowExact ObservedIsReal TapWindowExact
CHECK_DEADLOCK FALSE
