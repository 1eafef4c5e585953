\* Two hooks, a reset and a verify: crashes, torn writes, lost marks, lock failures.
SPECIFICATION Spec
CONSTANTS
    h1 = h1
    h2 = h2
    Hooks <- TwoHooks
    NoHook = NoHook
    Dead = Dead
    Corrupt = Corrupt
    MaxBatch = 2
    MaxCalls = 2
    MaxResets = 1
    MaxVerifies = 1
    Torn = TRUE
    HeadFails = TRUE
    Crashes = TRUE
SYMMETRY Symmetry
INVARIANTS ChainSound
PROPERTIES TruncationHasCause EvidenceFirst
CHECK_DEADLOCK FALSE
