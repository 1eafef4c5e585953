\* Ids used again, a clock that goes back, a map that fills up.
SPECIFICATION Spec
CONSTANTS
    Ids = {i1, i2, i3}
    Cap = 2
    Ttl = 1
    MaxRequests = 3
    MaxClock = 3
    Reuse = TRUE
    SetBack = TRUE
SYMMETRY Symmetry
INVARIANTS CallsAccounted PairedRight SweepComplete
CHECK_DEADLOCK FALSE
