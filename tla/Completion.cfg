\* Two receipts, two sessions, two Stop hooks, everything beside everything.
SPECIFICATION Spec
CONSTANTS
    w1 = w1
    w2 = w2
    a = a
    b = b
    s1 = s1
    s2 = s2
    Works <- TwoWorks
    Content <- Different
    OkWorks <- FirstOnly
    Sessions <- TwoSessions
    NoSession = NoSession
    Stops <- TwoStops
    MaxStops = 2
    MaxShares = 1
SYMMETRY Symmetry
INVARIANTS MismatchNeverPasses PassIsEarned PageBecomesFinal
CHECK_DEADLOCK FALSE
