\* Two anchors and two reviewers at a time beside keys init, and room for four
\* commands or upsets.
SPECIFICATION Spec
CONSTANTS
    a1 = a1
    a2 = a2
    r1 = r1
    r2 = r2
    good = good
    bad = bad
    Masked = Masked
    Null = Null
    Torn = Torn
    Noise = Noise
    Anchors <- TwoAnchors
    Reviewers <- TwoReviewers
    Works = {good, bad}
    Outcome <- Verdicts
    Secret = {bad}
    MaxReceipts = 1
    Room = 4
    MaxKeys = 2
SYMMETRY Symmetry
INVARIANTS NoFalseAlarm PassIsSigned AnchorsAreTrue ApprovalsAreTrue
CHECK_DEADLOCK FALSE
