\* Two verifications of any of six reports while the world changes twice.
SPECIFICATION Spec
CONSTANTS
    v1 = v1
    v2 = v2
    Null = Null
    Blank = Blank
    Torn = Torn
    Other = Other
    Verifiers <- TwoVerifiers
    Reports <- SixReports
    Paths = {"f"}
    Contents <- TwoContents
    Commits = {"c1", "c2"}
    ChangedBy <- Changed
    DiffOf <- Diffs
    Outs = {1, 2}
    Versions <- ThreeVersions
    Origins <- OneOrigin
    MaxRuns = 2
    MaxEdits = 2
    MaxClock = 1
SYMMETRY VerifierSymmetry
INVARIANTS SealSaysWhatWasRead ReplayIsExact LogBreakHasCause GraphAddsUp
PROPERTIES GradedByTheWorld
CHECK_DEADLOCK FALSE
