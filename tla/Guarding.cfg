\* Room for three calls, two at a time, or for two and two upsets, or one and three.
SPECIFICATION Spec
CONSTANTS
    i1 = i1
    i2 = i2
    main = main
    util = util
    yaml = yaml
    state = state
    draft = draft
    Null = Null
    Broken = Broken
    Slots <- TwoSlots
    Sessions = {"s1", "s2"}
    EditorOf <- Editor
    PayloadOf <- Payload
    Uses <- SomeUses
    Paths = {main, util, yaml, state, draft}
    Place <- Where
    Rules <- SomeRules
    HandMade <- Entries
    MatcherOf <- Matchers
    Room = 6
    Most = 3
SYMMETRY SlotSymmetry
INVARIANTS BlockHolds LoopFlagged ShownIsTrue WiringIsWhole
CHECK_DEADLOCK FALSE
