SPECIFICATION Spec
CONSTANTS
    MaxLine = 2
    Conns = {c1, c2}
    Subs = {s1, s2}
    Modes = {"replay", "tail"}
    Backend = "file"
    TornWrites = TRUE
    DeadSendRaises = FALSE
CHECK_DEADLOCK FALSE
SYMMETRY Symmetry
INVARIANTS
    StoredRuns
    SubscriberComplete
    FragmentCost
