SPECIFICATION FairSpec
CONSTANTS
    MaxLine = 3
    Conns = {c1, c2}
    Subs = {s1}
    Modes = {"replay"}
    Backend = "file"
    TornWrites = FALSE
    DeadSendRaises = TRUE
CHECK_DEADLOCK FALSE
INVARIANTS
    TypeOK
    NoGaps
PROPERTIES
    FeedSpec
    LineStored
    SubscriberGets
