SPECIFICATION Spec
CONSTANTS
    Runs = {r1, r2}
    Clients = {c1}
    Commits = {h1, h2}
    Records = {d1, d2}
    RateMax = 2
    RateWindow = 2
    DefaultTtl = 2
    ShortTtl = 1
    Lifetime = 2
    None = None
    MaxTime = 4
    MaxAnswers = 4
CHECK_DEADLOCK FALSE
INVARIANTS
    TypeOK
    IngestByLatestToken
    RateLimitExact
    ChallengeAfterCommit
