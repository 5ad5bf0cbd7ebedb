SPECIFICATION FairSpec
CONSTANTS
    Retries = 1
    MaxVerifications = 2
CHECK_DEADLOCK FALSE
INVARIANTS
    TypeOK
    LevelsNested
    StatusEarned
    NoSilentDowngrade
PROPERTIES
    FullChallenged
    VerificationEnds
