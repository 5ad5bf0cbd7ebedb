SPECIFICATION FairSpec
CONSTANTS
    Tasks = {t1, t2}
    MaxVersion = 3
    Accepted <- SecondOnly
INVARIANTS
    TypeOK
    VerdictEarned
    SettledVerdict
PROPERTIES
    VerifyingEnds
