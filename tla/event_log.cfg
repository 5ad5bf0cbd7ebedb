SPECIFICATION Spec
CONSTANTS
    MaxProgress = 2
    MaxAttempt = 3
CHECK_DEADLOCK FALSE
INVARIANTS
    TypeOK
    LogChained
    ChainBindsStatement
    LogHashExtendsStatement
