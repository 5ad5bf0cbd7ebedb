SPECIFICATION Spec
CONSTANTS
    Retries = 1
    MaxVerifications = 2
CHECK_DEADLOCK FALSE
INVARIANTS
    Structured
