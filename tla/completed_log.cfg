SPECIFICATION Spec
CONSTANTS
    MaxProgress = 0
    MaxAttempt = 1
CHECK_DEADLOCK FALSE
INVARIANTS
    CompletedLogVerifies
