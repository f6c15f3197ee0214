SPECIFICATION Spec
CONSTANTS
    Ticks = {"t1"}
    Ceiling = 0
    MaxRetries = 1
    MaxAttempt = 3
    Events = {"crash", "lost", "linger", "stray", "conflict", "red", "settle"}
INVARIANTS
    TypeOK
    LadderIsBounded
PROPERTIES
    JudgedStands
CHECK_DEADLOCK FALSE
