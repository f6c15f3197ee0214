SPECIFICATION Spec
CONSTANTS
    Ticks = {"t1", "t2"}
    Ceiling = 0
    MaxRetries = 1
    MaxAttempt = 2
    Events = {"crash", "wipe", "lost", "overdue", "width", "decision", "settle"}
INVARIANTS
    LiveIsNeverRedispatched
PROPERTIES
    WorkIsNeverOrphaned
CHECK_DEADLOCK FALSE
