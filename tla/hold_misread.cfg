SPECIFICATION Spec
CONSTANTS
    Ticks = {"t1", "t2"}
    Ceiling = 0
    MaxRetries = 1
    MaxAttempt = 2
    Events = {"lost"}
PROPERTIES
    HeldForAPerson
CHECK_DEADLOCK FALSE
