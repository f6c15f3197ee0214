SPECIFICATION Spec
CONSTANTS
    PhaseRetries = 1
    ResumeLoopLimit = 2
    ProcIds = {1, 2, 3}
    Faults = {"crash", "lost", "fail", "slow", "destroy"}
    MaxFaults = 2
    MaxStarts = 2
INVARIANTS TypeOK
PROPERTIES SettledStands StoppedIsNotResumed AttemptEnds EndedRunHoldsNothing
CHECK_DEADLOCK FALSE
