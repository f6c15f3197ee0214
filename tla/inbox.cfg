SPECIFICATION FairSpec
CONSTANTS
    s1 = s1
    s2 = s2
    s3 = s3
    i1 = i1
    i2 = i2
    i3 = i3
    Signals = {s1, s2}
    Ids = {i1, i2, i3}
    Width = 2
    Candidates <- MCCandidates
    MaxAttempts = 2
    QueueLimit = 2
    MaxPending = 1
    Faults = {"evict", "lost", "late"}
    MaxLate = 1
    Nothing = Nothing
INVARIANTS
    TypeOK
    FiledOnce
    DraftAgrees
PROPERTIES
    DecisionIsFinal
    EveryPressAnswers
CHECK_DEADLOCK FALSE
