SPECIFICATION Spec
SYMMETRY MCSymmetry
CONSTANTS
    w1 = w1
    w2 = w2
    Writers <- MCWriters
    Body <- MCBody
    Markers = {m1}
    Registers = {r1}
    Checkpoint = checkpoint
    Trackers = {t1}
    LiveStates = {"running"}
    EndStates = {"failed"}
    Absent = Absent
    LosesReplies = FALSE
    MaxOps <- MCTwoCalls
    MaxPushes = 2
    MaxTries = 1
INVARIANTS
    TypeOK
    HonestRefusal
    OrderKept
PROPERTIES
    TagKeepsTheEnd
CHECK_DEADLOCK FALSE
