SPECIFICATION Spec
SYMMETRY MCSymmetry
CONSTANTS
    w1 = w1
    w2 = w2
    Writers <- MCWriters
    Body <- MCBody
    Markers = {m1}
    Registers = {}
    Checkpoint = checkpoint
    Trackers = {}
    LiveStates = {"running"}
    EndStates = {"failed"}
    Absent = Absent
    LosesReplies = TRUE
    MaxOps <- MCTwoCalls
    MaxPushes = 2
    MaxTries = 2
INVARIANTS
    AckedIsDurable
    AtMostOneGrant
    ReadsItsWrites
PROPERTIES
    MarkersNeverChange
    ImplementsLedger
    NoLostUpdate
CHECK_DEADLOCK FALSE
