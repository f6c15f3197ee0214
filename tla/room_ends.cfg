SPECIFICATION FairSpec
CONSTANTS
    r1 = r1
    r2 = r2
    r3 = r3
    e1 = e1
    e2 = e2
    Runs = {r1, r2, r3}
    EpicOf <- MCEpicsShared
    Queuers = {r2, r3}
    WaitsFor = {r3}
    Window <- MCWindows
    HoldTtl = 2
    IgniteTtl = 2
    Faults = {}
    MaxTime = 1
    Horizon = 6
    NoLease = NoLease
    NoAlarm = NoAlarm
INVARIANTS
    TypeOK
    OneArbiter
PROPERTIES
    RoomDrains
    WaitsOutTheHolder
CHECK_DEADLOCK FALSE
