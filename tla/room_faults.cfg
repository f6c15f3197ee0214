SPECIFICATION Spec
CONSTANTS
    r1 = r1
    r2 = r2
    r3 = r3
    e1 = e1
    e2 = e2
    Runs = {r1, r2}
    EpicOf <- MCEpicsApart
    Queuers = {r2}
    WaitsFor = {r2}
    Window <- MCWindows
    HoldTtl = 2
    IgniteTtl = 1
    Faults = {"crash", "log", "slow", "late"}
    MaxTime = 2
    Horizon = 4
    NoLease = NoLease
    NoAlarm = NoAlarm
INVARIANTS
    AlarmCovers
PROPERTIES
    NeverStolen
    SupersededStaysOut
CHECK_DEADLOCK FALSE
