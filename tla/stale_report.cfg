SPECIFICATION Spec
CONSTANTS
    Workers = {}
    Codes = {"zero", "terminal", "transient", "other"}
    MaxSandboxBoots = 2
    MaxTransientReboots = 1
    TransientMaxLooks = 0
    MaxObservations = 2
    MaxUnansweredLooks = 2
    BootRetries = 1
    Faults = {}
    MaxStops = 0
INVARIANTS
    LingersOnItsOwnReport
CHECK_DEADLOCK FALSE
