SPECIFICATION Spec
CONSTANTS
    Workers = {}
    Codes = {"transient", "other"}
    MaxSandboxBoots = 2
    MaxTransientReboots = 1
    TransientMaxLooks = 0
    MaxObservations = 2
    MaxUnansweredLooks = 2
    BootRetries = 1
    Faults = {"boot", "kill", "step"}
    MaxStops = 2
INVARIANTS
    TypeOK
    OneSpender
    NoneBesideTheNext
    EndedIsQuiet
PROPERTIES
    ImplementsCredential
    HardStopIsARefusal
CHECK_DEADLOCK FALSE
