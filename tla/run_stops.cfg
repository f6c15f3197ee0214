SPECIFICATION FairSpec
CONSTANTS
    Workers = {"worker"}
    Codes = {"zero"}
    MaxSandboxBoots = 2
    MaxTransientReboots = 0
    TransientMaxLooks = 0
    MaxObservations = 2
    MaxUnansweredLooks = 2
    BootRetries = 0
    Faults = {"blind", "deaf", "destroy", "revoke", "lost"}
    MaxStops = 2
INVARIANTS
    CleanStopKeepsItsGrace
PROPERTIES
    RecordEnds
CHECK_DEADLOCK FALSE
