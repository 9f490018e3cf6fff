\* Two threads or processes throughout; calls, errors and losses are bounded.
CONSTANTS
    p1 = p1
    p2 = p2
    NumTiers = 2
    Threads = {p1, p2}
    WritePolicy = "All"
    PromoteOnRead = TRUE
    Ttls = {0}
    Pins = {FALSE}
    MaxCalls = 4
    MaxErrors = 1
    MaxLosses = 0
    MaxClock = 1
    Procs = {p1, p2}
    Entries = {"e1", "e2"}
    MaxPuts = 3
    MaxFaults = 2
    MaxPowerLosses = 1
    Backends = 3
    Volatile = {1}
    Removers = {p1, p2}
    MaxBackendErrors = 2
    MaxPutCalls = 3
SPECIFICATION MCSpec
SYMMETRY Processes
INVARIANTS InvalidationFinal ReplicasKept CopiesTrue LayeredStoreSafe
PROPERTIES FileStoreSafe StoresPersist
CHECK_DEADLOCK FALSE
