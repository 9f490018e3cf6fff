\* Two callers, room for one block in memory and one on disk; pins compete for both.
CONSTANTS
    k1 = k1
    k2 = k2
    t1 = t1
    t2 = t2
    Keys = {k1, k2}
    Values <- PlainEnvelopes
    Size <- PlainSize
    Header = 1
    MaxMemory = 1
    MaxDisk = 2
    TTLs = {0}
    Pins <- BothPins
    Threads = {t1, t2}
    Faults = {}
    MaxDrift = 0
    MaxClock = 0
    MaxLag = 0
    EngineTtls = {0}
SPECIFICATION MCSpec
SYMMETRY Alike
INVARIANTS LayersAgree FirmKept LlamaSafe ReuseSafe
PROPERTY AdapterSafe
