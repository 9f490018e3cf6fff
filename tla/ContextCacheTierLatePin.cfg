\* One caller pins what is already stored.
CONSTANTS
    k1 = k1
    k2 = k2
    t1 = t1
    t2 = t2
    Keys = {k1, k2}
    Values <- PlainEnvelopes
    Size <- PlainSize
    Header = 1
    MaxMemory = 1
    MaxDisk = 2
    TTLs = {0}
    Pins <- BothPins
    Threads = {t1}
    Faults = {}
    MaxDrift = 0
    MaxClock = 0
    MaxLag = 0
    EngineTtls = {0}
SYMMETRY Alike
SPECIFICATION TierOnly
INVARIANTS
    PinHolds
