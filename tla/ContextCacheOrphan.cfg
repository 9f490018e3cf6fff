\* One invalidation racing with puts, no faults and no crashes needed.
CONSTANTS
    k1 = k1
    k2 = k2
    v1 = v1
    v2 = v2
    t1 = t1
    t2 = t2
    Keys = {k1, k2}
    Values = {v1, v2}
    Size <- MCSize
    Header = 1
    MaxMemory = 2
    MaxDisk = 4
    TTLs = {0}
    Pins = {FALSE}
    Threads = {t1}
    Faults = {}
    MaxDrift = 0
    MaxClock = 0
    MaxLag = 0
SYMMETRY Alike
SPECIFICATION PlainSpec
INVARIANTS
    StoreBounded
